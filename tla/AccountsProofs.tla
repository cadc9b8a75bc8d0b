---------------------------- MODULE AccountsProofs ----------------------------
(***************************************************************************)
(* Which tokens are admitted, for any accounts, keys, threads and times.   *)
(***************************************************************************)
EXTENDS Accounts, FiniteSetTheorems, SequenceTheorems, WellFoundedInduction, TLAPS

\* While the server is down nothing of a run is left.
DownInv == ~up => revoked = {} /\ \A r \in Request : op[r] = Off

\* A token names an account; accounts are never removed.
IssuedInv == DOMAIN users = Email /\ \A t \in issued : t.sub \in Ids

\* The revoked tokens are those logged out in this run, not in an earlier one.
RevokedInv ==
  /\ run \in Nat
  /\ \A x \in loggedOut : x.run \in 0 .. run
  /\ up => \A t : t \in revoked <=> [token |-> t, run |-> run] \in loggedOut

IInv == DOMAIN op = Request /\ DownInv /\ IssuedInv /\ RevokedInv
-----------------------------------------------------------------------------
(* An action that touches no logout keeps the tokens revoked in this run.  *)
LEMMA TokensKept ==
  ASSUME IInv, UNCHANGED <<run, up, revoked, loggedOut>>
  PROVE  RevokedInv'
BY DEF IInv, RevokedInv

(* An action that neither registers nor logs in keeps the accounts of tokens. *)
LEMMA AccountsKept ==
  ASSUME IInv, UNCHANGED <<users, issued>>
  PROVE  IssuedInv'
BY DEF IInv, IssuedInv, Ids

(* A worker thread works only while the server is up.                      *)
LEMMA WorksWhenUp ==
  ASSUME IInv, NEW r \in Request, op[r].do # "off"
  PROVE  up
BY DEF IInv, DownInv, Off

(* A new account leaves the others in place.                               *)
LEMMA InsertKeeps ==
  ASSUME IInv, NEW r \in Request, NEW id \in Id, Insert(r, id)
  PROVE  IInv'
<1>1. UNCHANGED <<run, up, revoked, loggedOut, issued>>
  BY DEF Insert, memory, history
<1>2. up
  <2>1. op[r].do = "insert"
    BY DEF Insert
  <2> QED BY <2>1, WorksWhenUp
<1>3. DOMAIN op' = Request
  BY DEF Insert, IInv
<1>4. IssuedInv'
  <2>1. CASE UNCHANGED users
    BY <1>1, <2>1, AccountsKept
  <2>2. CASE ~UNCHANGED users
    <3>1. users' = [users EXCEPT ![op[r].email] = id] /\ users[op[r].email] = NoId
      BY <2>2 DEF Insert
    <3>2. DOMAIN users' = Email /\ \A e \in Email : users[e] # NoId => users'[e] = users[e]
      BY <3>1 DEF IInv, IssuedInv
    <3>3. Ids \subseteq Ids'
      BY <3>2 DEF Ids
    <3> QED BY <1>1, <3>2, <3>3 DEF IInv, IssuedInv
  <2> QED BY <2>1, <2>2
<1> QED
  BY <1>1, <1>2, <1>3, <1>4, TokensKept DEF IInv, DownInv

(* The end of a logout adds its token to both, in this run.                *)
LEMMA RevokeKeeps ==
  ASSUME IInv, NEW r \in Request, revoke_token(r)
  PROVE  IInv'
<1> DEFINE token == op[r].token
<1>1. /\ UNCHANGED <<run, up, users, issued>>
      /\ revoked' = revoked \cup {token}
      /\ loggedOut' = loggedOut \cup {[token |-> token, run |-> run]}
      /\ DOMAIN op' = Request
  BY DEF revoke_token, IInv
<1>2. up
  <2>1. op[r].do = "revoke"
    BY DEF revoke_token
  <2> QED BY <2>1, WorksWhenUp
<1> HIDE DEF token
<1>3. RevokedInv'
  <2>1. \A x \in loggedOut' : x.run \in 0 .. run
    BY <1>1 DEF IInv, RevokedInv
  <2>2. ASSUME NEW t
        PROVE  t \in revoked' <=> [token |-> t, run |-> run] \in loggedOut'
    <3>1. t \in revoked <=> [token |-> t, run |-> run] \in loggedOut
      BY <1>2 DEF IInv, RevokedInv
    <3>2. [token |-> t, run |-> run] = [token |-> token, run |-> run] <=> t = token
      <4>1. [token |-> t, run |-> run].token = t /\ [token |-> token, run |-> run].token = token
        OBVIOUS
      <4> QED BY <4>1
    <3> QED BY <1>1, <3>1, <3>2
  <2> QED BY <1>1, <2>1, <2>2 DEF IInv, RevokedInv
<1> QED
  BY <1>1, <1>2, <1>3, AccountsKept DEF IInv, DownInv

(* Login issues a token for an account there is.                           *)
LEMMA LoginKeeps ==
  ASSUME IInv, NEW e \in Email, NEW right \in BOOLEAN, authenticate(e, right)
  PROVE  IInv'
<1>1. UNCHANGED <<run, up, revoked, loggedOut, users, op>> /\ up
  BY DEF authenticate
<1>2. IssuedInv'
  <2>1. CASE issued' = issued
    BY <1>1, <2>1, AccountsKept
  <2>2. CASE issued' # issued
    <3>1. issued' = issued \cup {create_access_token(users[e])} /\ users[e] # NoId
      BY <2>2 DEF authenticate
    <3>2. create_access_token(users[e]).sub \in Ids
      BY <3>1 DEF create_access_token, Ids
    <3>3. Ids' = Ids
      BY <1>1 DEF Ids
    <3> QED BY <1>1, <3>1, <3>2, <3>3 DEF IInv, IssuedInv
  <2> QED BY <2>1, <2>2
<1> QED
  BY <1>1, <1>2, TokensKept DEF IInv, DownInv

(* A restart forgets the revoked tokens; no logout was in the new run.     *)
LEMMA BootKeeps ==
  ASSUME IInv, Boot
  PROVE  IInv'
<1>1. /\ UNCHANGED <<users, issued, op, revoked, loggedOut>>
      /\ ~up /\ up' = TRUE /\ run' = run + 1
  BY DEF Boot, memory, history
<1>2. RevokedInv'
  <2>1. run \in Nat /\ \A x \in loggedOut : x.run \in 0 .. run
    BY DEF IInv, RevokedInv
  <2>2. run + 1 \in Nat /\ \A x \in loggedOut : x.run \in 0 .. run + 1
    BY <2>1
  <2>3. ASSUME NEW t PROVE [token |-> t, run |-> run + 1] \notin loggedOut
    <3>1. [token |-> t, run |-> run + 1].run \notin 0 .. run
      BY <2>1
    <3> QED BY <2>1, <3>1
  <2>4. revoked = {}
    BY <1>1 DEF IInv, DownInv
  <2> QED BY <1>1, <2>2, <2>3, <2>4 DEF RevokedInv
<1> QED
  BY <1>1, <1>2, AccountsKept DEF IInv, DownInv

(* A server that stops ends its worker threads.                            *)
LEMMA StopKeeps ==
  ASSUME IInv, Stop
  PROVE  IInv'
<1>1. /\ UNCHANGED <<run, users, issued, loggedOut>>
      /\ up' = FALSE /\ revoked' = {}
      /\ op' = [r \in Request |-> Off]
  BY DEF Stop
<1>2. RevokedInv'
  BY <1>1 DEF IInv, RevokedInv
<1>3. DownInv'
  BY <1>1 DEF DownInv
<1> QED
  BY <1>1, <1>2, <1>3, AccountsKept DEF IInv

(* The invariant is inductive: one step for each action.                   *)
LEMMA NextKeeps ==
  ASSUME IInv, [Next]_vars
  PROVE  IInv'
<1> USE DEF memory, history
<1>1. CASE Tick
  BY <1>1, TokensKept, AccountsKept DEF Tick, IInv, DownInv
<1>2. CASE Boot
  BY <1>2, BootKeeps
<1>3. CASE Stop
  BY <1>3, StopKeeps
<1>4. CASE Operate
  <2>1. UNCHANGED <<run, up, users, revoked, op, issued, loggedOut>>
    BY <1>4 DEF Operate
  <2> QED BY <2>1, TokensKept, AccountsKept DEF IInv, DownInv
<1>5. ASSUME NEW r \in Request, NEW id \in Id, Insert(r, id) PROVE IInv'
  BY <1>5, InsertKeeps
<1>6. ASSUME NEW r \in Request, RecordCreated(r) PROVE IInv'
  <2>1. up
    <3>1. op[r].do = "audit"
      BY <1>6 DEF RecordCreated
    <3> QED BY <3>1, WorksWhenUp
  <2>2. UNCHANGED <<run, up, users, revoked, issued, loggedOut>> /\ DOMAIN op' = Request
    BY <1>6 DEF RecordCreated, IInv
  <2> QED BY <2>1, <2>2, TokensKept, AccountsKept DEF IInv, DownInv
<1>7. ASSUME NEW r \in Request, revoke_token(r) PROVE IInv'
  BY <1>7, RevokeKeeps
<1>8. ASSUME NEW r \in Request, NEW e \in Email, create(r, e) PROVE IInv'
  <2>1. /\ UNCHANGED <<run, up, users, revoked, issued, loggedOut>>
        /\ DOMAIN op' = Request /\ up
    BY <1>8 DEF create, IInv
  <2> QED BY <2>1, TokensKept, AccountsKept DEF IInv, DownInv
<1>9. ASSUME NEW r \in Request, NEW t \in issued, logout(r, t) PROVE IInv'
  <2>1. /\ UNCHANGED <<run, up, users, revoked, issued, loggedOut>>
        /\ DOMAIN op' = Request /\ up
    BY <1>9 DEF logout, IInv
  <2> QED BY <2>1, TokensKept, AccountsKept DEF IInv, DownInv
<1>10. ASSUME NEW e \in Email, NEW right \in BOOLEAN, authenticate(e, right) PROVE IInv'
  BY <1>10, LoginKeeps
<1>11. CASE UNCHANGED vars
  BY <1>11, TokensKept, AccountsKept DEF vars, IInv, DownInv
<1> QED
  BY <1>1, <1>2, <1>3, <1>4, <1>5, <1>6, <1>7, <1>8, <1>9, <1>10, <1>11 DEF Next

(* The accounts start in the invariant and stay in it.                     *)
THEOREM TokensInvHolds == Spec => []IInv
<1>1. Init => IInv
  BY DEF Init, IInv, DownInv, IssuedInv, RevokedInv
<1>2. IInv /\ [Next]_vars => IInv'
  BY NextKeeps
<1> QED
  BY <1>1, <1>2, PTL DEF Spec

(* AdmittedUntilLogout: a token is admitted until it expires, the secret   *)
(* changes or a logout with it has ended in this run of the server.        *)
THEOREM AdmittedUntilLogoutHolds == Spec => []AdmittedUntilLogout
<1>1. IInv => AdmittedUntilLogout
  <2> SUFFICES ASSUME IInv, up, NEW t \in issued
               PROVE  get_current_user(t) <=>
                        /\ now < t.exp /\ t.key = key
                        /\ [token |-> t, run |-> run] \notin loggedOut
    BY DEF AdmittedUntilLogout
  <2>1. t.sub \in Ids
    BY DEF IInv, IssuedInv
  <2>2. t \in revoked <=> [token |-> t, run |-> run] \in loggedOut
    BY DEF IInv, RevokedInv
  <2> QED BY <2>1, <2>2 DEF get_current_user, decode_access_token
<1> QED
  BY <1>1, TokensInvHolds, PTL

-----------------------------------------------------------------------------
(* A set of numbers has a least one.                                       *)
LEMMA LeastNumber ==
  ASSUME NEW S \in SUBSET Nat, S # {}
  PROVE  \E m \in S : \A k \in S : m <= k
<1> DEFINE R == OpToRel(<, Nat)
<1>1. IsWellFoundedOn(R, Nat)
  BY NatLessThanWellFounded
<1>2. R = {ss \in Nat \X Nat : ss[1] < ss[2]}
  BY DEF OpToRel
<1> HIDE DEF R
<1>3. PICK m \in S : \A k \in S : <<k, m>> \notin R
  <2> HIDE <1>2
  <2> QED BY <1>1, WFMin
<1>4. \A k \in S : ~(k < m)
  <2> TAKE k \in S
  <2>1. k \in Nat /\ m \in Nat
    OBVIOUS
  <2>2. <<k, m>> \notin {ss \in Nat \X Nat : ss[1] < ss[2]}
    BY <1>2, <1>3
  <2> QED BY <2>1, <2>2
<1> QED
  BY <1>4

(* Induction, about a set of numbers.                                      *)
LEMMA EveryNumber ==
  ASSUME NEW S, 0 \in S, \A n \in Nat : n \in S => n + 1 \in S
  PROVE  \A n \in Nat : n \in S
<1> SUFFICES ASSUME Nat \ S # {} PROVE FALSE
  OBVIOUS
<1>1. PICK m \in Nat \ S : \A k \in Nat \ S : m <= k
  BY LeastNumber
<1>2. m - 1 \in Nat /\ m = (m - 1) + 1 /\ ~(m <= m - 1)
  BY <1>1
<1> QED
  BY <1>1, <1>2

\* One step of the filter, and the list of its results for 0 .. m elements of a sequence.
Step(kept, t, time) == IF time - t < LOCKOUT_WINDOW THEN Append(kept, t) ELSE kept

Filters(F, s, time, m) ==
  F = [n \in 0 .. m |-> IF n = 0 THEN <<>> ELSE Step(F[n - 1], s[n], time)]

(* The results exist, ...                                                  *)
LEMMA FilterExists ==
  ASSUME NEW s, NEW time, NEW m \in Nat
  PROVE  \E F : Filters(F, s, time, m)
<1> DEFINE S == {n \in Nat : \E F : Filters(F, s, time, n)}
<1>1. 0 \in S
  <2> DEFINE F == [n \in 0 .. 0 |-> <<>>]
  <2>1. Filters(F, s, time, 0)
    BY DEF Filters
  <2> QED BY <2>1
<1>2. ASSUME NEW n \in Nat, n \in S PROVE n + 1 \in S
  <2>1. PICK F : Filters(F, s, time, n)
    BY <1>2
  <2> DEFINE G == [k \in 0 .. n + 1 |-> IF k = n + 1 THEN Step(F[n], s[n + 1], time) ELSE F[k]]
  <2>2. ASSUME NEW k \in 0 .. n + 1
        PROVE  G[k] = IF k = 0 THEN <<>> ELSE Step(G[k - 1], s[k], time)
    <3>1. CASE k = 0
      BY <2>1, <3>1 DEF Filters
    <3>2. CASE k \in 1 .. n
      <4>1. k - 1 \in 0 .. n /\ k - 1 # n + 1 /\ k # n + 1 /\ k # 0 /\ k \in 0 .. n
        BY <3>2
      <4>2. G[k] = F[k] /\ G[k - 1] = F[k - 1]
        BY <4>1
      <4>3. F[k] = Step(F[k - 1], s[k], time)
        BY <2>1, <4>1 DEF Filters
      <4> QED BY <4>1, <4>2, <4>3
    <3>3. CASE k = n + 1
      <4>1. n \in 0 .. n + 1 /\ n # n + 1 /\ k # 0 /\ k - 1 = n
        BY <3>3
      <4>2. G[k] = Step(F[n], s[k], time) /\ G[k - 1] = F[n]
        BY <3>3, <4>1
      <4> QED BY <4>1, <4>2
    <3> QED BY <3>1, <3>2, <3>3
  <2>3. G = [k \in 0 .. n + 1 |-> G[k]]
    OBVIOUS
  <2> HIDE DEF G
  <2>4. G = [k \in 0 .. n + 1 |-> IF k = 0 THEN <<>> ELSE Step(G[k - 1], s[k], time)]
    BY <2>2, <2>3
  <2>5. Filters(G, s, time, n + 1)
    BY <2>4 DEF Filters
  <2> QED BY <2>5
<1> HIDE DEF S
<1>3. m \in S
  BY <1>1, <1>2, EveryNumber
<1> QED
  BY <1>3 DEF S

(* ... and depend on the elements only.                                    *)
LEMMA FilterUnique ==
  ASSUME NEW s, NEW r, NEW time, NEW m \in Nat, NEW k \in Nat, NEW F, NEW G,
         Filters(F, s, time, m), Filters(G, r, time, k),
         NEW l \in Nat, l <= m, l <= k, \A n \in 1 .. l : s[n] = r[n]
  PROVE  F[l] = G[l]
<1> DEFINE S == {n \in Nat : n <= l => F[n] = G[n]}
<1>1. 0 \in S
  BY DEF Filters
<1>2. ASSUME NEW n \in Nat, n \in S PROVE n + 1 \in S
  <2>1. SUFFICES ASSUME n + 1 <= l PROVE F[n + 1] = G[n + 1]
    OBVIOUS
  <2>2. n <= l /\ n + 1 \in 1 .. l /\ n + 1 \in 0 .. m /\ n + 1 \in 0 .. k /\ n + 1 # 0
        /\ (n + 1) - 1 = n
    BY <2>1
  <2>3. F[n] = G[n] /\ s[n + 1] = r[n + 1]
    BY <1>2, <2>2
  <2>4. F[n + 1] = Step(F[n], s[n + 1], time) /\ G[n + 1] = Step(G[n], r[n + 1], time)
    BY <2>2 DEF Filters
  <2> QED BY <2>3, <2>4
<1> HIDE DEF S
<1>3. l \in S
  BY <1>1, <1>2, EveryNumber
<1> QED
  BY <1>3 DEF S

(* The attempts within the window are the last of the results.             *)
LEMMA WithinIs ==
  ASSUME NEW A, NEW s \in Seq(A), NEW time
  PROVE  \E F : Filters(F, s, time, Len(s)) /\ Within(s, time) = F[Len(s)]
<1>1. Len(s) \in Nat
  BY LenProperties
<1>2. \E F : Filters(F, s, time, Len(s))
  BY <1>1, FilterExists
<1> DEFINE K == CHOOSE F : Filters(F, s, time, Len(s))
<1>3. Filters(K, s, time, Len(s))
  BY <1>2
<1>4. Within(s, time) = K[Len(s)]
  BY DEF Within, Filters, Step
<1> QED
  BY <1>3, <1>4

(* No attempts: none within the window.                                    *)
LEMMA WithinEmpty ==
  ASSUME NEW time
  PROVE  Within(<<>>, time) = <<>>
<1>1. <<>> \in Seq(Nat) /\ Len(<<>>) = 0
  OBVIOUS
<1>2. PICK F : Filters(F, <<>>, time, 0) /\ Within(<<>>, time) = F[0]
  BY <1>1, WithinIs
<1>3. F[0] = <<>>
  BY <1>2 DEF Filters
<1> QED
  BY <1>2, <1>3

(* One attempt more: it is kept if it is not too old.                      *)
LEMMA WithinAppend ==
  ASSUME NEW A, NEW s \in Seq(A), NEW t \in A, NEW time
  PROVE  Within(Append(s, t), time) = Step(Within(s, time), t, time)
<1> DEFINE r == Append(s, t)
           l == Len(s)
<1>1. /\ r \in Seq(A) /\ Len(r) = l + 1 /\ l \in Nat
      /\ \A i \in 1 .. l : r[i] = s[i]
      /\ r[l + 1] = t
  BY AppendProperties, LenProperties
<1> HIDE DEF r, l
<1>2. PICK F : Filters(F, s, time, l) /\ Within(s, time) = F[l]
  BY WithinIs DEF l
<1>3. PICK G : Filters(G, r, time, l + 1) /\ Within(r, time) = G[l + 1]
  BY <1>1, WithinIs
<1>4. G[l] = F[l]
  <2>1. l + 1 \in Nat /\ l <= l + 1 /\ l <= l
    BY <1>1
  <2>2. \A n \in 1 .. l : s[n] = r[n]
    BY <1>1
  <2>3. Filters(F, s, time, l)
    BY <1>2
  <2>4. Filters(G, r, time, l + 1)
    BY <1>3
  <2>5. l \in Nat
    BY <1>1
  <2> QED BY ONLY <2>1, <2>2, <2>3, <2>4, <2>5, FilterUnique
<1>5. G[l + 1] = Step(G[l], r[l + 1], time)
  <2>1. l + 1 \in 0 .. l + 1 /\ l + 1 # 0 /\ (l + 1) - 1 = l
    BY <1>1
  <2> QED BY <1>3, <2>1 DEF Filters
<1> QED
  BY <1>1, <1>2, <1>3, <1>4, <1>5 DEF r

\* What filtering does: it keeps attempts only, and filtering again later forgets the rest.
Narrows(A, s, time) ==
  /\ Within(s, time) \in Seq(A)
  /\ Len(Within(s, time)) <= Len(s)
  /\ \A later \in Nat : later >= time => Within(Within(s, time), later) = Within(s, later)

(* Attempts once too old stay so.                                          *)
LEMMA WithinNarrows ==
  ASSUME NEW A \in SUBSET Nat, NEW s \in Seq(A), NEW time \in Nat
  PROVE  Narrows(A, s, time)
<1> DEFINE S == {n \in Nat : \A r \in Seq(A) : Len(r) = n => Narrows(A, r, time)}
<1>1. 0 \in S
  <2>1. SUFFICES ASSUME NEW r \in Seq(A), Len(r) = 0 PROVE Narrows(A, r, time)
    OBVIOUS
  <2>2. r = <<>>
    BY <2>1, EmptySeq
  <2>3. <<>> \in Seq(A) /\ Len(<<>>) <= Len(<<>>)
    OBVIOUS
  <2> QED BY <2>2, <2>3, WithinEmpty DEF Narrows
<1>2. ASSUME NEW n \in Nat, n \in S PROVE n + 1 \in S
  <2>1. SUFFICES ASSUME NEW r \in Seq(A), Len(r) = n + 1 PROVE Narrows(A, r, time)
    OBVIOUS
  <2>2. PICK q \in Seq(A), t \in A : r = Append(q, t)
    <3>1. r # <<>>
      BY <2>1
    <3> QED BY <3>1, SequenceEmptyOrAppend
  <2>3. Len(q) = n /\ Len(q) \in Nat /\ Len(r) = Len(q) + 1
    BY <2>1, <2>2, AppendProperties, LenProperties
  <2>4. Narrows(A, q, time)
    BY <1>2, <2>3
  <2> DEFINE w == Within(q, time)
  <2>5. w \in Seq(A) /\ Len(w) <= Len(q) /\ Len(w) \in Nat
    BY <2>4, LenProperties DEF Narrows
  <2>6. Within(r, time) = Step(w, t, time)
    BY <2>2, WithinAppend
  <2>7. \A later \in Nat : later >= time => Within(w, later) = Within(q, later)
    BY <2>4 DEF Narrows
  <2>8. t \in Nat
    OBVIOUS
  <2> HIDE DEF w
  <2>9. CASE time - t < LOCKOUT_WINDOW
    <3>1. Within(r, time) = Append(w, t)
      BY <2>6, <2>9 DEF Step
    <3>2. Append(w, t) \in Seq(A) /\ Len(Append(w, t)) = Len(w) + 1
      BY <2>5, AppendProperties
    <3>3. ASSUME NEW later \in Nat, later >= time
          PROVE  Within(Append(w, t), later) = Within(r, later)
      <4>1. Within(Append(w, t), later) = Step(Within(w, later), t, later)
        BY <2>5, WithinAppend
      <4>2. Within(r, later) = Step(Within(q, later), t, later)
        BY <2>2, WithinAppend
      <4> QED BY <2>7, <3>3, <4>1, <4>2
    <3> QED BY <2>3, <2>5, <3>1, <3>2, <3>3 DEF Narrows
  <2>10. CASE ~(time - t < LOCKOUT_WINDOW)
    <3>1. Within(r, time) = w
      BY <2>6, <2>10 DEF Step
    <3>2. ASSUME NEW later \in Nat, later >= time
          PROVE  Within(w, later) = Within(r, later)
      <4>1. ~(later - t < LOCKOUT_WINDOW)
        BY <2>8, <2>10, <3>2, AccountsAssumption
      <4>2. Within(r, later) = Step(Within(q, later), t, later)
        BY <2>2, WithinAppend
      <4>3. Within(r, later) = Within(q, later)
        BY <4>1, <4>2 DEF Step
      <4> QED BY <2>7, <3>2, <4>3
    <3> QED BY <2>3, <2>5, <3>1, <3>2 DEF Narrows
  <2> QED BY <2>9, <2>10
<1> HIDE DEF S
<1>3. Len(s) \in Nat
  BY LenProperties
<1>4. Len(s) \in S
  BY <1>1, <1>2, <1>3, EveryNumber
<1> QED
  BY <1>4 DEF S
-----------------------------------------------------------------------------
\* Failed logins are counted at most once and not after their time, ...
AttemptsInv ==
  /\ now \in Nat
  /\ attempts \in [Email -> Seq(0 .. now)] /\ failures \in [Email -> Seq(0 .. now)]
  /\ \A e \in Email : Len(attempts[e]) <= MAX_LOGIN_ATTEMPTS

\* ... and forgotten, from now on, only with a success or a restart.
CountedInv ==
  \A e \in Email : \A time \in Nat :
    time >= now => Within(attempts[e], time) = Within(failures[e], time)

LockInv == AttemptsInv /\ CountedInv

(* The next login that is checked keeps the counts.                        *)
LEMMA LoginCounts ==
  ASSUME LockInv, NEW e \in Email, NEW right \in BOOLEAN, authenticate(e, right)
  PROVE  LockInv'
<1> DEFINE valid == Recent(attempts[e])
           T == 0 .. now
<1>0. /\ now \in Nat /\ now' = now /\ T \in SUBSET Nat /\ now \in T
      /\ MAX_LOGIN_ATTEMPTS \in Nat \ {0}
      /\ attempts[e] \in Seq(T) /\ failures[e] \in Seq(T)
      /\ attempts \in [Email -> Seq(T)] /\ failures \in [Email -> Seq(T)]
  BY AccountsAssumption DEF LockInv, AttemptsInv, authenticate
<1>1. /\ valid \in Seq(T) /\ Len(valid) <= Len(attempts[e]) /\ Len(valid) \in Nat
      /\ \A time \in Nat : time >= now => Within(valid, time) = Within(attempts[e], time)
  BY <1>0, WithinNarrows, LenProperties DEF Narrows, Recent
<1>2. Len(valid) <= MAX_LOGIN_ATTEMPTS
  <2>1. Len(attempts[e]) \in Nat /\ Len(attempts[e]) <= MAX_LOGIN_ATTEMPTS
    BY <1>0, LenProperties DEF LockInv, AttemptsInv
  <2> QED BY <1>0, <1>1, <2>1
<1>3. \A time \in Nat : time >= now => Within(attempts[e], time) = Within(failures[e], time)
  BY DEF LockInv, CountedInv
<1> HIDE DEF valid, T
<1>4. ASSUME NEW a \in Seq(T), NEW f \in Seq(T),
             attempts' = [attempts EXCEPT ![e] = a], failures' = [failures EXCEPT ![e] = f],
             Len(a) <= MAX_LOGIN_ATTEMPTS,
             \A time \in Nat : time >= now => Within(a, time) = Within(f, time)
      PROVE  LockInv'
  <2>1. attempts' \in [Email -> Seq(T)] /\ failures' \in [Email -> Seq(T)]
    BY <1>0, <1>4
  <2>2. ASSUME NEW d \in Email
        PROVE  /\ Len(attempts'[d]) <= MAX_LOGIN_ATTEMPTS
               /\ \A time \in Nat : time >= now => Within(attempts'[d], time) = Within(failures'[d], time)
    <3>1. CASE d = e
      <4>1. attempts'[d] = a /\ failures'[d] = f
        BY <1>0, <1>4, <3>1
      <4> QED BY <1>4, <4>1
    <3>2. CASE d # e
      <4>1. attempts'[d] = attempts[d] /\ failures'[d] = failures[d]
        BY <1>0, <1>4, <3>2
      <4> QED BY <4>1 DEF LockInv, AttemptsInv, CountedInv
    <3> QED BY <3>1, <3>2
  <2> QED BY <1>0, <2>1, <2>2 DEF LockInv, AttemptsInv, CountedInv, T
<1>5. failures = [failures EXCEPT ![e] = failures[e]]
  BY <1>0
<1>6. CASE attempts' = [attempts EXCEPT ![e] = valid] /\ failures' = failures
  BY <1>0, <1>1, <1>2, <1>3, <1>4, <1>5, <1>6
<1>7. CASE /\ ~LimitReached(valid)
           /\ attempts' = [attempts EXCEPT ![e] = Append(valid, now)]
           /\ failures' = [failures EXCEPT ![e] = Append(failures[e], now)]
  <2>1. /\ Append(valid, now) \in Seq(T) /\ Append(failures[e], now) \in Seq(T)
        /\ Len(Append(valid, now)) = Len(valid) + 1
    BY <1>0, <1>1, AppendProperties
  <2>2. Len(Append(valid, now)) <= MAX_LOGIN_ATTEMPTS
    BY <1>0, <1>1, <1>7, <2>1 DEF LimitReached
  <2>3. ASSUME NEW time \in Nat, time >= now
        PROVE  Within(Append(valid, now), time) = Within(Append(failures[e], now), time)
    <3>1. Within(Append(valid, now), time) = Step(Within(valid, time), now, time)
      BY <1>0, <1>1, WithinAppend
    <3>2. Within(Append(failures[e], now), time) = Step(Within(failures[e], time), now, time)
      BY <1>0, WithinAppend
    <3> QED BY <1>1, <1>3, <2>3, <3>1, <3>2
  <2> QED BY <1>4, <1>7, <2>1, <2>2, <2>3
<1>8. CASE /\ attempts' = [attempts EXCEPT ![e] = <<>>]
           /\ failures' = [failures EXCEPT ![e] = <<>>]
  <2>1. <<>> \in Seq(T) /\ Len(<<>>) <= MAX_LOGIN_ATTEMPTS
    BY <1>0
  <2> QED BY <1>4, <1>8, <2>1
<1> QED
  BY <1>6, <1>7, <1>8 DEF authenticate, valid

(* The counts hold in every state: what is forgotten on the way is too old *)
(* from then on.                                                           *)
LEMMA LockInvHolds == Spec => []LockInv
<1>1. Init => LockInv
  <2> SUFFICES ASSUME Init PROVE LockInv
    OBVIOUS
  <2>1. <<>> \in Seq(0 .. now) /\ Len(<<>>) = 0 /\ MAX_LOGIN_ATTEMPTS \in Nat
    BY AccountsAssumption
  <2>2. attempts = [e \in Email |-> <<>>] /\ failures = [e \in Email |-> <<>>] /\ now = 0
    BY DEF Init
  <2> QED BY <2>1, <2>2 DEF LockInv, AttemptsInv, CountedInv
<1>2. LockInv /\ [Next]_vars => LockInv'
  <2> SUFFICES ASSUME LockInv, [Next]_vars PROVE LockInv'
    OBVIOUS
  <2>1. ASSUME UNCHANGED <<now, attempts, failures>> PROVE LockInv'
    BY <2>1 DEF LockInv, AttemptsInv, CountedInv
  <2>2. CASE Tick
    <3>1. UNCHANGED <<attempts, failures>> /\ now' = now + 1 /\ now \in Nat
      BY <2>2 DEF Tick, memory, history, LockInv, AttemptsInv
    <3>2. 0 .. now \subseteq 0 .. now' /\ now' \in Nat
      BY <3>1
    <3>3. Seq(0 .. now) \subseteq Seq(0 .. now')
      BY <3>2, SeqMonotonic
    <3>4. attempts \in [Email -> Seq(0 .. now')] /\ failures \in [Email -> Seq(0 .. now')]
      BY <3>3 DEF LockInv, AttemptsInv
    <3>5. \A time \in Nat : time >= now' => time >= now
      BY <3>1
    <3> QED BY <3>1, <3>2, <3>4, <3>5 DEF LockInv, AttemptsInv, CountedInv
  <2>3. CASE Stop
    <3>1. attempts' = [e \in Email |-> <<>>] /\ failures' = [e \in Email |-> <<>>] /\ now' = now
      BY <2>3 DEF Stop
    <3>2. now \in Nat /\ <<>> \in Seq(0 .. now) /\ Len(<<>>) = 0 /\ MAX_LOGIN_ATTEMPTS \in Nat
      BY AccountsAssumption DEF LockInv, AttemptsInv
    <3> QED BY <3>1, <3>2 DEF LockInv, AttemptsInv, CountedInv
  <2>4. ASSUME NEW e \in Email, NEW right \in BOOLEAN, authenticate(e, right) PROVE LockInv'
    BY <2>4, LoginCounts
  <2> QED
    BY <2>1, <2>2, <2>3, <2>4
       DEF Next, vars, memory, history, Boot, Operate, Insert, RecordCreated, revoke_token, create, logout
<1> QED
  BY <1>1, <1>2, PTL DEF Spec

(* LockedByFailuresOnly: an e-mail is locked exactly while as many of its  *)
(* failed logins as allowed lie within the window.                         *)
THEOREM LockedByFailuresOnlyHolds == Spec => []LockedByFailuresOnly
<1>1. LockInv => LockedByFailuresOnly
  <2> SUFFICES ASSUME LockInv, NEW e \in Email
               PROVE  LET recent == Len(Recent(failures[e])) IN
                      /\ recent <= MAX_LOGIN_ATTEMPTS
                      /\ LimitReached(Recent(attempts[e])) <=> recent = MAX_LOGIN_ATTEMPTS
    BY DEF LockedByFailuresOnly
  <2>1. /\ now \in Nat /\ attempts[e] \in Seq(0 .. now) /\ 0 .. now \in SUBSET Nat
        /\ Len(attempts[e]) <= MAX_LOGIN_ATTEMPTS /\ MAX_LOGIN_ATTEMPTS \in Nat
    BY AccountsAssumption DEF LockInv, AttemptsInv
  <2>2. Recent(attempts[e]) = Recent(failures[e])
    BY <2>1 DEF LockInv, CountedInv, Recent
  <2>3. Recent(attempts[e]) \in Seq(0 .. now) /\ Len(Recent(attempts[e])) <= Len(attempts[e])
    BY <2>1, WithinNarrows DEF Recent, Narrows
  <2>4. Len(Recent(attempts[e])) \in Nat /\ Len(attempts[e]) \in Nat
    BY <2>1, <2>3, LenProperties
  <2> QED BY <2>1, <2>2, <2>3, <2>4 DEF LimitReached
<1> QED
  BY <1>1, LockInvHolds, PTL

-----------------------------------------------------------------------------
\* The accounts whose creation some request has yet to record.
Recording == {op[r].id : r \in {q \in Request : op[q].do = "audit"}}

\* Clock, runs and configuration; the server runs only with a secret.
ServerInv ==
  /\ now \in 0 .. MaxTime /\ run \in 0 .. MaxRun /\ up \in BOOLEAN /\ migrated \in BOOLEAN
  /\ key \in Key \cup {NoKey} /\ (up => key # NoKey /\ migrated)

\* E-mails have ids of their own.
IdsInv ==
  /\ users \in [Email -> Id \cup {NoId}]
  /\ \A e, f \in Email : users[e] = users[f] /\ users[e] # NoId => e = f

\* Every account is in the audit log or its request is not over or was cut off.
CreatedInv ==
  /\ \A r \in Request : op[r].do = "insert" => op[r].email \in Email
  /\ Ids = audited \cup cut \cup Recording

\* A token in circulation was signed for an account and expires in time.
SignedInv ==
  \A t \in issued : t.sub \in Ids /\ t.key \in Key /\ t.exp \in Nat /\ t.exp <= now + TOKEN_LIFE

AccountsInv == DOMAIN op = Request /\ ServerInv /\ IdsInv /\ CreatedInv /\ SignedInv

(* A new account has an id of its own.                                     *)
LEMMA NewId ==
  ASSUME IdsInv, NEW e \in Email, users[e] = NoId, NEW id \in Id, id \notin Ids,
         users' = [users EXCEPT ![e] = id]
  PROVE  IdsInv' /\ Ids' = Ids \cup {id}
<1>1. id # NoId
  BY AccountsAssumption
<1>2. users \in [Email -> Id \cup {NoId}]
  BY DEF IdsInv
<1>3. users' \in [Email -> Id \cup {NoId}]
  BY <1>2
<1>4. users'[e] = id /\ \A f \in Email : f # e => users'[f] = users[f]
  BY <1>2
<1>5. Ids' = Ids \cup {id}
  <2>1. ASSUME NEW i \in Ids' PROVE i \in Ids \cup {id}
    <3>1. PICK f \in Email : i = users'[f] /\ i # NoId
      BY DEF Ids
    <3> QED BY <1>4, <3>1 DEF Ids
  <2>2. ASSUME NEW i \in Ids PROVE i \in Ids'
    <3>1. PICK f \in Email : i = users[f] /\ i # NoId
      BY DEF Ids
    <3>2. f # e
      BY <3>1
    <3> QED BY <1>4, <3>1, <3>2 DEF Ids
  <2>3. id \in Ids'
    BY <1>1, <1>4 DEF Ids
  <2> QED BY <2>1, <2>2, <2>3
<1>6. ASSUME NEW f \in Email, NEW g \in Email, users'[f] = users'[g], users'[f] # NoId
      PROVE  f = g
  <2>1. \A h \in Email : h # e => users'[h] # id
    BY <1>1, <1>4 DEF Ids
  <2>2. CASE f = e
    BY <1>4, <1>6, <2>1, <2>2
  <2>3. CASE f # e
    <3>1. g # e
      BY <1>4, <1>6, <2>1, <2>3
    <3> QED BY <1>4, <1>6, <2>3, <3>1 DEF IdsInv
  <2> QED BY <2>2, <2>3
<1> QED
  BY <1>3, <1>5, <1>6 DEF IdsInv

(* The server's state: no step of a request changes it.                    *)
LEMMA ServerKept ==
  ASSUME AccountsInv, [Next]_vars
  PROVE  ServerInv'
<1> USE DEF ServerInv
<1>0. ServerInv /\ MaxTime \in Nat /\ MaxRun \in Nat
  BY AccountsAssumption DEF AccountsInv
<1>1. CASE Tick
  BY <1>0, <1>1 DEF Tick
<1>2. CASE Boot
  BY <1>0, <1>2 DEF Boot
<1>3. CASE Stop
  BY <1>0, <1>3 DEF Stop
<1>4. CASE Operate
  BY <1>0, <1>4 DEF Operate
<1>5. CASE UNCHANGED <<now, run, up, key, migrated>>
  BY <1>0, <1>5
<1> QED
  BY <1>1, <1>2, <1>3, <1>4, <1>5
     DEF Next, vars, Insert, RecordCreated, revoke_token, create, logout, authenticate

(* What requests do to the accounts whose creation is to be recorded.      *)
LEMMA OpMoves ==
  ASSUME DOMAIN op = Request, NEW r \in Request, NEW o, op' = [op EXCEPT ![r] = o]
  PROVE  /\ op[r].do # "audit" /\ o.do # "audit" => Recording' = Recording
         /\ op[r].do # "audit" /\ o.do = "audit" => Recording' = Recording \cup {o.id}
         /\ op[r].do = "audit" /\ o.do # "audit" => Recording' \cup {op[r].id} = Recording
<1>1. op'[r] = o /\ \A q \in Request : q # r => op'[q] = op[q]
  OBVIOUS
<1>2. ASSUME NEW x, x # o.id PROVE x \in Recording' => x \in Recording
  BY <1>1, <1>2 DEF Recording
<1>3. ASSUME NEW x, x # op[r].id PROVE x \in Recording => x \in Recording'
  BY <1>1, <1>3 DEF Recording
<1>4. CASE op[r].do # "audit" /\ o.do # "audit"
  <2>1. \A x : x \in Recording' <=> x \in Recording
    BY <1>1, <1>4 DEF Recording
  <2> QED BY <1>4, <2>1
<1>5. CASE op[r].do # "audit" /\ o.do = "audit"
  <2>1. \A x : x \in Recording' <=> x \in Recording \/ x = o.id
    BY <1>1, <1>5 DEF Recording
  <2> QED BY <1>5, <2>1
<1>6. CASE op[r].do = "audit" /\ o.do # "audit"
  <2>1. \A x : x \in Recording <=> x \in Recording' \/ x = op[r].id
    BY <1>1, <1>6 DEF Recording
  <2> QED BY <1>6, <2>1
<1> QED
  BY <1>4, <1>5, <1>6

(* Accounts and their records: each id is recorded, or will be, or cannot. *)
LEMMA CreatedKept ==
  ASSUME AccountsInv, [Next]_vars
  PROVE  (IdsInv /\ CreatedInv)' /\ Ids \subseteq Ids'
<1>0. IdsInv /\ CreatedInv /\ DOMAIN op = Request
  BY DEF AccountsInv
<1>1. ASSUME UNCHANGED users PROVE IdsInv' /\ Ids' = Ids
  BY <1>0, <1>1 DEF IdsInv, Ids
<1>2. CASE UNCHANGED <<users, audited, cut, op>>
  <2>1. Recording' = Recording
    BY <1>2 DEF Recording
  <2> QED BY <1>0, <1>1, <1>2, <2>1 DEF CreatedInv
<1>3. CASE Stop
  <2>1. /\ UNCHANGED <<users, audited>> /\ cut' = cut \cup Recording
        /\ op' = [r \in Request |-> Off]
    BY <1>3 DEF Stop, Recording
  <2>2. \A r \in Request : op'[r].do = "off"
    BY <2>1 DEF Off
  <2>3. Recording' = {}
    BY <2>2 DEF Recording
  <2> QED BY <1>0, <1>1, <2>1, <2>2, <2>3 DEF CreatedInv
<1>4. ASSUME NEW r \in Request, NEW o, op' = [op EXCEPT ![r] = o],
             o.do = "insert" => o.email \in Email
      PROVE  \A q \in Request : op'[q].do = "insert" => op'[q].email \in Email
  BY <1>0, <1>4 DEF CreatedInv
<1>5. ASSUME NEW r \in Request, NEW o, op' = [op EXCEPT ![r] = o],
             o.do = "insert" => o.email \in Email, o.do # "audit", op[r].do # "audit",
             UNCHANGED <<users, audited, cut>>
      PROVE  (IdsInv /\ CreatedInv)' /\ Ids \subseteq Ids'
  <2>1. Recording' = Recording
    BY <1>0, <1>5, OpMoves
  <2> QED BY <1>0, <1>1, <1>4, <1>5, <2>1 DEF CreatedInv
<1>6. Off.do = "off"
  BY DEF Off
<1>7. ASSUME NEW r \in Request, NEW id \in Id, Insert(r, id)
      PROVE  (IdsInv /\ CreatedInv)' /\ Ids \subseteq Ids'
  <2> DEFINE o == [do |-> "audit", id |-> id]
  <2>1. CASE op' = [op EXCEPT ![r] = Off] /\ UNCHANGED users
    BY <1>5, <1>6, <1>7, <2>1 DEF Insert, history
  <2>2. CASE /\ users[op[r].email] = NoId
             /\ users' = [users EXCEPT ![op[r].email] = id]
             /\ op' = [op EXCEPT ![r] = o]
    <3>1. op[r].email \in Email /\ op[r].do = "insert" /\ id \notin Ids /\ UNCHANGED <<audited, cut>>
      BY <1>0, <1>7 DEF Insert, CreatedInv, history
    <3>2. IdsInv' /\ Ids' = Ids \cup {id}
      BY <1>0, <2>2, <3>1, NewId
    <3>3. o.do = "audit" /\ o.id = id
      OBVIOUS
    <3> HIDE DEF o
    <3>4. Recording' = Recording \cup {id}
      BY <1>0, <2>2, <3>1, <3>3, OpMoves
    <3>5. \A q \in Request : op'[q].do = "insert" => op'[q].email \in Email
      BY <1>4, <2>2, <3>3
    <3> QED BY <1>0, <3>1, <3>2, <3>4, <3>5 DEF CreatedInv
  <2> QED BY <1>7, <2>1, <2>2 DEF Insert
<1>8. ASSUME NEW r \in Request, RecordCreated(r)
      PROVE  (IdsInv /\ CreatedInv)' /\ Ids \subseteq Ids'
  <2>1. /\ op[r].do = "audit" /\ op' = [op EXCEPT ![r] = Off]
        /\ audited' = audited \cup {op[r].id} /\ UNCHANGED <<users, cut>>
    BY <1>8 DEF RecordCreated, history
  <2>2. Recording' \cup {op[r].id} = Recording
    BY <1>0, <1>6, <2>1, OpMoves
  <2>3. \A q \in Request : op'[q].do = "insert" => op'[q].email \in Email
    BY <1>4, <1>6, <2>1
  <2>4. audited' \cup cut' \cup Recording' = audited \cup cut \cup Recording
    BY <2>1, <2>2
  <2> QED BY <1>0, <1>1, <2>1, <2>3, <2>4 DEF CreatedInv
<1>9. ASSUME NEW r \in Request, revoke_token(r)
      PROVE  (IdsInv /\ CreatedInv)' /\ Ids \subseteq Ids'
  <2>1. /\ op[r].do = "revoke" /\ op' = [op EXCEPT ![r] = Off]
        /\ UNCHANGED <<users, audited, cut>>
    BY <1>9 DEF revoke_token
  <2> QED BY <1>5, <1>6, <2>1
<1>10. ASSUME NEW r \in Request, NEW e \in Email, create(r, e)
       PROVE  (IdsInv /\ CreatedInv)' /\ Ids \subseteq Ids'
  <2> DEFINE o == [do |-> "insert", email |-> e]
  <2>1. /\ op[r].do = "off" /\ op' = [op EXCEPT ![r] = o]
        /\ UNCHANGED <<users, audited, cut>>
    BY <1>6, <1>10 DEF create, history
  <2>2. o.do = "insert" /\ o.email = e
    OBVIOUS
  <2> HIDE DEF o
  <2> QED BY <1>5, <2>1, <2>2
<1>11. ASSUME NEW r \in Request, NEW t \in issued, logout(r, t)
       PROVE  (IdsInv /\ CreatedInv)' /\ Ids \subseteq Ids'
  <2> DEFINE o == [do |-> "revoke", token |-> t]
  <2>1. /\ op[r].do = "off" /\ op' = [op EXCEPT ![r] = o]
        /\ UNCHANGED <<users, audited, cut>>
    BY <1>6, <1>11 DEF logout, history
  <2>2. o.do = "revoke"
    OBVIOUS
  <2> HIDE DEF o
  <2> QED BY <1>5, <2>1, <2>2
<1> QED
  BY <1>2, <1>3, <1>7, <1>8, <1>9, <1>10, <1>11
     DEF Next, vars, memory, history, Tick, Boot, Operate, authenticate

(* Tokens stay signed for accounts.                                        *)
LEMMA SignedKept ==
  ASSUME AccountsInv, [Next]_vars
  PROVE  SignedInv'
<1>0. /\ Ids \subseteq Ids' /\ now \in Nat /\ now' \in Nat /\ now' >= now /\ TOKEN_LIFE \in Nat
      /\ SignedInv
  <2>1. now' \in {now, now + 1} /\ now \in Nat
    BY DEF Next, vars, Tick, Boot, Stop, Operate, Insert, RecordCreated, revoke_token, create,
           logout, authenticate, AccountsInv, ServerInv
  <2>2. Ids \subseteq Ids'
    BY CreatedKept
  <2> QED BY <2>1, <2>2, AccountsAssumption DEF AccountsInv
<1>1. CASE issued' = issued
  BY <1>0, <1>1 DEF SignedInv
<1>2. ASSUME NEW e \in Email, NEW right \in BOOLEAN, authenticate(e, right), issued' # issued
      PROVE  SignedInv'
  <2> DEFINE t == create_access_token(users[e])
  <2>1. up /\ users[e] # NoId /\ issued' = issued \cup {t} /\ now' = now
    BY <1>2 DEF authenticate
  <2>2. users[e] \in Ids /\ key \in Key
    BY <2>1 DEF Ids, AccountsInv, ServerInv
  <2>3. t.sub = users[e] /\ t.key = key /\ t.exp = now + TOKEN_LIFE
    BY DEF create_access_token
  <2> HIDE DEF t
  <2> QED BY <1>0, <2>1, <2>2, <2>3 DEF SignedInv
<1> QED
  BY <1>1, <1>2
     DEF Next, vars, history, Tick, Boot, Stop, Operate, Insert, RecordCreated, revoke_token,
         create, logout

(* TypeOK: an id names one account, whose creation is in the audit log     *)
(* unless its request is not over or was cut off by a restart.             *)
THEOREM TypeCorrect == Spec => []TypeOK
<1>1. Init => AccountsInv
  <2> SUFFICES ASSUME Init PROVE AccountsInv
    OBVIOUS
  <2>0. 0 \in 0 .. MaxTime /\ 0 \in 0 .. MaxRun
    BY AccountsAssumption
  <2>1. Ids = {} /\ users \in [Email -> Id \cup {NoId}] /\ \A e \in Email : users[e] = NoId
    BY DEF Init, Ids
  <2>3. \A r \in Request : op[r].do = "off"
    BY DEF Init, Off
  <2>4. Recording = {}
    BY <2>3 DEF Recording
  <2> QED BY <2>0, <2>1, <2>3, <2>4
          DEF Init, AccountsInv, ServerInv, IdsInv, CreatedInv, SignedInv
<1>2. AccountsInv /\ [Next]_vars => AccountsInv'
  <2> SUFFICES ASSUME AccountsInv, [Next]_vars PROVE AccountsInv'
    OBVIOUS
  <2>1. DOMAIN op' = Request
    BY DEF AccountsInv, Next, vars, memory, history, Tick, Boot, Stop, Operate, Insert,
           RecordCreated, revoke_token, create, logout, authenticate
  <2> QED BY <2>1, ServerKept, CreatedKept, SignedKept DEF AccountsInv
<1>3. AccountsInv /\ LockInv => TypeOK
  <2> SUFFICES ASSUME AccountsInv, LockInv PROVE TypeOK
    OBVIOUS
  <2>1. Ids \subseteq Id
    BY DEF AccountsInv, IdsInv, Ids
  <2> QED BY <2>1 DEF AccountsInv, LockInv, ServerInv, IdsInv, CreatedInv, SignedInv, AttemptsInv,
         Recording, TypeOK
<1> QED
  BY <1>1, <1>2, <1>3, LockInvHolds, PTL DEF Spec
=============================================================================
