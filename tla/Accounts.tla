------------------------------- MODULE Accounts -------------------------------
(***************************************************************************)
(* Accounts, logins, tokens and logouts over restarts of the server        *)
(* (app/core/auth.py, app/services/user_service.py, app/api/users.py,      *)
(* app/main.py).                                                           *)
(*                                                                         *)
(* Login runs in the event loop and is a single step; registration and     *)
(* logout run in worker threads, one step per statement that reads or      *)
(* writes shared state.  Failed logins and revoked tokens are kept in      *)
(* memory, accounts and audit records in the database.  A password is      *)
(* right or wrong; a token is what is signed, the key it is signed with.   *)
(* Time counts in seconds; only "exp" of a token is rounded, down.         *)
(***************************************************************************)
EXTENDS Naturals, Sequences, FiniteSets

CONSTANTS
  Request,                 \* worker threads
  Email,
  Id, NoId,                \* ids of accounts, which are compared only
  Key,                     \* values of JWT_SECRET
  NoKey,                   \* ... when it is not set
  MAX_LOGIN_ATTEMPTS,
  LOCKOUT_WINDOW,
  TOKEN_LIFE,              \* ACCESS_TOKEN_EXPIRE_MINUTES
  MaxTime, MaxRun, MaxLogins  \* bounds on the clock, on server runs and logins

ASSUME AccountsAssumption ==
  /\ MAX_LOGIN_ATTEMPTS \in Nat \ {0} /\ LOCKOUT_WINDOW \in Nat \ {0}
  /\ TOKEN_LIFE \in Nat \ {0}
  /\ {MaxTime, MaxRun, MaxLogins} \subseteq Nat
  /\ NoKey \notin Key /\ NoId \notin Id

VARIABLES
  now, run, up,            \* the clock; which run of the server this is, is it up?
  key, migrated,           \* the configured secret; is the database at the head revision?
  users,                   \* e-mail -> id of its account, NoId if none
  audited,                 \* accounts whose creation is in the audit log
  attempts, revoked,       \* _LOGIN_ATTEMPTS, _REVOKED_TOKENS
  op,                      \* what each worker thread is about to do
  issued,                  \* tokens handed out
  failures,                \* history: failed logins since the last success or restart
  cut, loggedOut           \* history: accounts whose request a restart cut off;
                           \* tokens and the run in which their logout ended

memory  == <<attempts, revoked>>
history == <<failures, cut, loggedOut>>
vars == <<now, run, up, key, migrated, users, audited, memory, op, issued, history>>

Off == [do |-> "off"]
Ids == {users[e] : e \in Email} \ {NoId}

Init ==
  /\ now = 0 /\ run = 0 /\ up = FALSE
  /\ key \in Key \cup {NoKey} /\ migrated \in BOOLEAN
  /\ users = [e \in Email |-> NoId] /\ audited = {}
  /\ attempts = [e \in Email |-> <<>>] /\ revoked = {}
  /\ op = [r \in Request |-> Off]
  /\ issued = {}
  /\ failures = [e \in Email |-> <<>>] /\ cut = {} /\ loggedOut = {}

Tick ==
  /\ now < MaxTime /\ now' = now + 1
  /\ UNCHANGED <<run, up, key, migrated, users, audited, memory, op, issued, history>>

-----------------------------------------------------------------------------
(* The server's life: it does not boot without a secret or on a database   *)
(* that is not at the head revision.                                       *)
Boot ==
  /\ ~up /\ run < MaxRun
  /\ key # NoKey /\ migrated
  /\ up' = TRUE /\ run' = run + 1
  /\ UNCHANGED <<now, key, migrated, users, audited, memory, op, issued, history>>

Stop ==
  /\ up /\ up' = FALSE
  /\ attempts' = [e \in Email |-> <<>>] /\ revoked' = {}
  /\ op' = [r \in Request |-> Off]
  /\ failures' = [e \in Email |-> <<>>]
  /\ cut' = cut \cup {op[r].id : r \in {q \in Request : op[q].do = "audit"}}
  /\ UNCHANGED <<now, run, key, migrated, users, audited, issued, loggedOut>>

\* Between two runs the operator sets the secret or migrates the database.
Operate ==
  /\ ~up
  /\ \/ key' \in Key \cup {NoKey} /\ UNCHANGED migrated
     \/ migrated' = TRUE /\ UNCHANGED key
  /\ UNCHANGED <<now, run, up, users, audited, memory, op, issued, history>>

-----------------------------------------------------------------------------
(* Registration.                                                           *)
create(r, e) ==
  /\ up /\ op[r] = Off /\ users[e] = NoId
  /\ op' = [op EXCEPT ![r] = [do |-> "insert", email |-> e]]
  /\ UNCHANGED <<now, run, up, key, migrated, users, audited, memory, issued, history>>

\* Mutant: the index on the e-mail is not unique.
InsertAnyway(r, id) ==
  /\ op[r].do = "insert" /\ id \notin Ids
  /\ users' = [users EXCEPT ![op[r].email] = id]
  /\ op' = [op EXCEPT ![r] = [do |-> "audit", id |-> id]]
  /\ UNCHANGED <<now, run, up, key, migrated, audited, memory, issued, history>>

\* The database draws an id that no account has: not the next one, since on PostgreSQL
\* that of an insert refused or cut off is lost, and inserts commit in any order.  The
\* unique index refuses an e-mail that was registered in between.
Insert(r, id) ==
  /\ op[r].do = "insert" /\ id \notin Ids
  /\ LET e == op[r].email IN
     IF users[e] # NoId
     THEN op' = [op EXCEPT ![r] = Off] /\ UNCHANGED users
     ELSE /\ users' = [users EXCEPT ![e] = id]
          /\ op' = [op EXCEPT ![r] = [do |-> "audit", id |-> id]]
  /\ UNCHANGED <<now, run, up, key, migrated, audited, memory, issued, history>>

RecordCreated(r) ==
  /\ op[r].do = "audit"
  /\ audited' = audited \cup {op[r].id}
  /\ op' = [op EXCEPT ![r] = Off]
  /\ UNCHANGED <<now, run, up, key, migrated, users, memory, issued, history>>

-----------------------------------------------------------------------------
(* Login.                                                                  *)
\* The attempts that are not older than the window at that time.
Within(times, time) ==
  LET kept[n \in 0 .. Len(times)] ==
        IF n = 0 THEN <<>>
        ELSE IF time - times[n] < LOCKOUT_WINDOW THEN Append(kept[n - 1], times[n])
             ELSE kept[n - 1]
  IN kept[Len(times)]

Recent(times) == Within(times, now)

\* Mutant: one attempt more.
LimitExceeded(times) == Len(times) > MAX_LOGIN_ATTEMPTS

LimitReached(times) == Len(times) >= MAX_LOGIN_ATTEMPTS

create_access_token(id) == [sub |-> id, exp |-> now + TOKEN_LIFE, key |-> key]

authenticate(e, right) ==
  LET valid == Recent(attempts[e]) IN
  /\ up /\ (right => users[e] # NoId)
  /\ \/ /\ LimitReached(valid)
        /\ attempts' = [attempts EXCEPT ![e] = valid]
        /\ UNCHANGED <<failures, issued>>
     \/ /\ ~LimitReached(valid) /\ ~right
        /\ attempts' = [attempts EXCEPT ![e] = Append(valid, now)]
        /\ failures' = [failures EXCEPT ![e] = Append(@, now)]
        /\ UNCHANGED issued
     \/ /\ ~LimitReached(valid) /\ right
        /\ Cardinality(issued) < MaxLogins
        /\ attempts' = [attempts EXCEPT ![e] = <<>>]
        /\ failures' = [failures EXCEPT ![e] = <<>>]
        /\ issued' = issued \cup {create_access_token(users[e])}
  /\ UNCHANGED <<now, run, up, key, migrated, users, audited, revoked, op, cut, loggedOut>>

-----------------------------------------------------------------------------
(* Requests with a token.                                                  *)
decode_access_token(t) == t.key = key /\ now < t.exp
get_current_user(t) == t \notin revoked /\ decode_access_token(t) /\ t.sub \in Ids

logout(r, t) ==
  /\ up /\ op[r] = Off /\ get_current_user(t)
  /\ op' = [op EXCEPT ![r] = [do |-> "revoke", token |-> t]]
  /\ UNCHANGED <<now, run, up, key, migrated, users, audited, memory, issued, history>>

\* Mutant: only the last revoked token is remembered.
RevokeLastOnly(r) ==
  /\ op[r].do = "revoke"
  /\ revoked' = {op[r].token}
  /\ loggedOut' = loggedOut \cup {[token |-> op[r].token, run |-> run]}
  /\ op' = [op EXCEPT ![r] = Off]
  /\ UNCHANGED <<now, run, up, key, migrated, users, audited, attempts, issued, failures, cut>>

revoke_token(r) ==
  /\ op[r].do = "revoke"
  /\ revoked' = revoked \cup {op[r].token}
  /\ loggedOut' = loggedOut \cup {[token |-> op[r].token, run |-> run]}
  /\ op' = [op EXCEPT ![r] = Off]
  /\ UNCHANGED <<now, run, up, key, migrated, users, audited, attempts, issued, failures, cut>>

Next ==
  \/ Tick \/ Boot \/ Stop \/ Operate
  \/ \E r \in Request :
       \/ RecordCreated(r) \/ revoke_token(r)
       \/ \E id \in Id : Insert(r, id)
       \/ \E e \in Email : create(r, e)
       \/ \E t \in issued : logout(r, t)
  \/ \E e \in Email, right \in BOOLEAN : authenticate(e, right)

Spec == Init /\ [][Next]_vars

-----------------------------------------------------------------------------
(* Types; an id names one account, whose creation is in the audit log,     *)
(* unless its request is not over or was cut off.                          *)
TypeOK ==
  /\ now \in 0 .. MaxTime /\ run \in 0 .. MaxRun /\ {up, migrated} \subseteq BOOLEAN
  /\ up => key # NoKey /\ migrated
  /\ \A e, f \in Email : users[e] = users[f] /\ users[e] # NoId => e = f
  /\ Ids \subseteq Id
  /\ \A e \in Email : attempts[e] \in Seq(0 .. now)
  /\ \A t \in issued : t.sub \in Ids /\ t.key \in Key /\ t.exp <= now + TOKEN_LIFE
  /\ Ids = audited \cup cut \cup {op[r].id : r \in {q \in Request : op[q].do = "audit"}}

(* A login is refused for too many failures exactly while as many as       *)
(* allowed were checked within the window since the last success, and no   *)
(* window holds more: refused attempts neither count nor prolong it.       *)
LockedByFailuresOnly ==
  \A e \in Email :
    LET recent == Len(Recent(failures[e])) IN
    /\ recent <= MAX_LOGIN_ATTEMPTS
    /\ LimitReached(Recent(attempts[e])) <=> recent = MAX_LOGIN_ATTEMPTS

(* While the server runs, a token it has issued is admitted exactly until  *)
(* it expires, the secret changes or a logout with it has ended in this    *)
(* run: one logout ends every session with the same token, a restart       *)
(* brings back the tokens that were logged out.                            *)
AdmittedUntilLogout ==
  up => \A t \in issued :
          get_current_user(t) <=>
            now < t.exp /\ t.key = key /\ [token |-> t, run |-> run] \notin loggedOut
=============================================================================
