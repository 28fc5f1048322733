------------------------------ MODULE Accounts ------------------------------
(***************************************************************************)
(* Accounts and the credentials that act for them: registration and roles, *)
(* sessions, API keys with their door scopes, passwords, and what replaces *)
(* them all: the factory reset and the import of a backup.  api/auth.py,   *)
(* api/users.py, api/admin.py, api/backup_api.py, backup.py, auth/user.py, *)
(* auth/apikey.py and auth/doors.py, in the posture with authentication.   *)
(*                                                                         *)
(* Rows are in the database and survive a restart; sessions are a          *)
(* dictionary of the process and do not.  Handlers run in a thread pool    *)
(* and hash passwords for long enough to be overtaken, so what a handler   *)
(* reads and what it writes are separate steps.  A row that a handler has  *)
(* loaded stays as it was loaded: only the UPDATE finds that it is gone.   *)
(***************************************************************************)
EXTENDS Naturals, FiniteSets, Sequences, SequencesExt

CONSTANTS
  Users, Keys, Sessions,  \* ids; bound: what needs a fresh one waits for none
  Workers, None,
  Emails, Passwords,
  Roles,        \* that an administrator gives
  Doors,        \* doors.py DOORS
  Scopes,       \* scope lists that clients ask for or that old keys have
  MaxRequests,  \* bound: requests that clients send
  MaxRestarts   \* bound: restarts of the process

ASSUME NoneAssumption ==
  None \notin Users \cup Keys \cup Sessions \cup Emails \cup Passwords \cup Roles
ASSUME RolesAssumption == {"user", "admin"} \subseteq Roles
ASSUME DoorsAssumption == {"read", "admin"} \subseteq Doors
ASSUME BoundsAssumption == MaxRequests \in Nat /\ MaxRestarts \in Nat

VARIABLES
  user,      \* users
  key,       \* api_keys
  made,      \* api_keys by created_at
  session,   \* _sessions: whose each session is
  issued,    \* session ids that were drawn
  astray,    \* history: sessions of logins that a reset or an import overtook, or
             \* whose account an import took away
  files,     \* backups that were downloaded
  open,      \* LOOBRIC_OPEN_REGISTRATION
  request,   \* what each worker's handler holds between two steps
  told,      \* history: which id each new key was announced under
  sent,      \* how many requests were sent
  restarts   \* how often the process restarted

vars == <<user, key, made, session, issued, astray, files, open, request, told, sent, restarts>>

\* founder, stray: history; it was created by a request that had found no account,
\* by a request that a reset or an import overtook.  A key that came from a backup
\* without its owner is stray as well.
User == [state : {"unborn", "live", "gone"}, email : Emails \cup {None},
         password : Passwords \cup {None}, admin : BOOLEAN, role : Roles \cup {None},
         founder : BOOLEAN, stray : BOOLEAN]
Key == [state : {"unborn", "active", "revoked", "gone"}, owner : Users \cup {None},
        scopes : Scopes \cup {{}}, expired : BOOLEAN, stray : BOOLEAN]

UnbornUser == [state |-> "unborn", email |-> None, password |-> None, admin |-> FALSE,
               role |-> None, founder |-> FALSE, stray |-> FALSE]
UnbornKey == [state |-> "unborn", owner |-> None, scopes |-> {}, expired |-> FALSE,
              stray |-> FALSE]

\* The rows of users and of api_keys in a backup; those it has not are unborn in it.
Backup == [user : [Users -> User], key : [Keys -> Key]]
NoBackup == [user |-> [u \in Users |-> UnbornUser], key |-> [k \in Keys |-> UnbornKey]]

Request == [stage    : {"idle", "count", "insert", "role", "session", "key", "answer",
                        "revoke", "purge", "password", "wipe", "clear",
                        "users", "keys", "restore"},
            user     : Users \cup {None},    \* the caller, or the account it makes
            channel  : {"none", "session", "api-key"},
            email    : Emails \cup {None},
            password : Passwords \cup {None},  \* to be stored
            proof    : Passwords \cup {None},  \* the current one, as typed
            role     : Roles \cup {None},
            first    : BOOLEAN,              \* register's is_first_user
            admin    : BOOLEAN,              \* create_user's is_admin
            scopes   : Scopes \cup {{}},
            key      : Keys \cup {None},
            file     : Backup,               \* the export so far, the upload
            late     : BOOLEAN,  \* history: a reset or an import has overtaken it
            quiet    : BOOLEAN]  \* history: nor has another key been made or purged, or
                                 \* a password stored, meanwhile

Idle == [stage |-> "idle", user |-> None, channel |-> "none", email |-> None,
         password |-> None, proof |-> None, role |-> None, first |-> FALSE,
         admin |-> FALSE, scopes |-> {}, key |-> None, file |-> NoBackup, late |-> FALSE, quiet |-> FALSE]

Announcement == [key : Keys, as : Keys, quiet : BOOLEAN]

TypeOK ==
  /\ user \in [Users -> User] /\ key \in [Keys -> Key]
  /\ \A u \in Users : user[u].state = "live" =>   \* columns that are not nullable
       user[u].email # None /\ user[u].password # None /\ user[u].role # None
  /\ made \in Seq(Keys) /\ IsInjective(made)
  /\ session \in [Sessions -> Users \cup {None}] /\ issued \subseteq Sessions
  /\ astray \subseteq Sessions /\ \A f \in files : f \in Backup
  /\ open \in BOOLEAN
  /\ request \in [Workers -> Request]
  /\ told \subseteq Announcement
  /\ sent \in 0..MaxRequests /\ restarts \in 0..MaxRestarts

-----------------------------------------------------------------------------
(* Reading.                                                                *)

Live(u) == u # None /\ user[u].state = "live"
Accounts == {u \in Users : Live(u)}
Stored == {k \in Keys : key[k].state \in {"active", "revoked"}}
HasEmail(e) == {u \in Accounts : user[u].email = e}

\* get_session_user and validate_api_key
SessionUser(s) == IF s # None /\ Live(session[s]) THEN session[s] ELSE None
Validates(k) == key[k].state = "active" /\ ~key[k].expired /\ Live(key[k].owner)

\* require_auth: the cookie first, then the Bearer header.
Credentials == [cookie : Sessions \cup {None}, bearer : Keys \cup {None}]
Caller(c) ==
  IF SessionUser(c.cookie) # None
    THEN [user |-> SessionUser(c.cookie), channel |-> "session", scopes |-> {}]
  ELSE IF c.bearer # None /\ Validates(c.bearer)
    THEN [user |-> key[c.bearer].owner, channel |-> "api-key",
          scopes |-> key[c.bearer].scopes]
  ELSE [user |-> None, channel |-> "none", scopes |-> {}]

\* A key from before the door scopes is read-only.
EffectiveDoors(scopes) ==
  IF scopes # {} /\ scopes \subseteq Doors THEN scopes ELSE {"read"}
PassesDoor(who, door) ==
  who.user # None /\ (who.channel = "api-key" => door \in EffectiveDoors(who.scopes))
\* Mutant of SessionOnly: any credential manages credentials.
AnyChannel(who) == who.user # None
SessionOnly(who) == who.channel = "session"
IsAdmin(who) == who.user # None /\ user[who.user].admin

At(w, stage) == request[w].stage = stage
Start(w, r) ==
  /\ At(w, "idle") /\ sent < MaxRequests
  /\ request' = [request EXCEPT ![w] = r] /\ sent' = sent + 1
  /\ UNCHANGED restarts
Continue(w, r) == request' = [request EXCEPT ![w] = r] /\ UNCHANGED <<sent, restarts>>

\* What is deleted is gone for good, unless a backup brings it back: as whose it was.
GoneUsers(rows) ==
  [u \in Users |-> IF rows[u].state = "live"
     THEN [UnbornUser EXCEPT !.state = "gone", !.founder = rows[u].founder] ELSE rows[u]]
GoneKey(row) == [UnbornKey EXCEPT !.state = "gone", !.owner = row.owner, !.expired = row.expired]
GoneKeys(rows) ==
  [k \in Keys |-> IF rows[k].state \in {"active", "revoked"} THEN GoneKey(rows[k]) ELSE rows[k]]

\* A server from before the doors: its administrator, and a key without door scopes.
OldServer(u, k, e, p, s) ==
  [user |-> [NoBackup.user EXCEPT ![u] =
     [state |-> "live", email |-> e, password |-> p, admin |-> TRUE, role |-> "admin",
      founder |-> TRUE, stray |-> FALSE]],
   key |-> [NoBackup.key EXCEPT ![k] =
     [UnbornKey EXCEPT !.state = "active", !.owner = u, !.scopes = s]]]

\* A new server, one that was upgraded, or a new one with the backup of an old one.
Init ==
  /\ \/ user = NoBackup.user /\ key = NoBackup.key /\ made = <<>> /\ files = {}
     \/ \E u \in Users, k \in Keys, e \in Emails, p \in Passwords, s \in Scopes :
          LET old == OldServer(u, k, e, p, s) IN
          /\ ~(s \subseteq Doors) /\ made = <<k>>
          /\ \/ user = old.user /\ key = old.key /\ files = {}
             \/ user = GoneUsers(old.user) /\ key = GoneKeys(old.key) /\ files = {old}
  /\ session = [s \in Sessions |-> None] /\ issued = {} /\ astray = {}
  /\ open \in BOOLEAN
  /\ request = [w \in Workers |-> Idle]
  /\ told = {} /\ sent = 0 /\ restarts = 0

-----------------------------------------------------------------------------
(* Making accounts: two counts, two commits.                               *)

Rows == <<user, key, made>>
Memory == <<session, issued, astray, files, open>>

\* register: open to all while there is no account.
Register(w, c, e, p) ==
  /\ (Accounts # {} /\ ~open) => IsAdmin(Caller(c))
  /\ Start(w, [Idle EXCEPT !.stage = "count", !.email = e, !.password = p,
                           !.first = (Accounts = {}),
                           !.role = IF Accounts = {} THEN "admin" ELSE "user"])
  /\ UNCHANGED <<Rows, Memory, told>>

CreateUserAdmin(w, c, e, p, role) ==
  /\ IsAdmin(Caller(c))
  /\ Start(w, [Idle EXCEPT !.stage = "count", !.email = e, !.password = p, !.role = role])
  /\ UNCHANGED <<Rows, Memory, told>>

\* Mutant of CountUsers: the role is left to the caller's second commit.
CountNobody(w) ==
  /\ At(w, "count")
  /\ Continue(w, [request[w] EXCEPT !.stage = "insert"])
  /\ UNCHANGED <<Rows, Memory, told>>
\* create_user counts again, after the password is hashed.
CountUsers(w) ==
  /\ At(w, "count")
  /\ Continue(w, [request[w] EXCEPT !.stage = "insert", !.admin = (Accounts = {})])
  /\ UNCHANGED <<Rows, Memory, told>>

NewUser(r) ==
  [state |-> "live", email |-> r.email, password |-> r.password, admin |-> r.admin,
   role |-> "user", founder |-> r.first \/ r.admin, stray |-> r.late]

\* The unique index refuses an e-mail address that is taken.
InsertUser(w, u) ==
  LET r == request[w] IN
  /\ At(w, "insert")
  /\ IF HasEmail(r.email) # {}
       THEN Continue(w, Idle) /\ UNCHANGED Rows
       ELSE /\ user[u].state = "unborn"
            /\ user' = [user EXCEPT ![u] = NewUser(r)]
            /\ Continue(w, [r EXCEPT !.stage = "role", !.user = u])
            /\ UNCHANGED <<key, made>>
  /\ UNCHANGED <<Memory, told>>

\* The second commit.  A role equal to the one the row was created with is no
\* change, so it is not written over what another administrator gave meanwhile.
WithRole(row, r) ==
  [row EXCEPT !.role = IF r.role = "user" THEN @ ELSE r.role,
              !.admin = @ \/ r.first]

GiveRole(w) ==
  LET r == request[w] IN
  /\ At(w, "role")
  /\ user' = IF Live(r.user) THEN [user EXCEPT ![r.user] = WithRole(@, r)] ELSE user
  /\ Continue(w, Idle)
  /\ UNCHANGED <<key, made, Memory, told>>

\* update_user_role: the role is a label, is_admin is not touched.
UpdateUserRole(w, c, u, role) ==
  /\ IsAdmin(Caller(c)) /\ Live(u) /\ user[u].role # role
  /\ user' = [user EXCEPT ![u].role = role]
  /\ Start(w, Idle)
  /\ UNCHANGED <<key, made, Memory, told>>

-----------------------------------------------------------------------------
(* Sessions and passwords.                                                 *)

\* login: authenticate_user, then a session for whom it found.
Login(w, u, p) ==
  /\ Live(u) /\ user[u].password = p
  /\ Start(w, [Idle EXCEPT !.stage = "session", !.user = u])
  /\ UNCHANGED <<Rows, Memory, told>>

CreateSession(w, s) ==
  /\ At(w, "session") /\ s \notin issued
  /\ session' = [session EXCEPT ![s] = request[w].user] /\ issued' = issued \cup {s}
  /\ astray' = IF request[w].late THEN astray \cup {s} ELSE astray
  /\ Continue(w, Idle)
  /\ UNCHANGED <<Rows, files, open, told>>

Logout(w, s) ==
  /\ session[s] # None
  /\ session' = [session EXCEPT ![s] = None]
  /\ Start(w, Idle)
  /\ UNCHANGED <<Rows, issued, astray, files, open, told>>

\* change_password: the current one is checked against the row as it was loaded.
Proves(u, p) == user[u].password = p

ChangePassword(w, c, proof, p) ==
  LET who == Caller(c) IN
  /\ SessionOnly(who) /\ Proves(who.user, proof)
  /\ Start(w, [Idle EXCEPT !.stage = "password", !.user = who.user, !.channel = who.channel,
                           !.proof = proof, !.password = p, !.quiet = TRUE])
  /\ UNCHANGED <<Rows, Memory, told>>

\* Everyone else at this stage for the same account has now been overtaken.
Disturb(w, stage, r) ==
  [x \in Workers |->
     IF x = w THEN r
     ELSE IF At(x, stage) /\ request[x].user = request[w].user
       THEN [request[x] EXCEPT !.quiet = FALSE]
       ELSE request[x]]

StorePassword(w) ==
  LET r == request[w] IN
  /\ At(w, "password")
  /\ user' = IF Live(r.user) THEN [user EXCEPT ![r.user].password = r.password] ELSE user
  /\ request' = Disturb(w, "password", Idle)
  /\ UNCHANGED <<key, made, Memory, told, sent, restarts>>

-----------------------------------------------------------------------------
(* Keys.                                                                   *)

CreateKey(w, c, scopes) ==
  LET who == Caller(c) IN
  /\ SessionOnly(who) /\ scopes # {} /\ scopes \subseteq Doors
  /\ Start(w, [Idle EXCEPT !.stage = "key", !.user = who.user, !.channel = who.channel,
                           !.scopes = scopes])
  /\ UNCHANGED <<Rows, Memory, told>>

\* create_api_key has the account from the authentication and does not ask again.
InsertKey(w, k) ==
  LET r == request[w] IN
  /\ At(w, "key") /\ key[k].state = "unborn"
  /\ key' = [key EXCEPT ![k] = [state |-> "active", owner |-> r.user, scopes |-> r.scopes,
                                expired |-> FALSE, stray |-> r.late]]
  /\ made' = Append(made, k)
  /\ request' = Disturb(w, "answer", [r EXCEPT !.stage = "answer", !.key = k, !.quiet = TRUE])
  /\ UNCHANGED <<user, Memory, told, sent, restarts>>

OwnKeys(u) == {n \in DOMAIN made : made[n] \in Stored /\ key[made[n]].owner = u}
\* Mutant of Newest: the list is oldest first.
Oldest(u) == {made[n] : n \in {n \in OwnKeys(u) : \A m \in OwnKeys(u) : n <= m}}
\* The first of list_user_api_keys, if there is one.
Newest(u) == {made[n] : n \in {n \in OwnKeys(u) : \A m \in OwnKeys(u) : m <= n}}

\* The new key is announced under the id of the caller's most recent one.
AnswerKey(w) ==
  LET r == request[w] IN
  /\ At(w, "answer")
  /\ told' = told \cup {[key |-> r.key, as |-> k, quiet |-> r.quiet] : k \in Newest(r.user)}
  /\ Continue(w, Idle)
  /\ UNCHANGED <<Rows, Memory>>

\* revoke_key: without purge it revokes, with purge it deletes what is revoked; to
\* revoke once more changes nothing.
MayPurge(k) == key[k].state = "revoked"

RevokeKey(w, c, k, purge) ==
  LET who == Caller(c) IN
  /\ SessionOnly(who) /\ k \in Stored /\ key[k].owner = who.user
  /\ IF purge THEN MayPurge(k) ELSE key[k].state = "active"
  /\ Start(w, [Idle EXCEPT !.stage = IF purge THEN "purge" ELSE "revoke",
                           !.user = who.user, !.channel = who.channel, !.key = k])
  /\ UNCHANGED <<Rows, Memory, told>>

\* revoke_api_key and delete_api_key write the row if it is still there.
StoreRevocation(w) ==
  LET k == request[w].key IN
  /\ At(w, "revoke")
  /\ key' = IF k \in Stored THEN [key EXCEPT ![k].state = "revoked"] ELSE key
  /\ Continue(w, Idle)
  /\ UNCHANGED <<user, made, Memory, told>>
DeleteKey(w) ==
  LET k == request[w].key IN
  /\ At(w, "purge")
  /\ key' = IF k \in Stored THEN [key EXCEPT ![k] = GoneKey(@)] ELSE key
  /\ request' = Disturb(w, "answer", Idle)
  /\ UNCHANGED <<user, made, Memory, told, sent, restarts>>

\* The time that the key was created to last is over.
Expire(k) ==
  /\ key[k].state = "active" /\ ~key[k].expired
  /\ key' = [key EXCEPT ![k].expired = TRUE]
  /\ UNCHANGED <<user, made, Memory, request, told, sent, restarts>>

-----------------------------------------------------------------------------
(* The factory reset, the backups and the process.                         *)

Wipe(w, c) ==
  LET who == Caller(c) IN
  /\ PassesDoor(who, "admin") /\ IsAdmin(who)
  /\ Start(w, [Idle EXCEPT !.stage = "wipe", !.user = who.user, !.channel = who.channel])
  /\ UNCHANGED <<Rows, Memory, told>>

\* Whoever else is at work has now been overtaken.
Overtake(w, r) ==
  [x \in Workers |->
     IF x = w THEN r
     ELSE IF At(x, "idle") THEN request[x]
     ELSE [request[x] EXCEPT !.late = TRUE, !.quiet = FALSE]]

\* Every table is emptied and committed at once.
DeleteEverything(w) ==
  /\ At(w, "wipe")
  /\ user' = GoneUsers(user) /\ key' = GoneKeys(key)
  /\ request' = Overtake(w, [request[w] EXCEPT !.stage = "clear"])
  /\ UNCHANGED <<made, Memory, told, sent, restarts>>

\* Mutant of ClearAllSessions: only the session of the caller ends.
KeepSessions == session
ClearAllSessions == [s \in Sessions |-> None]

ClearSessions(w) ==
  /\ At(w, "clear")
  /\ session' = ClearAllSessions
  /\ Continue(w, Idle)
  /\ UNCHANGED <<Rows, issued, astray, files, open, told>>

\* export_backup: the tables are read one after the other, users first and keys last.
ExportDatabase(w, c) ==
  LET who == Caller(c) IN
  /\ PassesDoor(who, "admin") /\ IsAdmin(who)
  /\ Start(w, [Idle EXCEPT !.stage = "users", !.user = who.user])
  /\ UNCHANGED <<Rows, Memory, told>>
ReadUsers(w) ==
  /\ At(w, "users")
  /\ Continue(w, [request[w] EXCEPT !.stage = "keys", !.file.user =
       [u \in Users |-> IF Live(u) THEN user[u] ELSE UnbornUser]])
  /\ UNCHANGED <<Rows, Memory, told>>
ReadKeys(w) ==
  LET stored == [k \in Keys |-> IF k \in Stored THEN key[k] ELSE UnbornKey] IN
  /\ At(w, "keys")
  /\ files' = files \cup {[request[w].file EXCEPT !.key = stored]}
  /\ Continue(w, Idle)
  /\ UNCHANGED <<Rows, session, issued, astray, open, told>>

\* import_database waits for the file after it has authenticated its caller.
ImportDatabase(w, c, f) ==
  LET who == Caller(c) IN
  /\ PassesDoor(who, "admin") /\ IsAdmin(who)
  /\ Start(w, [Idle EXCEPT !.stage = "restore", !.user = who.user, !.channel = who.channel,
                           !.file = f])
  /\ UNCHANGED <<Rows, Memory, told>>

\* restore_backup: all that there is is deleted and what the file has is inserted, in
\* one commit; the sessions are left alone.
RestoredUsers(f) ==
  [u \in Users |-> IF f.user[u].state = "live" THEN f.user[u] ELSE GoneUsers(user)[u]]
RestoredKey(row, now, f) ==
  [row EXCEPT !.expired = @ \/ now.expired, !.stray = @ \/ f.user[row.owner].state # "live"]
RestoredKeys(f) ==
  [k \in Keys |-> IF f.key[k].state \in {"active", "revoked"}
                    THEN RestoredKey(f.key[k], key[k], f) ELSE GoneKeys(key)[k]]

RestoreBackup(w) ==
  LET f == request[w].file IN
  /\ At(w, "restore")
  /\ user' = RestoredUsers(f) /\ key' = RestoredKeys(f)
  /\ astray' = astray \cup
       {s \in Sessions : session[s] # None /\ f.user[session[s]].state # "live"}
  /\ request' = Overtake(w, Idle)
  /\ UNCHANGED <<made, session, issued, files, open, told, sent, restarts>>

\* The process stops and starts: no session, no request in flight, a setting anew.
Restart ==
  /\ restarts < MaxRestarts /\ restarts' = restarts + 1
  /\ session' = [s \in Sessions |-> None] /\ open' \in BOOLEAN
  /\ request' = [w \in Workers |-> Idle]
  /\ UNCHANGED <<Rows, issued, astray, files, told, sent>>

\* The clients have nothing more to ask, or what is asked needs an id past the bound.
Silence ==
  /\ \A w \in Workers : request[w].stage \in {"idle", "insert", "session", "key"}
  /\ UNCHANGED vars

\* Who takes another request.
Free == {w \in Workers : At(w, "idle") /\ sent < MaxRequests}

Next ==
  \/ \E w \in Free, c \in Credentials :
       \/ \E e \in Emails, p \in Passwords :
            \/ Register(w, c, e, p)
            \/ \E role \in Roles : CreateUserAdmin(w, c, e, p, role)
       \/ \E u \in Users, role \in Roles : UpdateUserRole(w, c, u, role)
       \/ \E old, new \in Passwords : ChangePassword(w, c, old, new)
       \/ \E scopes \in Scopes : CreateKey(w, c, scopes)
       \/ \E k \in Keys, purge \in BOOLEAN : RevokeKey(w, c, k, purge)
       \/ \E f \in files : ImportDatabase(w, c, f)
       \/ Wipe(w, c) \/ ExportDatabase(w, c)
  \/ \E w \in Workers :
       \/ \E u \in Users, p \in Passwords : Login(w, u, p)
       \/ \E u \in Users : InsertUser(w, u)
       \/ \E s \in Sessions : CreateSession(w, s) \/ Logout(w, s)
       \/ \E k \in Keys : InsertKey(w, k)
       \/ CountUsers(w) \/ GiveRole(w) \/ StorePassword(w) \/ AnswerKey(w)
       \/ StoreRevocation(w) \/ DeleteKey(w) \/ DeleteEverything(w) \/ ClearSessions(w)
       \/ ReadUsers(w) \/ ReadKeys(w) \/ RestoreBackup(w)
  \/ \E k \in Keys : Expire(k)
  \/ Restart
  \/ Silence

Spec == Init /\ [][Next]_vars

-----------------------------------------------------------------------------
(* Properties.                                                             *)

\* Wherever there are accounts there is an administrator, so a server cannot lock
\* its owner out, whatever is cut between the two commits of a registration and
\* whichever backup is imported (auth/user.py:63-79, api/auth.py:482-492, backup.py:
\* 318-373); unless one of the accounts was counted before a factory reset or an
\* import and inserted after it.
AdminUnlessOvertaken ==
  Accounts # {} => \E u \in Accounts : user[u].admin \/ user[u].stray

\* Administrators are the first registrations of a server, of this one or of the one
\* whose backup was imported, and nobody else, whatever becomes of roles
\* (docs/QUICK_START.md:34 "The first user created will automatically be the admin
\* user").
AdminsAreFounders == \A u \in Accounts : user[u].admin => user[u].founder

\* A factory reset leaves no key behind (api/admin.py:8 "it deletes ALL data, ALL
\* accounts, and ALL API keys") and an import brings none without its account, except
\* a key whose creation was overtaken by either or by the export.
OrphansAreOvertaken == \A k \in Stored : Live(key[k].owner) \/ key[k].stray

\* No credential acts for an account that is gone, not even the orphan key that a
\* creation racing a factory reset leaves (auth/apikey.py:128-131).
NoGhostActs == \A c \in Credentials : Caller(c).user # None => Live(Caller(c).user)

\* No session maps to an account that is gone (api/admin.py:125-127 "so no stale
\* cookie maps to a now-deleted user"), except while the reset is between its commit
\* and its clearing, except the session of a login that was overtaken, and except the
\* sessions of accounts that an import took away.
SessionsEndWithTheirUser ==
  (\A w \in Workers : ~At(w, "clear")) =>
    \A s \in Sessions \ astray : session[s] # None => Live(session[s])

\* A key is announced under its own id, which is what a person revokes it by,
\* unless the same account has made or purged one in between, or a reset or an import
\* came in between (api/auth.py:722-729).
KeysAreAnnouncedAsThemselves == \A t \in told : t.quiet => t.as = t.key

\* A reset or an import, sent by who was an administrator and, unless another one came
\* first, still is.
Replacing ==
  \E w \in Workers :
    /\ (At(w, "wipe") /\ At(w, "clear")') \/ (At(w, "restore") /\ At(w, "idle")')
    /\ request[w].late \/ (Live(request[w].user) /\ user[request[w].user].admin)
Serves(u) == \E w \in Workers : /\ request[w].channel = "session" /\ request[w].user = u
                               /\ request'[w].stage # request[w].stage

\* No single call takes a working key straight to gone (api/auth.py:776-781), nor
\* does any interleaving of revocations and purges bring a revoked one back; only a
\* factory reset or an import does either, or a purge that an import overtook.
RevokedBeforeGone ==
  [][\A k \in Stored :
       \/ key'[k].state = key[k].state
       \/ key[k].state = "active" /\ key'[k].state = "revoked"
       \/ key[k].state = "revoked" /\ key'[k].state = "gone"
       \/ Replacing
       \/ \E w \in Workers : At(w, "purge") /\ request[w].key = k /\ request[w].late]_vars

\* Keys are made, revoked and purged, and passwords stored, only for requests that a
\* session authenticated for the account they belong to (auth/doors.py:124-141), or
\* all at once for an administrator who resets or restores the server, for which an
\* API key with the admin door will do (api/backup_api.py:32-45).
PeopleManageCredentials ==
  [][/\ \A k \in Keys : key'[k].state # key[k].state =>
          Replacing \/ Serves(IF k \in Stored THEN key[k].owner ELSE key'[k].owner)
     /\ \A u \in Accounts : user'[u].password # user[u].password =>
          Replacing \/ Serves(u)]_vars

\* Whoever stores a new password has shown the current one, unless another change
\* for the account has been stored since it was checked (auth/user.py:170-177); a
\* backup that is imported brings its passwords along.
PasswordsAreProved ==
  [][\A u \in Accounts : user'[u].state = "live" /\ user'[u].password # user[u].password =>
       \/ Replacing
       \/ \E w \in Workers : /\ At(w, "password") /\ request[w].user = u
                             /\ request[w].proof = user[u].password \/ ~request[w].quiet]_vars

-----------------------------------------------------------------------------
(* What the repository says and the code does not do.                      *)

\* api/admin.py:9-10 "the next account to register becomes the new admin
\* (first-user-is-admin)": a registration that counted the old accounts and is
\* inserted after the reset makes the only account, without the power.
AdminWhereverAccounts == Accounts # {} => \E u \in Accounts : user[u].admin

\* auth/doors.py:127-129 "a key must never create or revoke keys": with the admin door
\* it imports a backup, which replaces them all and the passwords too.
KeysManageNoKeys ==
  [][\A k \in Keys : key'[k].state # key[k].state =>
       \A w \in Workers :
         request'[w].stage # request[w].stage => request[w].channel # "api-key"]_vars

\* api/auth.py:210-211 "so no stale session can map to a now-deleted user".
SessionsHaveUsers == (\A w \in Workers : ~At(w, "clear")) =>
                       \A s \in Sessions : session[s] # None => Live(session[s])

\* api/auth.py:722 "Get the created key to return full details".
AnnouncedAsThemselves == \A t \in told : t.as = t.key
=============================================================================
