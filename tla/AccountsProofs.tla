--------------------------- MODULE AccountsProofs ---------------------------
(***************************************************************************)
(* For every set of accounts, keys, sessions and workers, and any number   *)
(* of requests and restarts: the types, and what the runs check of         *)
(* administrators, keys, sessions and passwords.                           *)
(***************************************************************************)
EXTENDS Accounts, TLAPS

\* What a request in flight may rely on, whatever has happened since it began.
Promise(r) ==
  /\ r.stage \in {"count", "insert"} => r.email # None /\ r.password # None /\ r.role # None
  /\ r.stage = "insert" /\ ~r.late /\ ~r.admin =>
       \E u \in Accounts : user[u].admin \/ user[u].stray
  /\ r.stage = "role" =>
       /\ r.user \in Users /\ r.role # None /\ user[r.user].state # "unborn"
       /\ r.first => user[r.user].founder
  /\ r.stage = "session" => r.user \in Users /\ (~r.late => Live(r.user))
  /\ r.stage = "key" => /\ r.user \in Users /\ r.channel = "session"
                        /\ ~r.late => Live(r.user)
  /\ r.stage = "answer" => /\ r.user \in Users /\ r.key \in Keys
                           /\ r.quiet => Newest(r.user) \subseteq {r.key}
  /\ r.stage \in {"revoke", "purge"} =>
       /\ r.user \in Users /\ r.key \in Keys /\ r.channel = "session"
       /\ key[r.key].state # "unborn" /\ key[r.key].owner = r.user
  /\ r.stage = "purge" /\ ~r.late => key[r.key].state \in {"revoked", "gone"}
  /\ r.stage = "password" =>
       /\ r.user \in Users /\ r.channel = "session" /\ r.password # None
       /\ user[r.user].state # "unborn"
       /\ r.quiet /\ Live(r.user) => r.proof = user[r.user].password
  /\ r.stage \in {"wipe", "restore"} =>
       /\ r.user \in Users
       /\ ~r.late => Live(r.user) /\ user[r.user].admin

\* A backup has rows that were there, with what does not change of them, and accounts
\* as they were together at one moment.
Has(f, u) == f.user[u].state = "live"
Fits(f) ==
  /\ f \in Backup
  /\ \A u \in Users : Has(f, u) =>
       /\ user[u].state # "unborn" /\ user[u].founder = f.user[u].founder
       /\ f.user[u].email # None /\ f.user[u].password # None /\ f.user[u].role # None
       /\ f.user[u].admin => f.user[u].founder
  /\ (\E u \in Users : Has(f, u)) =>
       \E u \in Users : Has(f, u) /\ (f.user[u].admin \/ f.user[u].stray)
  /\ \A k \in Keys : f.key[k].state \in {"active", "revoked"} =>
       key[k].state # "unborn" /\ key[k].owner = f.key[k].owner

FilesFit ==
  /\ \A f \in files : Fits(f)
  /\ \A w \in Workers : Fits(request[w].file)

\* While a reset is between its commit and its clearing, sessions may dangle.
SessionsMatch ==
  (\E w \in Workers : At(w, "clear"))
    \/ \A s \in Sessions \ astray : session[s] # None => Live(session[s])

IInv ==
  /\ TypeOK
  /\ \A n \in DOMAIN made : key[made[n]].state # "unborn"
  /\ \A k \in Keys : key[k].state # "unborn" => key[k].owner \in Users
  /\ \A w \in Workers : Promise(request[w])
  /\ FilesFit
  /\ AdminUnlessOvertaken /\ AdminsAreFounders /\ OrphansAreOvertaken
  /\ SessionsMatch /\ KeysAreAnnouncedAsThemselves

-----------------------------------------------------------------------------

LEMMA RowsTyped == /\ UnbornUser \in User /\ UnbornUser.state = "unborn"
                   /\ UnbornKey \in Key /\ UnbornKey.state = "unborn"
BY DEF UnbornUser, UnbornKey, User, Key

LEMMA NoBackupFits ==
  /\ NoBackup \in Backup /\ Fits(NoBackup)
  /\ \A u \in Users : NoBackup.user[u] = UnbornUser
  /\ \A k \in Keys : NoBackup.key[k] = UnbornKey
BY RowsTyped DEF NoBackup, Backup, Fits, Has

LEMMA IdleTyped == Idle \in Request /\ Promise(Idle) /\ Idle.file = NoBackup
BY NoBackupFits DEF Idle, Request, Promise

\* Whoever a request acts for has an account.
LEMMA CallerTyped ==
  ASSUME TypeOK, NEW c \in Credentials
  PROVE  /\ Caller(c).user \in Users \cup {None}
         /\ Caller(c).channel \in {"none", "session", "api-key"}
         /\ Caller(c).user # None => Caller(c).user \in Users /\ Live(Caller(c).user)
         /\ Caller(c).channel = "session" => Caller(c).user # None
<1>1. c.cookie \in Sessions \cup {None} /\ c.bearer \in Keys \cup {None}
  BY DEF Credentials
<1>2. /\ SessionUser(c.cookie) \in Users \cup {None}
      /\ SessionUser(c.cookie) # None => Live(SessionUser(c.cookie))
  BY <1>1 DEF SessionUser, Live, TypeOK
<1>3. ASSUME c.bearer # None, Validates(c.bearer)
      PROVE  key[c.bearer].owner \in Users /\ Live(key[c.bearer].owner)
  <2>1. key[c.bearer] \in Key
    BY <1>1, <1>3 DEF TypeOK
  <2> QED
    BY <1>3, <2>1 DEF Validates, Live, Key
<1>4. CASE SessionUser(c.cookie) # None
  BY <1>2, <1>4, NoneAssumption DEF Caller
<1>5. CASE SessionUser(c.cookie) = None /\ c.bearer # None /\ Validates(c.bearer)
  BY <1>3, <1>5, NoneAssumption DEF Caller
<1>6. CASE SessionUser(c.cookie) = None /\ ~(c.bearer # None /\ Validates(c.bearer))
  BY <1>6 DEF Caller
<1> QED
  BY <1>4, <1>5, <1>6

-----------------------------------------------------------------------------
(* Steps that only begin a request or take it on.                          *)

Begins(w, r) ==
  /\ r \in Request /\ Promise(r) /\ r.stage # "clear"
  /\ request[w].stage # "clear"
  /\ r.file \in files \cup {NoBackup, request[w].file}
  /\ request' = [request EXCEPT ![w] = r]
  /\ sent' \in 0..MaxRequests
  /\ UNCHANGED <<Rows, Memory, told, restarts>>

LEMMA StartTyped ==
  ASSUME TypeOK, NEW w \in Workers, NEW r, Start(w, r)
  PROVE  /\ request[w].stage # "clear" /\ sent' \in 0..MaxRequests
         /\ request' = [request EXCEPT ![w] = r] /\ UNCHANGED restarts
BY BoundsAssumption DEF Start, At, TypeOK

LEMMA RegisterBegins ==
  ASSUME IInv, NEW w \in Workers, NEW c \in Credentials, NEW e \in Emails, NEW p \in Passwords,
         Register(w, c, e, p)
  PROVE  \E r \in Request : Begins(w, r)
<1> DEFINE first == (Accounts = {})
           role == IF Accounts = {} THEN "admin" ELSE "user"
           r == [Idle EXCEPT !.stage = "count", !.email = e, !.password = p,
                             !.first = first, !.role = role]
<1>1. first \in BOOLEAN /\ role \in Roles
  BY RolesAssumption
<1>2. r \in Request
  <2> HIDE DEF first, role
  <2> QED BY <1>1, IdleTyped DEF Idle, Request
<1>3. r.stage = "count" /\ r.email = e /\ r.password = p /\ r.role # None /\ r.file = NoBackup
  BY RolesAssumption, NoneAssumption DEF Idle
<1>4. Promise(r)
  BY <1>3, NoneAssumption DEF Promise
<1> QED
  BY <1>2, <1>3, <1>4, StartTyped DEF Register, Begins, IInv

LEMMA CreateUserBegins ==
  ASSUME IInv, NEW w \in Workers, NEW c \in Credentials, NEW e \in Emails, NEW p \in Passwords,
         NEW role \in Roles, CreateUserAdmin(w, c, e, p, role)
  PROVE  \E r \in Request : Begins(w, r)
<1> DEFINE r == [Idle EXCEPT !.stage = "count", !.email = e, !.password = p, !.role = role]
<1>1. r \in Request
  BY IdleTyped DEF Idle, Request
<1>2. /\ r.stage = "count" /\ r.email # None /\ r.password # None /\ r.role # None
      /\ r.file = NoBackup
  BY NoneAssumption DEF Idle
<1>3. Promise(r)
  BY <1>2 DEF Promise
<1> QED
  BY <1>1, <1>2, <1>3, StartTyped DEF CreateUserAdmin, Begins, IInv

\* The second count finds an account that is an administrator's or stray, or makes one.
LEMMA CountBegins ==
  ASSUME IInv, NEW w \in Workers, CountUsers(w)
  PROVE  \E r \in Request : Begins(w, r)
<1> DEFINE none == (Accounts = {})
           r == [request[w] EXCEPT !.stage = "insert", !.admin = none]
<1>0. request[w] \in Request /\ Promise(request[w]) /\ request[w].stage = "count"
  BY DEF IInv, TypeOK, CountUsers, At
<1>1. none \in BOOLEAN
  OBVIOUS
<1>2. /\ r \in Request /\ r.stage = "insert" /\ r.email = request[w].email
      /\ r.password = request[w].password /\ r.role = request[w].role /\ r.admin = none
      /\ r.file = request[w].file
  <2> HIDE DEF none
  <2> QED BY <1>0, <1>1 DEF Request
<1>3. ~none => \E u \in Accounts : user[u].admin \/ user[u].stray
  BY DEF IInv, AdminUnlessOvertaken
<1>4. Promise(r)
  <2> HIDE DEF r
  <2> QED BY <1>0, <1>2, <1>3 DEF Promise
<1>5. request' = [request EXCEPT ![w] = r] /\ UNCHANGED <<Rows, Memory, told, sent, restarts>>
  BY DEF CountUsers, Continue
<1> HIDE DEF r
<1> QED
  BY <1>0, <1>2, <1>4, <1>5 DEF Begins, IInv, TypeOK

LEMMA PasswordBegins ==
  ASSUME IInv, NEW w \in Workers, NEW c \in Credentials, NEW proof \in Passwords,
         NEW p \in Passwords, ChangePassword(w, c, proof, p)
  PROVE  \E r \in Request : Begins(w, r)
<1> DEFINE who == Caller(c)
           r == [Idle EXCEPT !.stage = "password", !.user = who.user, !.channel = who.channel,
                             !.proof = proof, !.password = p, !.quiet = TRUE]
<1>1. who.user \in Users /\ Live(who.user) /\ who.channel = "session"
  BY CallerTyped DEF ChangePassword, SessionOnly, IInv
<1>2. /\ r \in Request /\ r.stage = "password" /\ r.user = who.user /\ r.channel = "session"
      /\ r.password = p /\ r.proof = proof /\ r.file = NoBackup
  <2> HIDE DEF who
  <2> QED BY <1>1, IdleTyped DEF Idle, Request
<1>3. proof = user[who.user].password
  BY DEF ChangePassword, Proves
<1>4. Promise(r)
  <2> HIDE DEF r, who
  <2> QED BY <1>1, <1>2, <1>3, NoneAssumption DEF Promise, Live
<1>5. Start(w, r) /\ UNCHANGED <<Rows, Memory, told>>
  BY DEF ChangePassword
<1> HIDE DEF r
<1> QED
  BY <1>2, <1>4, <1>5, StartTyped DEF Begins, IInv

LEMMA KeyBegins ==
  ASSUME IInv, NEW w \in Workers, NEW c \in Credentials, NEW scopes \in Scopes,
         CreateKey(w, c, scopes)
  PROVE  \E r \in Request : Begins(w, r)
<1> DEFINE who == Caller(c)
           r == [Idle EXCEPT !.stage = "key", !.user = who.user, !.channel = who.channel,
                             !.scopes = scopes]
<1>1. who.user \in Users /\ Live(who.user) /\ who.channel = "session"
  BY CallerTyped DEF CreateKey, SessionOnly, IInv
<1>2. /\ r \in Request /\ r.stage = "key" /\ r.user = who.user /\ r.channel = "session"
      /\ r.file = NoBackup
  <2> HIDE DEF who
  <2> QED BY <1>1, IdleTyped DEF Idle, Request
<1>4. Promise(r)
  <2> HIDE DEF r, who
  <2> QED BY <1>1, <1>2 DEF Promise
<1>5. Start(w, r) /\ UNCHANGED <<Rows, Memory, told>>
  BY DEF CreateKey
<1> HIDE DEF r
<1> QED
  BY <1>2, <1>4, <1>5, StartTyped DEF Begins, IInv

LEMMA RevokeBegins ==
  ASSUME IInv, NEW w \in Workers, NEW c \in Credentials, NEW k \in Keys, NEW purge \in BOOLEAN,
         RevokeKey(w, c, k, purge)
  PROVE  \E r \in Request : Begins(w, r)
<1> DEFINE who == Caller(c)
           r == [Idle EXCEPT !.stage = IF purge THEN "purge" ELSE "revoke",
                             !.user = who.user, !.channel = who.channel, !.key = k]
<1>1. who.user \in Users /\ who.channel = "session"
  BY CallerTyped DEF RevokeKey, SessionOnly, IInv
<1>2. /\ r \in Request /\ r.stage = (IF purge THEN "purge" ELSE "revoke")
      /\ r.user = who.user /\ r.channel = "session" /\ r.key = k
      /\ r.file = NoBackup
  <2> HIDE DEF who
  <2> QED BY <1>1, IdleTyped DEF Idle, Request
<1>3. /\ k \in Stored /\ key[k].owner = who.user
      /\ purge => key[k].state = "revoked"
  BY DEF RevokeKey, MayPurge
<1>4. Promise(r)
  <2> HIDE DEF r, who
  <2> QED BY <1>1, <1>2, <1>3 DEF Promise, Stored
<1>5. Start(w, r) /\ UNCHANGED <<Rows, Memory, told>>
  BY DEF RevokeKey
<1> HIDE DEF r
<1> QED
  BY <1>2, <1>4, <1>5, StartTyped DEF Begins, IInv

LEMMA LoginBegins ==
  ASSUME IInv, NEW w \in Workers, NEW u \in Users, NEW p \in Passwords, Login(w, u, p)
  PROVE  \E r \in Request : Begins(w, r)
<1> DEFINE r == [Idle EXCEPT !.stage = "session", !.user = u]
<1>1. r \in Request /\ r.stage = "session" /\ r.user = u /\ r.file = NoBackup
  BY IdleTyped DEF Idle, Request
<1>2. Promise(r)
  BY <1>1 DEF Promise, Login
<1> QED
  BY <1>1, <1>2, StartTyped DEF Login, Begins, IInv

\* Whoever passes the admin door as an administrator is one of the accounts.
LEMMA AdminCalls ==
  ASSUME IInv, NEW c \in Credentials, PassesDoor(Caller(c), "admin"), IsAdmin(Caller(c))
  PROVE  /\ Caller(c).user \in Users /\ Live(Caller(c).user) /\ user[Caller(c).user].admin
         /\ Caller(c).channel \in {"none", "session", "api-key"}
BY CallerTyped DEF PassesDoor, IsAdmin, IInv

LEMMA WipeBegins ==
  ASSUME IInv, NEW w \in Workers, NEW c \in Credentials, Wipe(w, c)
  PROVE  \E r \in Request : Begins(w, r)
<1> DEFINE who == Caller(c)
           r == [Idle EXCEPT !.stage = "wipe", !.user = who.user, !.channel = who.channel]
<1>1. /\ who.user \in Users /\ Live(who.user) /\ user[who.user].admin
      /\ who.channel \in {"none", "session", "api-key"}
  BY AdminCalls DEF Wipe
<1>2. r \in Request /\ r.stage = "wipe" /\ r.user = who.user /\ r.file = NoBackup
  <2> HIDE DEF who
  <2> QED BY <1>1, IdleTyped DEF Idle, Request
<1>3. Promise(r)
  <2> HIDE DEF r, who
  <2> QED BY <1>1, <1>2 DEF Promise
<1>5. Start(w, r) /\ UNCHANGED <<Rows, Memory, told>>
  BY DEF Wipe
<1> HIDE DEF r
<1> QED
  BY <1>2, <1>3, <1>5, StartTyped DEF Begins, IInv

LEMMA ExportBegins ==
  ASSUME IInv, NEW w \in Workers, NEW c \in Credentials, ExportDatabase(w, c)
  PROVE  \E r \in Request : Begins(w, r)
<1> DEFINE who == Caller(c)
           r == [Idle EXCEPT !.stage = "users", !.user = who.user]
<1>1. who.user \in Users
  BY AdminCalls DEF ExportDatabase
<1>2. r \in Request /\ r.stage = "users" /\ r.file = NoBackup
  <2> HIDE DEF who
  <2> QED BY <1>1, IdleTyped DEF Idle, Request
<1>3. Promise(r)
  <2> HIDE DEF r
  <2> QED BY <1>2 DEF Promise
<1>5. Start(w, r) /\ UNCHANGED <<Rows, Memory, told>>
  BY DEF ExportDatabase
<1> HIDE DEF r
<1> QED
  BY <1>2, <1>3, <1>5, StartTyped DEF Begins, IInv

LEMMA ImportBegins ==
  ASSUME IInv, NEW w \in Workers, NEW c \in Credentials, NEW f \in files,
         ImportDatabase(w, c, f)
  PROVE  \E r \in Request : Begins(w, r)
<1> DEFINE who == Caller(c)
           r == [Idle EXCEPT !.stage = "restore", !.user = who.user, !.channel = who.channel,
                             !.file = f]
<1>1. /\ who.user \in Users /\ Live(who.user) /\ user[who.user].admin
      /\ who.channel \in {"none", "session", "api-key"}
  BY AdminCalls DEF ImportDatabase
<1>2. f \in Backup
  BY DEF IInv, TypeOK
<1>3. r \in Request /\ r.stage = "restore" /\ r.user = who.user /\ r.file = f
  <2> HIDE DEF who
  <2> QED BY <1>1, <1>2, IdleTyped DEF Idle, Request
<1>4. Promise(r)
  <2> HIDE DEF r, who
  <2> QED BY <1>1, <1>3 DEF Promise
<1>5. Start(w, r) /\ UNCHANGED <<Rows, Memory, told>>
  BY DEF ImportDatabase
<1> HIDE DEF r
<1> QED
  BY <1>3, <1>4, <1>5, StartTyped DEF Begins, IInv

-----------------------------------------------------------------------------
(* How a promise is kept while others work.                                *)

\* Whatever happens to rows, what they were is not forgotten.
Lasting ==
  /\ \A u \in Users : user[u].state # "unborn" =>
       user'[u].state # "unborn" /\ user'[u].founder = user[u].founder
  /\ \A k \in Keys : key[k].state # "unborn" =>
       key'[k].state # "unborn" /\ key'[k].owner = key[k].owner

\* Accounts come and keep what they are; only a reset or an import takes them away.
UsersGrow ==
  \A u \in Users :
    /\ user[u].state # "unborn" =>
         user'[u].state # "unborn" /\ user'[u].founder = user[u].founder
    /\ user'[u].state = "live" /\ user[u].state # "unborn" => user[u].state = "live"
    /\ user[u].state = "live" =>
         /\ user'[u].state = "live" /\ user'[u].stray = user[u].stray
         /\ user[u].admin => user'[u].admin

KeysGrow ==
  \A k \in Keys :
    /\ key[k].state # "unborn" => key'[k].state # "unborn" /\ key'[k].owner = key[k].owner
    /\ key[k].state \in {"revoked", "gone"} => key'[k].state \in {"revoked", "gone"}
    /\ key'[k].state \in {"active", "revoked"} /\ key[k].state # "unborn" =>
         key[k].state \in {"active", "revoked"}

LEMMA GrowthLasts == UsersGrow /\ KeysGrow => Lasting
BY DEF UsersGrow, KeysGrow, Lasting

LEMMA FitsLasts ==
  ASSUME NEW f, Fits(f), Lasting
  PROVE  Fits(f)'
BY DEF Fits, Lasting, Has

\* No request gets hold of a backup but from where they are kept.
LEMMA FilesStay ==
  ASSUME IInv, Lasting, UNCHANGED files,
         \A x \in Workers : request'[x].file \in files \cup {NoBackup, request[x].file}
  PROVE  FilesFit'
<1>1. \A f \in files : Fits(f)'
  BY FitsLasts DEF IInv, FilesFit
<1>2. Fits(NoBackup)'
  BY NoBackupFits, FitsLasts
<1>3. ASSUME NEW x \in Workers PROVE Fits(request[x].file)'
  <2>1. Fits(request[x].file)
    BY DEF IInv, FilesFit
  <2>2. PICK f : f = request[x].file
    OBVIOUS
  <2>3. Fits(f)
    BY <2>1, <2>2 DEF Fits, Has
  <2>4. Fits(f)'
    BY <2>3, FitsLasts
  <2>5. request'[x].file \in files \cup {NoBackup, f}
    BY <2>2
  <2>6. PICK g : g = request'[x].file
    OBVIOUS
  <2>7. Fits(g)'
    <3>1. CASE g \in files
      BY <1>1, <3>1
    <3>2. CASE g = NoBackup
      BY <1>2, <3>2 DEF Fits, Has
    <3>3. CASE g = f
      BY <2>4, <3>3 DEF Fits, Has
    <3> QED
      BY <2>5, <2>6, <3>1, <3>2, <3>3
  <2> QED
    BY <2>6, <2>7 DEF Fits, Has
<1> QED
  BY <1>1, <1>3 DEF FilesFit

LEMMA PromiseStable ==
  ASSUME NEW r \in Request, Promise(r), UNCHANGED Rows
  PROVE  Promise(r)'
BY DEF Promise, Rows, Live, Accounts, Stored, Newest, OwnKeys

LEMMA PromiseKept ==
  ASSUME NEW r \in Request, Promise(r), UsersGrow, KeysGrow,
         r.stage = "answer" => Newest(r.user)' = Newest(r.user),
         r.stage = "password" /\ r.quiet => user'[r.user].password = user[r.user].password
  PROVE  Promise(r)'
<1>1. \A u \in Users : Live(u) => Live(u)'
  BY DEF UsersGrow, Live
<1>2. CASE r.stage = "insert"
  BY <1>1, <1>2 DEF Promise, UsersGrow, Accounts, Live
<1>3. CASE r.stage = "role"
  BY <1>3 DEF Promise, UsersGrow, Live
<1>4. CASE r.stage \in {"session", "key"}
  BY <1>1, <1>4 DEF Promise
<1>5. CASE r.stage = "answer"
  BY <1>5 DEF Promise
<1>6. CASE r.stage \in {"revoke", "purge"}
  BY <1>6 DEF Promise, KeysGrow
<1>7. CASE r.stage = "password"
  BY <1>7 DEF Promise, UsersGrow, Live
<1>8. CASE r.stage \in {"idle", "count", "clear", "users", "keys"}
  BY <1>8 DEF Promise
<1>9. CASE r.stage \in {"wipe", "restore"}
  BY <1>1, <1>9 DEF Promise, UsersGrow, Live
<1> QED
  BY <1>2, <1>3, <1>4, <1>5, <1>6, <1>7, <1>8, <1>9 DEF Request

\* One request changes, and the others keep their promises.
LEMMA Requests ==
  ASSUME IInv, NEW w \in Workers, NEW r \in Request, Promise(r)',
         request' = [request EXCEPT ![w] = r],
         \A s \in Request : Promise(s) /\ (\E x \in Workers \ {w} : s = request[x]) => Promise(s)'
  PROVE  request' \in [Workers -> Request] /\ (\A x \in Workers : Promise(request[x]))'
<1>1. request \in [Workers -> Request] /\ \A x \in Workers : Promise(request[x])
  BY DEF IInv, TypeOK
<1>2. ASSUME NEW x \in Workers PROVE Promise(request[x])'
  <2>1. CASE x = w
    <3>1. request'[x] = r
      BY <1>1, <2>1
    <3> QED
      BY <3>1 DEF Promise, Live, Accounts, Stored, Newest, OwnKeys
  <2>2. CASE x # w
    <3>1. PICK s \in Request : s = request[x]
      BY <1>1
    <3>2. request'[x] = s
      BY <1>1, <2>2, <3>1
    <3>3. Promise(s)
      BY <1>1, <3>1 DEF Promise, Live, Accounts, Stored, Newest, OwnKeys
    <3>4. Promise(s)'
      BY <2>2, <3>1, <3>3
    <3> QED
      BY <3>2, <3>4 DEF Promise, Live, Accounts, Stored, Newest, OwnKeys
  <2> QED
    BY <2>1, <2>2
<1> QED
  BY <1>1, <1>2

\* No session loses its account, and no clearing is given up.
LEMMA SessionsStay ==
  ASSUME IInv, UNCHANGED <<session, astray>>, \A u \in Users : Live(u) => Live(u)',
         \A w \in Workers : At(w, "clear") => At(w, "clear")'
  PROVE  SessionsMatch'
<1>1. \A s \in Sessions : session[s] # None /\ Live(session[s]) => Live(session[s])'
  BY DEF IInv, TypeOK, Live
<1> QED
  BY <1>1 DEF SessionsMatch, IInv

LEMMA SessionsKept ==
  ASSUME IInv, UNCHANGED <<session, astray>>, \A u \in Users : Live(u) => Live(u)',
         NEW w \in Workers, NEW r \in Request, request' = [request EXCEPT ![w] = r],
         request[w].stage # "clear"
  PROVE  SessionsMatch'
<1>1. ASSUME NEW x \in Workers, At(x, "clear") PROVE At(x, "clear")'
  BY <1>1 DEF At, IInv, TypeOK
<1> QED
  BY <1>1, SessionsStay

LEMMA BeginsKeeps ==
  ASSUME IInv, NEW w \in Workers, NEW r \in Request, Begins(w, r)
  PROVE  IInv'
<1>1. /\ UNCHANGED <<user, key, made, session, issued, astray, files, open, told, restarts>>
      /\ UNCHANGED Rows
  BY DEF Begins, Rows, Memory
<1>2. request' \in [Workers -> Request] /\ (\A x \in Workers : Promise(request[x]))'
  BY <1>1, PromiseStable, Requests DEF Begins
<1>3. TypeOK'
  BY <1>1, <1>2 DEF IInv, TypeOK, Begins
<1>4. \A u \in Users : Live(u) => Live(u)'
  BY <1>1 DEF Live
<1>5. SessionsMatch'
  BY <1>1, <1>4, SessionsKept DEF Begins
<1>6. FilesFit'
  <2>1. Lasting
    BY <1>1 DEF Lasting
  <2>2. \A x \in Workers : request'[x].file \in files \cup {NoBackup, request[x].file}
    BY DEF Begins, IInv, TypeOK
  <2> QED
    BY <1>1, <2>1, <2>2, FilesStay
<1> QED
  BY <1>1, <1>2, <1>3, <1>5, <1>6 DEF IInv, AdminUnlessOvertaken, AdminsAreFounders,
     OrphansAreOvertaken, KeysAreAnnouncedAsThemselves, Accounts, Live, Stored

-----------------------------------------------------------------------------
(* Steps that change accounts.                                             *)

\* One account is made or changed.
Rewrites(u, row) ==
  /\ row \in User /\ row.state = "live"
  /\ row.email # None /\ row.password # None /\ row.role # None
  /\ user[u].state # "gone"
  /\ user[u].state = "live" =>
       row.founder = user[u].founder /\ row.stray = user[u].stray /\ (user[u].admin => row.admin)
  /\ row.admin => row.founder
  /\ user[u].state = "unborn" /\ ~row.admin /\ ~row.stray =>
       \E x \in Accounts : user[x].admin \/ user[x].stray
  /\ user' = [user EXCEPT ![u] = row]
  /\ UNCHANGED <<key, made>>

\* So it is, and the request w goes on as r.
Settles(w, u, row, r) ==
  /\ Rewrites(u, row)
  /\ request[w].stage # "clear" /\ request' = [request EXCEPT ![w] = r]
  /\ r.file \in {NoBackup, request[w].file}
  /\ sent' \in 0..MaxRequests
  /\ UNCHANGED <<session, issued, astray, files, open, told, restarts>>

LEMMA RewritesGrows ==
  ASSUME IInv, NEW u \in Users, NEW row, Rewrites(u, row)
  PROVE  /\ UsersGrow /\ KeysGrow /\ user' \in [Users -> User]
         /\ \A x \in Users : Live(x) => Live(x)'
         /\ \A x : Newest(x)' = Newest(x)
         /\ \A x \in Users : user'[x].state = "live" =>
              user'[x].email # None /\ user'[x].password # None /\ user'[x].role # None
         /\ AdminUnlessOvertaken' /\ AdminsAreFounders' /\ OrphansAreOvertaken'
<1>1. /\ user \in [Users -> User] /\ user'[u] = row /\ \A x \in Users \ {u} : user'[x] = user[x]
      /\ user' \in [Users -> User]
  BY DEF IInv, TypeOK, Rewrites
<1>2. UsersGrow
  BY <1>1 DEF Rewrites, UsersGrow, User
<1>3. KeysGrow /\ \A x : Newest(x)' = Newest(x)
  BY DEF Rewrites, KeysGrow, Newest, OwnKeys, Stored
<1>4. \A x \in Users : Live(x) => Live(x)'
  BY <1>2 DEF UsersGrow, Live
<1>5. Live(u)' /\ (\A x \in Users : Live(x)' => x = u \/ Live(x))
  BY <1>1, NoneAssumption DEF Rewrites, Live
<1>6. AdminsAreFounders'
  BY <1>1, <1>5 DEF Rewrites, IInv, AdminsAreFounders, Accounts
<1>7. AdminUnlessOvertaken'
  <2>1. CASE \E x \in Accounts : user[x].admin \/ user[x].stray
    BY <1>2, <1>4, <2>1 DEF UsersGrow, AdminUnlessOvertaken, Accounts, Live
  <2>2. CASE ~\E x \in Accounts : user[x].admin \/ user[x].stray
    <3>1. user[u].state # "live"
      BY <2>2, NoneAssumption DEF IInv, AdminUnlessOvertaken, Accounts, Live
    <3>2. row.admin \/ row.stray
      BY <1>1, <2>2, <3>1 DEF Rewrites, User
    <3> QED
      BY <1>1, <1>5, <3>2 DEF AdminUnlessOvertaken, Accounts
  <2> QED
    BY <2>1, <2>2
<1>8. \A x \in Users : user'[x].state = "live" =>
        user'[x].email # None /\ user'[x].password # None /\ user'[x].role # None
  BY <1>1 DEF Rewrites, IInv, TypeOK
<1>9. OrphansAreOvertaken'
  <2>1. ASSUME NEW k \in Stored PROVE key[k].owner \in Users \cup {None}
    BY DEF IInv, TypeOK, Key, Stored
  <2> QED
    BY <1>4, <2>1 DEF Rewrites, IInv, OrphansAreOvertaken, Stored, Live
<1> QED
  BY <1>1, <1>2, <1>3, <1>4, <1>6, <1>7, <1>8, <1>9

LEMMA SettlesKeeps ==
  ASSUME IInv, NEW w \in Workers, NEW u \in Users, NEW row, NEW r \in Request,
         Settles(w, u, row, r), Promise(r)',
         \A s \in Request : Promise(s) /\ (\E x \in Workers \ {w} : s = request[x]) => Promise(s)'
  PROVE  IInv'
<1>1. /\ UsersGrow /\ user' \in [Users -> User]
      /\ \A x \in Users : Live(x) => Live(x)'
      /\ \A x \in Users : user'[x].state = "live" =>
           user'[x].email # None /\ user'[x].password # None /\ user'[x].role # None
      /\ AdminUnlessOvertaken' /\ AdminsAreFounders' /\ OrphansAreOvertaken'
  BY RewritesGrows DEF Settles
<1>2. request' \in [Workers -> Request] /\ (\A x \in Workers : Promise(request[x]))'
  BY Requests DEF Settles
<1>3. TypeOK'
  BY <1>1, <1>2 DEF IInv, TypeOK, Settles, Rewrites
<1>4. SessionsMatch'
  BY <1>1, SessionsKept DEF Settles
<1>5. /\ KeysAreAnnouncedAsThemselves' /\ (\A n \in DOMAIN made : key[made[n]].state # "unborn")'
      /\ (\A k \in Keys : key[k].state # "unborn" => key[k].owner \in Users)'
  BY DEF Settles, Rewrites, IInv, KeysAreAnnouncedAsThemselves
<1>6. FilesFit'
  <2>1. KeysGrow
    BY DEF Settles, Rewrites, KeysGrow
  <2>2. \A x \in Workers : request'[x].file \in files \cup {NoBackup, request[x].file}
    BY DEF Settles, IInv, TypeOK
  <2> QED
    BY <1>1, <2>1, <2>2, GrowthLasts, FilesStay DEF Settles
<1> QED
  BY <1>1, <1>2, <1>3, <1>4, <1>5, <1>6 DEF IInv

\* No password is touched: the others' promises stand.
LEMMA OthersKept ==
  ASSUME IInv, NEW u \in Users, NEW row, Rewrites(u, row),
         user[u].state = "live" => row.password = user[u].password
  PROVE  \A s \in Request : Promise(s) => Promise(s)'
<1> SUFFICES ASSUME NEW s \in Request, Promise(s) PROVE Promise(s)'
  OBVIOUS
<1>1. UsersGrow /\ KeysGrow /\ \A x : Newest(x)' = Newest(x)
  BY RewritesGrows
<1>2. s.stage = "password" => user'[s.user].password = user[s.user].password
  <2>1. s.stage = "password" => s.user \in Users /\ user[s.user].state # "unborn"
    BY DEF Promise
  <2>2. user[u].state \in {"unborn", "live"}
    BY DEF Rewrites, IInv, TypeOK, User
  <2> QED
    BY <2>1, <2>2 DEF Rewrites, IInv, TypeOK
<1> QED
  BY <1>1, <1>2, PromiseKept

LEMMA InsertUserKeeps ==
  ASSUME IInv, NEW w \in Workers, NEW u \in Users, InsertUser(w, u)
  PROVE  IInv'
<1>0. PICK r \in Request : /\ r = request[w] /\ Promise(r) /\ r.stage = "insert"
  BY DEF IInv, TypeOK, InsertUser, At, Promise, Live, Accounts, Stored, Newest, OwnKeys
<1>1. CASE HasEmail(r.email) # {}
  <2>1. Begins(w, Idle)
    BY <1>0, <1>1, IdleTyped DEF InsertUser, Continue, Begins, Idle, IInv, TypeOK
  <2> QED
    BY <2>1, IdleTyped, BeginsKeeps
<1>2. CASE HasEmail(r.email) = {}
  <2>1. PICK row : row = NewUser(r)
    OBVIOUS
  <2>2. PICK done : done = [r EXCEPT !.stage = "role", !.user = u]
    OBVIOUS
  <2>3. /\ user[u].state = "unborn" /\ user' = [user EXCEPT ![u] = row]
        /\ request' = [request EXCEPT ![w] = done]
        /\ UNCHANGED <<key, made, session, issued, astray, files, open, told, sent, restarts>>
    BY <1>0, <1>2, <2>1, <2>2 DEF InsertUser, Continue, Memory
  <2>4. /\ done \in Request /\ done.stage = "role" /\ done.user = u
        /\ done.role = r.role /\ done.first = r.first /\ done.file = r.file
    BY <2>2 DEF Request
  <2>5. r.email # None /\ r.password # None /\ r.role # None
    BY <1>0 DEF Promise
  <2>6. /\ row \in User /\ row.state = "live"
        /\ row.email = r.email /\ row.password = r.password
        /\ row.role = "user" /\ row.stray = r.late /\ row.admin = r.admin
    <3>1. (r.first \/ r.admin) \in BOOLEAN
      OBVIOUS
    <3> QED
      BY <2>1, <2>5, <3>1, RolesAssumption DEF NewUser, User, Request
  <2>7. (r.admin => row.founder) /\ (r.first => row.founder)
    BY <2>1 DEF NewUser
  <2>8. ~r.late /\ ~r.admin => \E x \in Accounts : user[x].admin \/ user[x].stray
    BY <1>0 DEF Promise
  <2>9. sent \in 0..MaxRequests /\ "user" # None
    BY RolesAssumption, NoneAssumption DEF IInv, TypeOK
  <2>10. Settles(w, u, row, done)
    BY <1>0, <2>3, <2>4, <2>5, <2>6, <2>7, <2>8, <2>9 DEF Settles, Rewrites
  <2>11. Promise(done)'
    <3>1. user'[u] = row
      BY <2>3 DEF IInv, TypeOK
    <3> QED
      BY <2>4, <2>5, <2>6, <2>7, <3>1 DEF Promise
  <2> QED
    BY <2>3, <2>4, <2>10, <2>11, OthersKept, SettlesKeeps DEF Settles
<1> QED
  BY <1>1, <1>2

LEMMA GiveRoleKeeps ==
  ASSUME IInv, NEW w \in Workers, GiveRole(w)
  PROVE  IInv'
<1>0. PICK r \in Request : /\ r = request[w] /\ Promise(r) /\ r.stage = "role"
  BY DEF IInv, TypeOK, GiveRole, At, Promise, Live, Accounts, Stored, Newest, OwnKeys
<1>1. r.user \in Users /\ r.role \in Roles /\ (r.first => user[r.user].founder)
  BY <1>0 DEF Promise, Request
<1>2. /\ request' = [request EXCEPT ![w] = Idle]
      /\ UNCHANGED <<key, made, session, issued, astray, files, open, told, sent, restarts>>
  BY DEF GiveRole, Continue, Memory
<1>3. /\ sent \in 0..MaxRequests /\ Idle \in Request /\ Promise(Idle) /\ Idle.stage # "clear"
      /\ Idle.file = NoBackup
  BY IdleTyped DEF IInv, TypeOK, Idle
<1>4. CASE ~Live(r.user)
  <2>1. Begins(w, Idle)
    BY <1>0, <1>2, <1>3, <1>4 DEF GiveRole, Begins, Rows, Memory
  <2> QED
    BY <1>3, <2>1, BeginsKeeps
<1>5. CASE Live(r.user)
  <2>1. PICK row : row = WithRole(user[r.user], r)
    OBVIOUS
  <2>2. user' = [user EXCEPT ![r.user] = row]
    BY <1>0, <1>5, <2>1 DEF GiveRole
  <2>3. user[r.user] \in User /\ user[r.user].state = "live"
    BY <1>1, <1>5 DEF IInv, TypeOK, Live
  <2>4. /\ row \in User /\ row.state = "live" /\ row.email = user[r.user].email
        /\ row.password = user[r.user].password /\ row.founder = user[r.user].founder
        /\ row.stray = user[r.user].stray /\ row.admin = (user[r.user].admin \/ r.first)
        /\ row.role \in {user[r.user].role, r.role}
    BY <1>1, <2>1, <2>3 DEF WithRole, User
  <2>5. user[r.user].email # None /\ user[r.user].password # None /\ user[r.user].role # None
        /\ r.role # None
    BY <1>0, <1>1, <2>3 DEF IInv, TypeOK, Promise
  <2>6. user[r.user].admin => user[r.user].founder
    BY <1>1, <1>5 DEF IInv, AdminsAreFounders, Accounts
  <2>7. Settles(w, r.user, row, Idle)
    BY <1>0, <1>1, <1>2, <1>3, <1>5, <2>2, <2>3, <2>4, <2>5, <2>6 DEF Settles, Rewrites
  <2>8. Promise(Idle)'
    BY DEF Promise, Idle
  <2> QED
    BY <1>1, <1>3, <2>4, <2>7, <2>8, OthersKept, SettlesKeeps DEF Settles
<1> QED
  BY <1>4, <1>5

LEMMA UpdateUserRoleKeeps ==
  ASSUME IInv, NEW w \in Workers, NEW c \in Credentials, NEW u \in Users, NEW role \in Roles,
         UpdateUserRole(w, c, u, role)
  PROVE  IInv'
<1>1. PICK row : row = [user[u] EXCEPT !.role = role]
  OBVIOUS
<1>2. user[u] \in User /\ user[u].state = "live"
  BY DEF UpdateUserRole, IInv, TypeOK, Live
<1>3. /\ row \in User /\ row.state = "live" /\ row.email = user[u].email
      /\ row.password = user[u].password /\ row.founder = user[u].founder
      /\ row.stray = user[u].stray /\ row.admin = user[u].admin /\ row.role = role
  BY <1>1, <1>2 DEF User
<1>4. user' = [user EXCEPT ![u] = row]
  BY <1>1 DEF UpdateUserRole, IInv, TypeOK
<1>5. user[u].email # None /\ user[u].password # None /\ role # None
  BY <1>2, NoneAssumption DEF IInv, TypeOK
<1>6. user[u].admin => user[u].founder
  BY <1>2, NoneAssumption DEF IInv, AdminsAreFounders, Accounts, Live
<1>7. Start(w, Idle) /\ UNCHANGED <<key, made, session, issued, astray, files, open, told>>
  BY DEF UpdateUserRole, Memory
<1>8. Settles(w, u, row, Idle)
  BY <1>2, <1>3, <1>4, <1>5, <1>6, <1>7, StartTyped, IdleTyped DEF Settles, Rewrites, IInv
<1>9. Promise(Idle)'
  BY DEF Promise, Idle
<1> QED
  BY <1>3, <1>8, <1>9, IdleTyped, OthersKept, SettlesKeeps DEF Settles

-----------------------------------------------------------------------------
(* Steps that overtake others of the same account.                         *)

LEMMA Disturbed ==
  ASSUME NEW q \in Request, NEW d, d = [q EXCEPT !.quiet = FALSE]
  PROVE  /\ d \in Request /\ d.stage = q.stage /\ d.user = q.user /\ d.file = q.file /\ ~d.quiet
         /\ Promise(q) => Promise(d)
<1>1. d \in Request
  BY DEF Request
<1>2. /\ d.stage = q.stage /\ d.user = q.user /\ d.channel = q.channel /\ d.email = q.email
      /\ d.password = q.password /\ d.proof = q.proof
  BY DEF Request
<1>3. /\ d.role = q.role /\ d.first = q.first /\ d.admin = q.admin /\ d.scopes = q.scopes
      /\ d.key = q.key /\ d.late = q.late /\ d.file = q.file
  BY DEF Request
<1>4. ~d.quiet
  BY DEF Request
<1>5. Promise(q) => Promise(d)
  BY <1>2, <1>3, <1>4 DEF Promise
<1> QED
  BY <1>1, <1>2, <1>3, <1>4, <1>5

LEMMA DisturbKeeps ==
  ASSUME IInv, NEW w \in Workers, NEW stage, NEW r \in Request, Promise(r)', r.stage # "clear",
         request[w].stage # "clear", request' = Disturb(w, stage, r),
         r.file \in {NoBackup, request[w].file},
         \A s \in Request : /\ Promise(s)
                            /\ s.stage = stage /\ s.user = request[w].user => ~s.quiet
                            => Promise(s)'
  PROVE  /\ request' \in [Workers -> Request] /\ (\A x \in Workers : Promise(request[x]))'
         /\ \A x \in Workers : At(x, "clear") => At(x, "clear")'
         /\ \A x \in Workers : request'[x].file \in files \cup {NoBackup, request[x].file}
<1>1. request \in [Workers -> Request] /\ \A x \in Workers : Promise(request[x])
  BY DEF IInv, TypeOK
<1>2. ASSUME NEW x \in Workers
      PROVE  /\ request'[x] \in Request /\ Promise(request[x])'
             /\ At(x, "clear") => At(x, "clear")'
             /\ request'[x].file \in files \cup {NoBackup, request[x].file}
  <2>1. CASE x = w
    <3>1. request'[x] = r
      BY <2>1 DEF Disturb
    <3> QED
      BY <2>1, <3>1 DEF Promise, Live, Accounts, Stored, Newest, OwnKeys, At
  <2>2. CASE x # w
    <3>1. PICK q \in Request : q = request[x] /\ Promise(q)
      BY <1>1 DEF Promise, Live, Accounts, Stored, Newest, OwnKeys
    <3>2. PICK s : s = IF q.stage = stage /\ q.user = request[w].user
                         THEN [q EXCEPT !.quiet = FALSE] ELSE q
      OBVIOUS
    <3>3. request'[x] = s
      BY <2>2, <3>1, <3>2 DEF Disturb, At
    <3>4. /\ s \in Request /\ s.stage = q.stage /\ s.user = q.user /\ s.file = q.file
          /\ Promise(s)
      BY <3>1, <3>2, Disturbed
    <3>5. s.stage = stage /\ s.user = request[w].user => ~s.quiet
      BY <3>2, <3>4, Disturbed
    <3>6. Promise(s)'
      BY <3>4, <3>5
    <3> QED
      BY <3>1, <3>3, <3>4, <3>6 DEF Promise, Live, Accounts, Stored, Newest, OwnKeys, At
  <2> QED
    BY <2>1, <2>2
<1>3. request' \in [Workers -> Request]
  BY <1>2 DEF Disturb
<1> QED
  BY <1>2, <1>3

LEMMA StorePasswordKeeps ==
  ASSUME IInv, NEW w \in Workers, StorePassword(w)
  PROVE  IInv'
<1>0. PICK r \in Request : /\ r = request[w] /\ Promise(r) /\ r.stage = "password"
  BY DEF IInv, TypeOK, StorePassword, At, Promise, Live, Accounts, Stored, Newest, OwnKeys
<1>1. r.user \in Users /\ r.password \in Passwords /\ r.password # None
  BY <1>0 DEF Promise, Request
<1>2. /\ request' = Disturb(w, "password", Idle)
      /\ UNCHANGED <<key, made, session, issued, astray, files, open, told, sent, restarts>>
  BY DEF StorePassword, Memory
<1>3. /\ UsersGrow /\ KeysGrow /\ user' \in [Users -> User]
      /\ \A x \in Users : Live(x) => Live(x)'
      /\ \A x : Newest(x)' = Newest(x)
      /\ \A x \in Users : user'[x].state = "live" =>
           user'[x].email # None /\ user'[x].password # None /\ user'[x].role # None
      /\ AdminUnlessOvertaken' /\ AdminsAreFounders' /\ OrphansAreOvertaken'
      /\ \A x \in Users \ {r.user} : user'[x] = user[x]
  <2>1. CASE ~Live(r.user)
    <3>1. UNCHANGED <<user, key, made>>
      BY <1>0, <1>2, <2>1 DEF StorePassword
    <3> QED
      BY <3>1 DEF UsersGrow, KeysGrow, IInv, TypeOK, Live, Newest, OwnKeys, Stored, Accounts,
         AdminUnlessOvertaken, AdminsAreFounders, OrphansAreOvertaken
  <2>2. CASE Live(r.user)
    <3>1. PICK row : row = [user[r.user] EXCEPT !.password = r.password]
      OBVIOUS
    <3>2. user[r.user] \in User /\ user[r.user].state = "live"
      BY <1>1, <2>2 DEF IInv, TypeOK, Live
    <3>3. /\ row \in User /\ row.state = "live" /\ row.email = user[r.user].email
          /\ row.password = r.password /\ row.founder = user[r.user].founder
          /\ row.stray = user[r.user].stray /\ row.admin = user[r.user].admin
          /\ row.role = user[r.user].role
      BY <1>1, <3>1, <3>2 DEF User
    <3>4. user' = [user EXCEPT ![r.user] = row]
      BY <1>0, <2>2, <3>1 DEF StorePassword, IInv, TypeOK
    <3>5. user[r.user].email # None /\ user[r.user].role # None
      BY <1>1, <3>2 DEF IInv, TypeOK
    <3>6. user[r.user].admin => user[r.user].founder
      BY <1>1, <2>2 DEF IInv, AdminsAreFounders, Accounts
    <3>7. Rewrites(r.user, row)
      BY <1>1, <1>2, <3>2, <3>3, <3>4, <3>5, <3>6 DEF Rewrites
    <3> QED
      BY <1>1, <3>4, <3>7, RewritesGrows DEF IInv, TypeOK
  <2> QED
    BY <2>1, <2>2
<1>4. ASSUME NEW s \in Request, Promise(s),
             s.stage = "password" /\ s.user = request[w].user => ~s.quiet
      PROVE  Promise(s)'
  <2>1. s.stage = "password" /\ s.quiet => user'[s.user].password = user[s.user].password
    BY <1>0, <1>3, <1>4 DEF Promise
  <2> QED
    BY <1>3, <1>4, <2>1, PromiseKept
<1>5. /\ Promise(Idle)' /\ Idle \in Request /\ Idle.stage # "clear" /\ Idle.file = NoBackup
      /\ request[w].stage # "clear"
  BY <1>0, IdleTyped DEF Promise, Idle
<1>6. /\ request' \in [Workers -> Request] /\ (\A x \in Workers : Promise(request[x]))'
      /\ \A x \in Workers : At(x, "clear") => At(x, "clear")'
      /\ \A x \in Workers : request'[x].file \in files \cup {NoBackup, request[x].file}
  BY <1>2, <1>4, <1>5, DisturbKeeps
<1>7. SessionsMatch'
  BY <1>2, <1>3, <1>6, SessionsStay
<1>8. TypeOK'
  BY <1>2, <1>3, <1>6 DEF IInv, TypeOK
<1>9. FilesFit'
  BY <1>2, <1>3, <1>6, GrowthLasts, FilesStay
<1> QED
  BY <1>2, <1>3, <1>6, <1>7, <1>8, <1>9 DEF IInv, KeysAreAnnouncedAsThemselves

-----------------------------------------------------------------------------
(* Steps that change keys.                                                 *)

\* What a step on keys alone leaves to be shown.
LEMMA KeyStepKeeps ==
  ASSUME IInv, UNCHANGED <<user, session, issued, astray, files, open, told, sent, restarts>>,
         key' \in [Keys -> Key], Lasting,
         \A k \in Keys : key'[k].state # "unborn" => key'[k].owner \in Users,
         \A x \in Workers : request'[x].file \in files \cup {NoBackup, request[x].file},
         made' \in Seq(Keys), IsInjective(made'),
         \A n \in DOMAIN made' : key'[made'[n]].state # "unborn",
         request' \in [Workers -> Request], (\A x \in Workers : Promise(request[x]))',
         \A x \in Workers : At(x, "clear") => At(x, "clear")',
         OrphansAreOvertaken'
  PROVE  IInv'
<1>1. \A u \in Users : Live(u) => Live(u)'
  BY DEF Live
<1>2. SessionsMatch'
  BY <1>1, SessionsStay
<1>3. TypeOK'
  BY DEF IInv, TypeOK
<1>4. (\A n \in DOMAIN made : key[made[n]].state # "unborn")'
  OBVIOUS
<1>5. FilesFit'
  BY FilesStay
<1> QED
  BY <1>2, <1>3, <1>4, <1>5 DEF IInv, AdminUnlessOvertaken, AdminsAreFounders,
     KeysAreAnnouncedAsThemselves, Accounts, Live

LEMMA InsertKeyKeeps ==
  ASSUME IInv, NEW w \in Workers, NEW k \in Keys, InsertKey(w, k)
  PROVE  IInv'
<1>0. PICK r \in Request : /\ r = request[w] /\ Promise(r) /\ r.stage = "key"
  BY DEF IInv, TypeOK, InsertKey, At, Promise, Live, Accounts, Stored, Newest, OwnKeys
<1>1. r.user \in Users /\ (~r.late => Live(r.user)) /\ r.late \in BOOLEAN
  BY <1>0 DEF Promise, Request
<1>2. PICK row : row = [state |-> "active", owner |-> r.user, scopes |-> r.scopes,
                        expired |-> FALSE, stray |-> r.late]
  OBVIOUS
<1>3. PICK done : done = [r EXCEPT !.stage = "answer", !.key = k, !.quiet = TRUE]
  OBVIOUS
<1>4. /\ row \in Key /\ row.state = "active" /\ row.owner = r.user /\ row.stray = r.late
      /\ done \in Request /\ done.stage = "answer" /\ done.user = r.user /\ done.key = k
      /\ done.file = r.file
  BY <1>1, <1>2, <1>3 DEF Key, Request
<1>5. /\ key[k].state = "unborn" /\ key' = [key EXCEPT ![k] = row] /\ made' = Append(made, k)
      /\ request' = Disturb(w, "answer", done)
      /\ UNCHANGED <<user, session, issued, astray, files, open, told, sent, restarts>>
  BY <1>0, <1>2, <1>3 DEF InsertKey, Memory
<1>6. /\ key \in [Keys -> Key] /\ made \in Seq(Keys) /\ IsInjective(made)
      /\ \A n \in DOMAIN made : key[made[n]].state # "unborn"
  BY DEF IInv, TypeOK
<1>7. /\ key' \in [Keys -> Key] /\ key'[k] = row /\ \A x \in Keys \ {k} : key'[x] = key[x]
  BY <1>4, <1>5, <1>6
<1>8. /\ made' \in Seq(Keys) /\ DOMAIN made' = 1..(Len(made) + 1) /\ made'[Len(made) + 1] = k
      /\ DOMAIN made = 1..Len(made) /\ Len(made) \in Nat
      /\ \A n \in DOMAIN made : made'[n] = made[n] /\ made[n] \in Keys /\ made[n] # k
  BY <1>5, <1>6
<1>9. IsInjective(made')
  BY <1>6, <1>8 DEF IsInjective
<1>10. \A n \in DOMAIN made' : key'[made'[n]].state # "unborn"
  BY <1>4, <1>6, <1>7, <1>8
<1>11. \A x : x # r.user => Newest(x)' = Newest(x)
  <2> SUFFICES ASSUME NEW x, x # r.user PROVE OwnKeys(x)' = OwnKeys(x)
    <3>1. ASSUME NEW x, OwnKeys(x)' = OwnKeys(x) PROVE Newest(x)' = Newest(x)
      BY <1>8, <3>1 DEF Newest, OwnKeys
    <3> QED
      BY <3>1
  <2>1. \A n \in DOMAIN made : made[n] \in Stored' <=> made[n] \in Stored
    BY <1>7, <1>8 DEF Stored
  <2>2. Len(made) + 1 \notin OwnKeys(x)'
    BY <1>4, <1>7, <1>8 DEF OwnKeys
  <2> QED
    BY <1>7, <1>8, <2>1, <2>2 DEF OwnKeys
<1>12. Newest(r.user)' \subseteq {k}
  <2>1. k \in Stored'
    BY <1>4, <1>7 DEF Stored
  <2>2. Len(made) + 1 \in OwnKeys(r.user)'
    BY <1>4, <1>7, <1>8, <2>1 DEF OwnKeys
  <2>3. OwnKeys(r.user)' \subseteq 1..(Len(made) + 1)
    BY <1>8 DEF OwnKeys
  <2> QED
    BY <1>8, <2>2, <2>3 DEF Newest
<1>13. UsersGrow /\ KeysGrow
  BY <1>5, <1>7 DEF UsersGrow, KeysGrow
<1>14. ASSUME NEW s \in Request, Promise(s),
              s.stage = "answer" /\ s.user = request[w].user => ~s.quiet
       PROVE  Promise(s)'
  <2>1. CASE s.stage = "answer" /\ s.user = r.user
    BY <1>0, <1>14, <2>1 DEF Promise
  <2>2. CASE ~(s.stage = "answer" /\ s.user = r.user)
    <3>1. s.stage = "answer" => Newest(s.user)' = Newest(s.user)
      BY <1>11, <2>2
    <3> QED
      BY <1>5, <1>13, <1>14, <3>1, PromiseKept
  <2> QED
    BY <2>1, <2>2
<1>15. Promise(done)'
  BY <1>1, <1>4, <1>12 DEF Promise
<1>16. /\ request' \in [Workers -> Request] /\ (\A x \in Workers : Promise(request[x]))'
       /\ \A x \in Workers : At(x, "clear") => At(x, "clear")'
       /\ \A x \in Workers : request'[x].file \in files \cup {NoBackup, request[x].file}
  BY <1>0, <1>4, <1>5, <1>14, <1>15, DisturbKeeps
<1>17. OrphansAreOvertaken'
  BY <1>1, <1>4, <1>5, <1>7 DEF OrphansAreOvertaken, IInv, Stored, Live
<1>18. \A x \in Keys : key'[x].state # "unborn" => key'[x].owner \in Users
  BY <1>1, <1>4, <1>7 DEF IInv
<1>19. Lasting
  BY <1>13, GrowthLasts
<1> QED
  BY <1>5, <1>7, <1>8, <1>9, <1>10, <1>16, <1>17, <1>18, <1>19, KeyStepKeeps

\* A stored key changes, and the keys of each account stay the same.
LEMMA SameKeys ==
  ASSUME IInv, UNCHANGED made, KeysGrow, Stored' = Stored
  PROVE  \A x : Newest(x)' = Newest(x)
<1>1. \A n \in DOMAIN made : made[n] \in Keys
  BY DEF IInv, TypeOK
<1>2. \A k \in Stored : key'[k].owner = key[k].owner
  BY DEF KeysGrow, Stored
<1>3. ASSUME NEW x PROVE OwnKeys(x)' = OwnKeys(x)
  BY <1>2 DEF OwnKeys
<1> QED
  BY <1>3 DEF Newest

LEMMA StoreRevocationKeeps ==
  ASSUME IInv, NEW w \in Workers, StoreRevocation(w)
  PROVE  IInv'
<1>0. PICK r \in Request : /\ r = request[w] /\ Promise(r) /\ r.stage = "revoke"
  BY DEF IInv, TypeOK, StoreRevocation, At, Promise, Live, Accounts, Stored, Newest, OwnKeys
<1>1. r.key \in Keys
  BY <1>0 DEF Promise
<1>2. /\ request' = [request EXCEPT ![w] = Idle]
      /\ UNCHANGED <<user, made, session, issued, astray, files, open, told, sent, restarts>>
  BY DEF StoreRevocation, Continue, Memory
<1>3. key \in [Keys -> Key]
  BY DEF IInv, TypeOK
<1>4. /\ key' \in [Keys -> Key] /\ Stored' = Stored /\ KeysGrow
      /\ \A k \in Keys : /\ key'[k].stray = key[k].stray /\ key'[k].owner = key[k].owner
                         /\ key'[k].state # "unborn" => key[k].state # "unborn"
  <2>1. CASE r.key \notin Stored
    <3>1. key' = key
      BY <1>0, <2>1 DEF StoreRevocation
    <3> QED
      BY <1>3, <3>1 DEF Stored, KeysGrow
  <2>2. CASE r.key \in Stored
    <3>1. PICK row : row = [key[r.key] EXCEPT !.state = "revoked"]
      OBVIOUS
    <3>2. /\ row \in Key /\ row.state = "revoked" /\ row.owner = key[r.key].owner
          /\ row.stray = key[r.key].stray
      BY <1>1, <1>3, <3>1 DEF Key
    <3>3. key' = [key EXCEPT ![r.key] = row]
      BY <1>0, <2>2, <3>1 DEF StoreRevocation
    <3>4. key'[r.key] = row /\ (\A k \in Keys \ {r.key} : key'[k] = key[k])
      BY <1>1, <1>3, <3>3
    <3>5. Stored' = Stored
      BY <1>1, <2>2, <3>2, <3>4 DEF Stored
    <3>6. KeysGrow
      BY <1>1, <2>2, <3>2, <3>4 DEF KeysGrow, Stored
    <3>7. key[r.key].state # "unborn"
      BY <2>2 DEF Stored
    <3> QED
      BY <1>1, <1>3, <3>2, <3>3, <3>4, <3>5, <3>6, <3>7
  <2> QED
    BY <2>1, <2>2
<1>5. UsersGrow /\ \A x : Newest(x)' = Newest(x)
  BY <1>2, <1>4, SameKeys DEF UsersGrow
<1>6. \A s \in Request : Promise(s) => Promise(s)'
  BY <1>2, <1>4, <1>5, PromiseKept
<1>7. Promise(Idle)' /\ Idle \in Request
  BY IdleTyped DEF Promise, Idle
<1>8. request' \in [Workers -> Request] /\ (\A x \in Workers : Promise(request[x]))'
  BY <1>2, <1>6, <1>7, Requests
<1>9. \A x \in Workers : At(x, "clear") => At(x, "clear")'
  BY <1>0, <1>2 DEF At, IInv, TypeOK
<1>10. OrphansAreOvertaken'
  BY <1>2, <1>4 DEF OrphansAreOvertaken, IInv, Stored, Live
<1>11. made \in Seq(Keys) /\ IsInjective(made)
  BY DEF IInv, TypeOK
<1>12. \A n \in DOMAIN made' : key'[made'[n]].state # "unborn"
  BY <1>2, <1>4, <1>11 DEF IInv, KeysGrow
<1>13. \A x \in Workers : request'[x].file \in files \cup {NoBackup, request[x].file}
  BY <1>2, IdleTyped DEF IInv, TypeOK
<1>14. \A k \in Keys : key'[k].state # "unborn" => key'[k].owner \in Users
  BY <1>4 DEF IInv
<1>15. Lasting
  BY <1>4, <1>5, GrowthLasts
<1> QED
  BY <1>2, <1>4, <1>8, <1>9, <1>10, <1>11, <1>12, <1>13, <1>14, <1>15, KeyStepKeeps

LEMMA DeleteKeyKeeps ==
  ASSUME IInv, NEW w \in Workers, DeleteKey(w)
  PROVE  IInv'
<1>0. PICK r \in Request : /\ r = request[w] /\ Promise(r) /\ r.stage = "purge"
  BY DEF IInv, TypeOK, DeleteKey, At, Promise, Live, Accounts, Stored, Newest, OwnKeys
<1>1. /\ r.key \in Keys /\ r.user \in Users /\ key[r.key].owner = r.user
      /\ key[r.key].state # "unborn"
  BY <1>0 DEF Promise
<1>2. /\ request' = Disturb(w, "answer", Idle)
      /\ UNCHANGED <<user, made, session, issued, astray, files, open, told, sent, restarts>>
  BY DEF DeleteKey, Memory
<1>3. key \in [Keys -> Key]
  BY DEF IInv, TypeOK
<1>4. /\ key' \in [Keys -> Key] /\ Stored' = Stored \ {r.key}
      /\ key'[r.key].state = "gone" /\ key'[r.key].owner = r.user
      /\ \A k \in Keys \ {r.key} : key'[k] = key[k]
  <2>1. CASE r.key \notin Stored
    <3>1. key' = key
      BY <1>0, <2>1 DEF DeleteKey
    <3> QED
      BY <1>1, <1>3, <2>1, <3>1 DEF Stored, Key
  <2>2. CASE r.key \in Stored
    <3>1. PICK row : row = GoneKey(key[r.key])
      OBVIOUS
    <3>2. row \in Key /\ row.state = "gone" /\ row.owner = key[r.key].owner
      BY <1>1, <1>3, <3>1 DEF Key, UnbornKey, GoneKey
    <3>3. key' = [key EXCEPT ![r.key] = row]
      BY <1>0, <1>1, <1>3, <2>2, <3>1 DEF DeleteKey
    <3>4. key'[r.key] = row /\ (\A k \in Keys \ {r.key} : key'[k] = key[k])
      BY <1>1, <1>3, <3>3
    <3> QED
      BY <1>1, <1>3, <3>2, <3>3, <3>4 DEF Stored
  <2> QED
    BY <2>1, <2>2
<1>5. UsersGrow /\ Lasting
  BY <1>1, <1>2, <1>4 DEF UsersGrow, Lasting
<1>6. \A x : x # r.user => Newest(x)' = Newest(x)
  <2>1. ASSUME NEW x, x # r.user PROVE OwnKeys(x)' = OwnKeys(x)
    <3>1. \A n \in DOMAIN made : made[n] \in Keys
      BY DEF IInv, TypeOK
    <3> QED
      BY <1>1, <1>2, <1>4, <2>1, <3>1 DEF OwnKeys
  <2> QED
    BY <1>2, <2>1 DEF Newest
<1>7. ASSUME NEW s \in Request, Promise(s),
             s.stage = "answer" /\ s.user = request[w].user => ~s.quiet
      PROVE  Promise(s)'
  <2>1. CASE s.stage = "answer"
    BY <1>0, <1>6, <1>7, <2>1 DEF Promise
  <2>2. CASE s.stage \in {"revoke", "purge"}
    BY <1>1, <1>4, <1>7, <2>2 DEF Promise
  <2>3. CASE s.stage \notin {"answer", "revoke", "purge"}
    BY <1>2, <1>7, <2>3 DEF Promise, Live, Accounts
  <2> QED
    BY <2>1, <2>2, <2>3
<1>8. Promise(Idle)' /\ Idle \in Request /\ Idle.stage # "clear" /\ Idle.file = NoBackup
  BY IdleTyped DEF Promise, Idle
<1>9. /\ request' \in [Workers -> Request] /\ (\A x \in Workers : Promise(request[x]))'
      /\ \A x \in Workers : At(x, "clear") => At(x, "clear")'
      /\ \A x \in Workers : request'[x].file \in files \cup {NoBackup, request[x].file}
  BY <1>0, <1>2, <1>7, <1>8, DisturbKeeps
<1>10. OrphansAreOvertaken'
  BY <1>2, <1>4 DEF OrphansAreOvertaken, IInv, Stored, Live
<1>11. made \in Seq(Keys) /\ IsInjective(made)
  BY DEF IInv, TypeOK
<1>12. \A n \in DOMAIN made' : key'[made'[n]].state # "unborn"
  BY <1>2, <1>5, <1>11 DEF IInv, Lasting
<1>13. \A k \in Keys : key'[k].state # "unborn" => key'[k].owner \in Users
  BY <1>1, <1>4 DEF IInv
<1> QED
  BY <1>2, <1>4, <1>5, <1>9, <1>10, <1>11, <1>12, <1>13, KeyStepKeeps

LEMMA ExpireKeeps ==
  ASSUME IInv, NEW k \in Keys, Expire(k)
  PROVE  IInv'
<1>1. PICK row : row = [key[k] EXCEPT !.expired = TRUE]
  OBVIOUS
<1>2. key \in [Keys -> Key] /\ made \in Seq(Keys) /\ IsInjective(made)
  BY DEF IInv, TypeOK
<1>3. /\ row \in Key /\ row.state = key[k].state /\ row.owner = key[k].owner
      /\ row.stray = key[k].stray
  BY <1>1, <1>2 DEF Key
<1>4. /\ key' = [key EXCEPT ![k] = row]
      /\ UNCHANGED <<user, made, session, issued, astray, files, open, request, told, sent, restarts>>
  BY <1>1, <1>2 DEF Expire, Memory
<1>5. /\ key' \in [Keys -> Key]
      /\ \A x \in Keys : /\ key'[x].state = key[x].state /\ key'[x].owner = key[x].owner
                         /\ key'[x].stray = key[x].stray
  BY <1>2, <1>3, <1>4
<1>6. UsersGrow /\ KeysGrow /\ Stored' = Stored
  BY <1>4, <1>5 DEF UsersGrow, KeysGrow, Stored
<1>7. \A s \in Request : Promise(s) => Promise(s)'
  BY <1>4, <1>6, SameKeys, PromiseKept
<1>8. request' \in [Workers -> Request] /\ (\A x \in Workers : Promise(request[x]))'
  <2>1. ASSUME NEW x \in Workers PROVE Promise(request[x])'
    <3>1. PICK s \in Request : s = request[x] /\ Promise(s)
      BY DEF IInv, TypeOK, Promise, Live, Accounts, Stored, Newest, OwnKeys
    <3>2. Promise(s)' /\ request'[x] = s
      BY <1>4, <1>7, <3>1
    <3> QED
      BY <3>2 DEF Promise, Live, Accounts, Stored, Newest, OwnKeys
  <2> QED
    BY <1>4, <2>1 DEF IInv, TypeOK
<1>9. \A x \in Workers : At(x, "clear") => At(x, "clear")'
  BY <1>4 DEF At
<1>10. OrphansAreOvertaken'
  BY <1>4, <1>5, <1>6 DEF OrphansAreOvertaken, IInv, Stored, Live
<1>11. \A n \in DOMAIN made' : key'[made'[n]].state # "unborn"
  BY <1>2, <1>4, <1>5 DEF IInv
<1>12. \A x \in Keys : key'[x].state # "unborn" => key'[x].owner \in Users
  BY <1>5 DEF IInv
<1>13. \A x \in Workers : request'[x].file \in files \cup {NoBackup, request[x].file}
  BY <1>4
<1> QED
  BY <1>2, <1>4, <1>5, <1>6, <1>8, <1>9, <1>10, <1>11, <1>12, <1>13, GrowthLasts, KeyStepKeeps

LEMMA AnswerKeyKeeps ==
  ASSUME IInv, NEW w \in Workers, AnswerKey(w)
  PROVE  IInv'
<1>0. PICK r \in Request : /\ r = request[w] /\ Promise(r) /\ r.stage = "answer"
  BY DEF IInv, TypeOK, AnswerKey, At, Promise, Live, Accounts, Stored, Newest, OwnKeys
<1>1. PICK news : news = {[key |-> r.key, as |-> k, quiet |-> r.quiet] : k \in Newest(r.user)}
  OBVIOUS
<1>2. /\ told' = told \cup news /\ request' = [request EXCEPT ![w] = Idle]
      /\ UNCHANGED <<user, key, made, session, issued, astray, files, open, sent, restarts>>
  BY <1>0, <1>1 DEF AnswerKey, Continue, Rows, Memory
<1>3. r.key \in Keys /\ (r.quiet => Newest(r.user) \subseteq {r.key}) /\ r.quiet \in BOOLEAN
  BY <1>0 DEF Promise, Request
<1>4. Newest(r.user) \subseteq Keys
  BY DEF Newest, OwnKeys, Stored
<1>5. news \subseteq Announcement /\ \A t \in news : t.quiet => t.as = t.key
  BY <1>1, <1>3, <1>4 DEF Announcement
<1>6. Promise(Idle)' /\ Idle \in Request
  BY IdleTyped DEF Promise, Idle
<1>7. \A s \in Request : Promise(s) => Promise(s)'
  BY <1>2, PromiseStable DEF Rows
<1>8. request' \in [Workers -> Request] /\ (\A x \in Workers : Promise(request[x]))'
  BY <1>2, <1>6, <1>7, Requests
<1>9. SessionsMatch'
  BY <1>0, <1>2, <1>6, SessionsKept DEF Live
<1>10. TypeOK'
  BY <1>2, <1>5, <1>8 DEF IInv, TypeOK
<1>11. KeysAreAnnouncedAsThemselves'
  BY <1>2, <1>5 DEF IInv, KeysAreAnnouncedAsThemselves
<1>12. FilesFit'
  <2>1. Lasting
    BY <1>2 DEF Lasting
  <2>2. \A x \in Workers : request'[x].file \in files \cup {NoBackup, request[x].file}
    BY <1>2, IdleTyped DEF IInv, TypeOK
  <2> QED
    BY <1>2, <2>1, <2>2, FilesStay
<1> QED
  BY <1>2, <1>8, <1>9, <1>10, <1>11, <1>12 DEF IInv, AdminUnlessOvertaken, AdminsAreFounders,
     OrphansAreOvertaken, Accounts, Live, Stored

-----------------------------------------------------------------------------
(* Steps that change sessions, the factory reset and the process.          *)

\* What a step on sessions leaves to be shown.
LEMMA SessionStepKeeps ==
  ASSUME IInv, UNCHANGED <<user, key, made, files, told>>,
         \A x \in Workers : request'[x].file \in files \cup {NoBackup, request[x].file},
         session' \in [Sessions -> Users \cup {None}], issued' \subseteq Sessions,
         astray' \subseteq Sessions, open' \in BOOLEAN,
         sent' \in 0..MaxRequests, restarts' \in 0..MaxRestarts,
         request' \in [Workers -> Request], (\A x \in Workers : Promise(request[x]))',
         SessionsMatch'
  PROVE  IInv'
<1>1. TypeOK'
  BY DEF IInv, TypeOK
<1>2. FilesFit'
  BY FilesStay DEF Lasting
<1> QED
  BY <1>1, <1>2 DEF IInv, AdminUnlessOvertaken, AdminsAreFounders, OrphansAreOvertaken,
     KeysAreAnnouncedAsThemselves, Accounts, Live, Stored

LEMMA Idles ==
  ASSUME IInv, NEW w \in Workers, request' = [request EXCEPT ![w] = Idle],
         UNCHANGED <<user, key, made>>
  PROVE  /\ request' \in [Workers -> Request] /\ (\A x \in Workers : Promise(request[x]))'
         /\ \A x \in Workers : request'[x].file \in files \cup {NoBackup, request[x].file}
<1>1. Promise(Idle)' /\ Idle \in Request
  BY IdleTyped DEF Promise, Idle
<1>2. \A s \in Request : Promise(s) => Promise(s)'
  BY PromiseStable DEF Rows
<1>3. \A x \in Workers : request'[x].file \in files \cup {NoBackup, request[x].file}
  BY IdleTyped DEF IInv, TypeOK
<1> QED
  BY <1>1, <1>2, <1>3, Requests

LEMMA CreateSessionKeeps ==
  ASSUME IInv, NEW w \in Workers, NEW s \in Sessions, CreateSession(w, s)
  PROVE  IInv'
<1>0. PICK r \in Request : /\ r = request[w] /\ Promise(r) /\ r.stage = "session"
  BY DEF IInv, TypeOK, CreateSession, At, Promise, Live, Accounts, Stored, Newest, OwnKeys
<1>1. r.user \in Users /\ (~r.late => Live(r.user))
  BY <1>0 DEF Promise
<1>2. /\ session' = [session EXCEPT ![s] = r.user] /\ issued' = issued \cup {s}
      /\ astray' = (IF r.late THEN astray \cup {s} ELSE astray)
      /\ request' = [request EXCEPT ![w] = Idle]
      /\ UNCHANGED <<user, key, made, files, open, told, sent, restarts>>
  BY <1>0 DEF CreateSession, Continue, Rows
<1>3. /\ session \in [Sessions -> Users \cup {None}] /\ issued \subseteq Sessions
      /\ astray \subseteq Sessions /\ request \in [Workers -> Request]
      /\ open \in BOOLEAN /\ sent \in 0..MaxRequests /\ restarts \in 0..MaxRestarts
  BY DEF IInv, TypeOK
<1>4. SessionsMatch'
  <2>1. CASE \E x \in Workers : At(x, "clear")
    <3>1. PICK x \in Workers : At(x, "clear")
      BY <2>1
    <3>2. At(x, "clear")'
      BY <1>0, <1>2, <1>3, <3>1 DEF At
    <3> QED
      BY <3>2 DEF SessionsMatch
  <2>2. CASE ~\E x \in Workers : At(x, "clear")
    <3>1. \A x \in Sessions \ astray : session[x] # None => Live(session[x])
      BY <2>2 DEF IInv, SessionsMatch
    <3>2. ASSUME NEW x \in Sessions \ astray', session'[x] # None PROVE Live(session'[x])
      BY <1>1, <1>2, <1>3, <3>1, <3>2
    <3> QED
      BY <1>2, <3>2 DEF SessionsMatch, Live
  <2> QED
    BY <2>1, <2>2
<1> QED
  BY <1>1, <1>2, <1>3, <1>4, Idles, SessionStepKeeps

LEMMA LogoutKeeps ==
  ASSUME IInv, NEW w \in Workers, NEW s \in Sessions, Logout(w, s)
  PROVE  IInv'
<1>1. /\ session' = [session EXCEPT ![s] = None] /\ Start(w, Idle)
      /\ UNCHANGED <<user, key, made, issued, astray, files, open, told>>
  BY DEF Logout, Rows
<1>2. /\ request' = [request EXCEPT ![w] = Idle] /\ request[w].stage # "clear"
      /\ sent' \in 0..MaxRequests /\ UNCHANGED restarts
  BY <1>1, StartTyped DEF IInv
<1>3. /\ session \in [Sessions -> Users \cup {None}] /\ issued \subseteq Sessions
      /\ astray \subseteq Sessions /\ request \in [Workers -> Request]
      /\ open \in BOOLEAN /\ restarts \in 0..MaxRestarts
  BY DEF IInv, TypeOK
<1>4. SessionsMatch'
  <2>1. CASE \E x \in Workers : At(x, "clear")
    <3>1. PICK x \in Workers : At(x, "clear")
      BY <2>1
    <3>2. At(x, "clear")'
      BY <1>2, <1>3, <3>1 DEF At
    <3> QED
      BY <3>2 DEF SessionsMatch
  <2>2. CASE ~\E x \in Workers : At(x, "clear")
    <3>1. \A x \in Sessions \ astray : session[x] # None => Live(session[x])
      BY <2>2 DEF IInv, SessionsMatch
    <3>2. ASSUME NEW x \in Sessions \ astray', session'[x] # None PROVE Live(session'[x])
      BY <1>1, <1>3, <3>1, <3>2
    <3> QED
      BY <1>1, <3>2 DEF SessionsMatch, Live
  <2> QED
    BY <2>1, <2>2
<1> QED
  BY <1>1, <1>2, <1>3, <1>4, Idles, SessionStepKeeps

LEMMA ClearSessionsKeeps ==
  ASSUME IInv, NEW w \in Workers, ClearSessions(w)
  PROVE  IInv'
<1>1. /\ session' = [s \in Sessions |-> None] /\ request' = [request EXCEPT ![w] = Idle]
      /\ UNCHANGED <<user, key, made, issued, astray, files, open, told, sent, restarts>>
  BY DEF ClearSessions, ClearAllSessions, Continue, Rows
<1>2. SessionsMatch'
  BY <1>1 DEF SessionsMatch
<1>3. /\ issued \subseteq Sessions /\ astray \subseteq Sessions
      /\ open \in BOOLEAN /\ sent \in 0..MaxRequests /\ restarts \in 0..MaxRestarts
  BY DEF IInv, TypeOK
<1> QED
  BY <1>1, <1>2, <1>3, Idles, SessionStepKeeps

LEMMA RestartKeeps ==
  ASSUME IInv, Restart
  PROVE  IInv'
<1>1. /\ session' = [s \in Sessions |-> None] /\ open' \in BOOLEAN
      /\ request' = [w \in Workers |-> Idle]
      /\ UNCHANGED <<user, key, made, issued, astray, files, told, sent>>
  BY DEF Restart, Rows
<1>2. SessionsMatch'
  BY <1>1 DEF SessionsMatch
<1>3. /\ issued \subseteq Sessions /\ astray \subseteq Sessions
      /\ sent \in 0..MaxRequests /\ restarts' \in 0..MaxRestarts
  BY BoundsAssumption DEF IInv, TypeOK, Restart
<1>4. Promise(Idle)' /\ Idle \in Request
  BY IdleTyped DEF Promise, Idle
<1>5. request' \in [Workers -> Request] /\ (\A x \in Workers : Promise(request[x]))'
  <2>1. ASSUME NEW x \in Workers PROVE Promise(request[x])'
    <3>1. request'[x].stage = "idle"
      BY <1>1 DEF Idle
    <3> QED
      BY <3>1 DEF Promise
  <2> QED
    BY <1>1, <1>4, <2>1
<1>6. \A x \in Workers : request'[x].file \in files \cup {NoBackup, request[x].file}
  BY <1>1, IdleTyped
<1> QED
  BY <1>1, <1>2, <1>3, <1>5, <1>6, SessionStepKeeps

-----------------------------------------------------------------------------
(* Backups, and what replaces everything.                                  *)

LEMMA ReadUsersKeeps ==
  ASSUME IInv, NEW w \in Workers, ReadUsers(w)
  PROVE  IInv'
<1>0. PICK r \in Request : /\ r = request[w] /\ r.stage = "users"
  BY DEF IInv, TypeOK, ReadUsers, At
<1>1. PICK us : us = [u \in Users |-> IF Live(u) THEN user[u] ELSE UnbornUser]
  OBVIOUS
<1>2. PICK done : done = [r EXCEPT !.stage = "keys", !.file.user = us]
  OBVIOUS
<1>3. /\ request' = [request EXCEPT ![w] = done]
      /\ UNCHANGED <<user, key, made, session, issued, astray, files, open, told, sent, restarts>>
  BY <1>0, <1>1, <1>2 DEF ReadUsers, Continue, Rows, Memory
<1>4. user \in [Users -> User] /\ key \in [Keys -> Key]
  BY DEF IInv, TypeOK
<1>5. /\ us \in [Users -> User]
      /\ \A u \in Users : us[u].state = "live" => Live(u) /\ us[u] = user[u]
      /\ \A u \in Users : Live(u) => us[u] = user[u]
  BY <1>1, <1>4, RowsTyped
<1>6. Fits(r.file)
  BY <1>0 DEF IInv, FilesFit, Fits, Has
<1>7. r.file \in Backup /\ r.file.key \in [Keys -> Key]
  BY <1>6 DEF Fits, Backup
<1>8. /\ done \in Request /\ done.stage = "keys" /\ done.file \in Backup
      /\ done.file.user = us /\ done.file.key = r.file.key
  BY <1>2, <1>5, <1>7 DEF Request, Backup
<1>9. PICK f : f = done.file
  OBVIOUS
<1>10. Fits(f)
  <2>1. ASSUME NEW u \in Users, Has(f, u)
        PROVE  /\ Live(u) /\ f.user[u] = user[u] /\ user[u].state # "unborn"
               /\ f.user[u].email # None /\ f.user[u].password # None /\ f.user[u].role # None
               /\ f.user[u].admin => f.user[u].founder
    <3>1. Live(u) /\ f.user[u] = user[u] /\ user[u].state = "live"
      BY <1>5, <1>8, <1>9, <2>1 DEF Has, Live
    <3> QED
      BY <3>1 DEF IInv, TypeOK, AdminsAreFounders, Accounts
  <2>2. ASSUME NEW u \in Users, Has(f, u)
        PROVE  \E x \in Users : Has(f, x) /\ (f.user[x].admin \/ f.user[x].stray)
    <3>1. u \in Accounts
      BY <2>1, <2>2 DEF Accounts
    <3>2. PICK x \in Accounts : user[x].admin \/ user[x].stray
      BY <3>1 DEF IInv, AdminUnlessOvertaken
    <3>3. x \in Users /\ Live(x) /\ user[x].state = "live"
      BY DEF Accounts, Live
    <3>4. f.user[x] = user[x]
      BY <1>5, <1>8, <1>9, <3>3
    <3> QED
      BY <3>2, <3>3, <3>4 DEF Has
  <2>3. ASSUME NEW k \in Keys, f.key[k].state \in {"active", "revoked"}
        PROVE  key[k].state # "unborn" /\ key[k].owner = f.key[k].owner
    BY <1>6, <1>8, <1>9, <2>3 DEF Fits
  <2> QED
    BY <1>8, <1>9, <2>1, <2>2, <2>3 DEF Fits
<1>11. Promise(done)'
  BY <1>8 DEF Promise
<1>12. request' \in [Workers -> Request] /\ (\A x \in Workers : Promise(request[x]))'
  BY <1>3, <1>8, <1>11, PromiseStable, Requests DEF Rows
<1>13. FilesFit'
  <2>1. Fits(f)'
    BY <1>3, <1>10 DEF Fits, Has
  <2>2. ASSUME NEW x \in Workers PROVE Fits(request[x].file)'
    <3>1. CASE x = w
      <4>1. request'[x].file = f
        BY <1>3, <1>9, <3>1 DEF IInv, TypeOK
      <4> QED
        BY <2>1, <4>1 DEF Fits, Has
    <3>2. CASE x # w
      <4>1. request'[x].file = request[x].file
        BY <1>3, <3>2 DEF IInv, TypeOK
      <4> QED
        BY <1>3, <4>1 DEF IInv, FilesFit, Fits, Has
    <3> QED
      BY <3>1, <3>2
  <2> QED
    BY <1>3, <2>2 DEF IInv, FilesFit, Fits, Has
<1>14. TypeOK'
  BY <1>3, <1>12 DEF IInv, TypeOK
<1>15. SessionsMatch'
  BY <1>0, <1>3, <1>8, SessionsKept DEF Live
<1> QED
  BY <1>3, <1>12, <1>13, <1>14, <1>15 DEF IInv, AdminUnlessOvertaken, AdminsAreFounders,
     OrphansAreOvertaken, KeysAreAnnouncedAsThemselves, Accounts, Live, Stored

LEMMA ReadKeysKeeps ==
  ASSUME IInv, NEW w \in Workers, ReadKeys(w)
  PROVE  IInv'
<1>1. PICK ks : ks = [k \in Keys |-> IF k \in Stored THEN key[k] ELSE UnbornKey]
  OBVIOUS
<1>2. PICK f : f = request[w].file
  OBVIOUS
<1>3. PICK g : g = [f EXCEPT !.key = ks]
  OBVIOUS
<1>4. /\ files' = files \cup {g} /\ request' = [request EXCEPT ![w] = Idle]
      /\ UNCHANGED <<user, key, made, session, issued, astray, open, told, sent, restarts>>
  BY <1>1, <1>2, <1>3 DEF ReadKeys, Continue, Rows
<1>5. user \in [Users -> User] /\ key \in [Keys -> Key]
  BY DEF IInv, TypeOK
<1>6. /\ ks \in [Keys -> Key]
      /\ \A k \in Keys : ks[k].state \in {"active", "revoked"} =>
           key[k].state # "unborn" /\ ks[k] = key[k]
  BY <1>1, <1>5, RowsTyped DEF Stored
<1>7. Fits(f)
  BY <1>2 DEF IInv, FilesFit, Fits, Has
<1>8. g \in Backup /\ g.user = f.user /\ g.key = ks
  BY <1>3, <1>6, <1>7 DEF Fits, Backup
<1>9. Fits(g)
  BY <1>6, <1>7, <1>8 DEF Fits, Has
<1>10. request' \in [Workers -> Request] /\ (\A x \in Workers : Promise(request[x]))'
       /\ \A x \in Workers : request'[x].file \in {NoBackup, request[x].file}
  <2>1. \A x \in Workers : request'[x].file \in {NoBackup, request[x].file}
    BY <1>4, IdleTyped DEF IInv, TypeOK
  <2> QED
    BY <1>4, <2>1, Idles
<1>11. FilesFit'
  <2>1. Fits(NoBackup)' /\ Fits(g)'
    BY <1>4, <1>9, NoBackupFits DEF Fits, Has
  <2>2. ASSUME NEW x \in Workers PROVE Fits(request[x].file)'
    <3>1. CASE request'[x].file = NoBackup
      BY <2>1, <3>1 DEF Fits, Has
    <3>2. CASE request'[x].file = request[x].file
      BY <1>4, <3>2 DEF IInv, FilesFit, Fits, Has
    <3> QED
      BY <1>10, <3>1, <3>2
  <2>3. ASSUME NEW h \in files' PROVE Fits(h)'
    <3>1. CASE h = g
      BY <2>1, <3>1 DEF Fits, Has
    <3>2. CASE h \in files
      BY <1>4, <3>2 DEF IInv, FilesFit, Fits, Has
    <3> QED
      BY <1>4, <2>3, <3>1, <3>2
  <2> QED
    BY <2>2, <2>3 DEF FilesFit
<1>12. TypeOK'
  BY <1>4, <1>8, <1>10 DEF IInv, TypeOK
<1>13. SessionsMatch'
  <2>1. request[w].stage # "clear"
    BY DEF ReadKeys, At
  <2> QED
    BY <1>4, <2>1, IdleTyped, SessionsKept DEF Live
<1> QED
  BY <1>4, <1>10, <1>11, <1>12, <1>13 DEF IInv, AdminUnlessOvertaken, AdminsAreFounders,
     OrphansAreOvertaken, KeysAreAnnouncedAsThemselves, Accounts, Live, Stored

\* What a request keeps when a reset or an import has overtaken it.
LEMMA Overtaken ==
  ASSUME NEW q \in Request, NEW d, d = [q EXCEPT !.late = TRUE, !.quiet = FALSE]
  PROVE  /\ d \in Request /\ d.stage = q.stage /\ d.user = q.user /\ d.channel = q.channel
         /\ d.email = q.email /\ d.password = q.password /\ d.role = q.role /\ d.key = q.key
         /\ d.first = q.first /\ d.file = q.file /\ d.late /\ ~d.quiet
<1>1. d \in Request
  BY DEF Request
<1>2. /\ d.stage = q.stage /\ d.user = q.user /\ d.channel = q.channel
      /\ d.email = q.email /\ d.password = q.password
  BY DEF Request
<1>3. d.role = q.role /\ d.key = q.key /\ d.first = q.first /\ d.file = q.file
  BY DEF Request
<1>4. d.late /\ ~d.quiet
  BY DEF Request
<1> QED
  BY <1>1, <1>2, <1>3, <1>4

LEMMA OvertakeKeeps ==
  ASSUME IInv, NEW w \in Workers, NEW r \in Request, Promise(r)',
         r.file \in {NoBackup, request[w].file}, request' = Overtake(w, r), Lasting
  PROVE  /\ request' \in [Workers -> Request] /\ (\A x \in Workers : Promise(request[x]))'
         /\ \A x \in Workers : request'[x].file \in files \cup {NoBackup, request[x].file}
         /\ request'[w] = r /\ \A x \in Workers \ {w} : request'[x].stage = request[x].stage
<1>0. request'[w] = r
  BY DEF Overtake
<1>1. ASSUME NEW x \in Workers
      PROVE  /\ request'[x] \in Request /\ Promise(request[x])'
             /\ request'[x].file \in files \cup {NoBackup, request[x].file}
             /\ x # w => request'[x].stage = request[x].stage
  <2>1. PICK q \in Request : q = request[x] /\ Promise(q)
    BY DEF IInv, TypeOK, Promise, Live, Accounts, Stored, Newest, OwnKeys
  <2>2. CASE x = w
    BY <1>0, <2>2 DEF Promise, Live, Accounts, Stored, Newest, OwnKeys
  <2>3. CASE x # w /\ q.stage = "idle"
    <3>1. request'[x] = q
      BY <2>1, <2>3 DEF Overtake, At
    <3> QED
      BY <2>1, <2>3, <3>1 DEF Promise
  <2>4. CASE x # w /\ q.stage # "idle"
    <3>1. PICK d : d = [q EXCEPT !.late = TRUE, !.quiet = FALSE]
      OBVIOUS
    <3>2. request'[x] = d
      BY <2>1, <2>4, <3>1 DEF Overtake, At
    <3>3. /\ d \in Request /\ d.stage = q.stage /\ d.user = q.user /\ d.channel = q.channel
          /\ d.email = q.email /\ d.password = q.password /\ d.role = q.role /\ d.key = q.key
          /\ d.first = q.first /\ d.file = q.file /\ d.late /\ ~d.quiet
      BY <3>1, Overtaken
    <3>4. Promise(d)'
      <4>1. CASE d.stage \in {"count", "insert", "session", "key", "answer"}
        BY <2>1, <3>3, <4>1 DEF Promise
      <4>2. CASE d.stage = "role"
        BY <2>1, <3>3, <4>2 DEF Promise, Lasting
      <4>3. CASE d.stage \in {"revoke", "purge"}
        BY <2>1, <3>3, <4>3 DEF Promise, Lasting
      <4>4. CASE d.stage = "password"
        BY <2>1, <3>3, <4>4 DEF Promise, Lasting
      <4>5. CASE d.stage \in {"idle", "clear", "users", "keys"}
        BY <4>5 DEF Promise
      <4>6. CASE d.stage \in {"wipe", "restore"}
        BY <2>1, <3>3, <4>6 DEF Promise
      <4> QED
        BY <3>3, <4>1, <4>2, <4>3, <4>4, <4>5, <4>6 DEF Request
    <3> QED
      BY <2>1, <3>2, <3>3, <3>4 DEF Promise, Live, Accounts, Stored, Newest, OwnKeys
  <2> QED
    BY <2>2, <2>3, <2>4
<1>2. request' \in [Workers -> Request]
  BY <1>1 DEF Overtake
<1> QED
  BY <1>0, <1>1, <1>2

\* What a reset deletes, and an import before it inserts.
LEMMA GoneTyped ==
  ASSUME user \in [Users -> User], key \in [Keys -> Key]
  PROVE  /\ \A u \in Users :
              /\ GoneUsers(user)[u] \in User /\ GoneUsers(user)[u].state # "live"
              /\ user[u].state # "unborn" =>
                   /\ GoneUsers(user)[u].state # "unborn"
                   /\ GoneUsers(user)[u].founder = user[u].founder
         /\ \A k \in Keys :
              /\ GoneKeys(key)[k] \in Key /\ GoneKeys(key)[k].state \notin {"active", "revoked"}
              /\ GoneKeys(key)[k].state # "unborn" <=> key[k].state # "unborn"
              /\ key[k].state # "unborn" => GoneKeys(key)[k].owner = key[k].owner
<1>1. ASSUME NEW u \in Users
      PROVE  /\ GoneUsers(user)[u] \in User /\ GoneUsers(user)[u].state # "live"
             /\ user[u].state # "unborn" =>
                  /\ GoneUsers(user)[u].state # "unborn"
                  /\ GoneUsers(user)[u].founder = user[u].founder
  <2>1. user[u] \in User
    OBVIOUS
  <2>2. PICK row : row = [UnbornUser EXCEPT !.state = "gone", !.founder = user[u].founder]
    OBVIOUS
  <2>3. row \in User /\ row.state = "gone" /\ row.founder = user[u].founder
    BY <2>1, <2>2 DEF UnbornUser, User
  <2>4. GoneUsers(user)[u] = (IF user[u].state = "live" THEN row ELSE user[u])
    BY <2>2 DEF GoneUsers
  <2> QED
    BY <2>1, <2>3, <2>4
<1>2. ASSUME NEW k \in Keys
      PROVE  /\ GoneKeys(key)[k] \in Key /\ GoneKeys(key)[k].state \notin {"active", "revoked"}
             /\ GoneKeys(key)[k].state # "unborn" <=> key[k].state # "unborn"
             /\ key[k].state # "unborn" => GoneKeys(key)[k].owner = key[k].owner
  <2>1. key[k] \in Key
    OBVIOUS
  <2>2. PICK row : row = GoneKey(key[k])
    OBVIOUS
  <2>3. row \in Key /\ row.state = "gone" /\ row.owner = key[k].owner
    BY <2>1, <2>2 DEF GoneKey, UnbornKey, Key
  <2>4. GoneKeys(key)[k] = (IF key[k].state \in {"active", "revoked"} THEN row ELSE key[k])
    BY <2>2 DEF GoneKeys
  <2> QED
    BY <2>1, <2>3, <2>4
<1> QED
  BY <1>1, <1>2

LEMMA DeleteEverythingKeeps ==
  ASSUME IInv, NEW w \in Workers, DeleteEverything(w)
  PROVE  IInv'
<1>1. /\ user' = GoneUsers(user) /\ key' = GoneKeys(key)
      /\ UNCHANGED <<made, session, issued, astray, files, open, told, sent, restarts>>
  BY DEF DeleteEverything, Memory
<1>2. user \in [Users -> User] /\ key \in [Keys -> Key] /\ made \in Seq(Keys)
  BY DEF IInv, TypeOK
<1>3. /\ \A u \in Users : user'[u] \in User /\ user'[u].state # "live"
      /\ \A k \in Keys : /\ key'[k] \in Key /\ key'[k].state \notin {"active", "revoked"}
                         /\ key'[k].state # "unborn" => key[k].state # "unborn"
      /\ Lasting
  BY <1>1, <1>2, GoneTyped DEF Lasting
<1>4. user' \in [Users -> User] /\ key' \in [Keys -> Key]
  BY <1>1, <1>3 DEF GoneUsers, GoneKeys
<1>5. Accounts' = {} /\ Stored' = {}
  BY <1>3 DEF Accounts, Stored, Live
<1>6. PICK done : done = [request[w] EXCEPT !.stage = "clear"]
  OBVIOUS
<1>7. done \in Request /\ done.stage = "clear" /\ done.file = request[w].file
  <2>1. request[w] \in Request
    BY DEF IInv, TypeOK
  <2> QED
    BY <1>6, <2>1 DEF Request
<1>8. Promise(done)'
  BY <1>7 DEF Promise
<1>9. request' = Overtake(w, done)
  BY <1>6 DEF DeleteEverything
<1>10. /\ request' \in [Workers -> Request] /\ (\A x \in Workers : Promise(request[x]))'
       /\ \A x \in Workers : request'[x].file \in files \cup {NoBackup, request[x].file}
       /\ request'[w] = done
  BY <1>3, <1>7, <1>8, <1>9, OvertakeKeeps
<1>11. TypeOK'
  BY <1>1, <1>3, <1>4, <1>10 DEF IInv, TypeOK
<1>12. SessionsMatch'
  BY <1>7, <1>10 DEF SessionsMatch, At
<1>13. /\ (\A n \in DOMAIN made : key[made[n]].state # "unborn")'
       /\ (\A k \in Keys : key[k].state # "unborn" => key[k].owner \in Users)'
  BY <1>1, <1>2, <1>3 DEF IInv, Lasting
<1>14. AdminUnlessOvertaken' /\ AdminsAreFounders' /\ OrphansAreOvertaken'
  BY <1>5 DEF AdminUnlessOvertaken, AdminsAreFounders, OrphansAreOvertaken
<1>15. FilesFit'
  BY <1>1, <1>3, <1>10, FilesStay
<1> QED
  BY <1>1, <1>10, <1>11, <1>12, <1>13, <1>14, <1>15 DEF IInv, KeysAreAnnouncedAsThemselves

LEMMA RestoreBackupKeeps ==
  ASSUME IInv, NEW w \in Workers, RestoreBackup(w)
  PROVE  IInv'
<1>0. PICK f : f = request[w].file
  OBVIOUS
<1>1. /\ user' = RestoredUsers(f) /\ key' = RestoredKeys(f) /\ request' = Overtake(w, Idle)
      /\ astray' = astray \cup
           {s \in Sessions : session[s] # None /\ f.user[session[s]].state # "live"}
      /\ UNCHANGED <<made, session, issued, files, open, told, sent, restarts>>
  BY <1>0 DEF RestoreBackup
<1>2. /\ user \in [Users -> User] /\ key \in [Keys -> Key] /\ made \in Seq(Keys)
      /\ session \in [Sessions -> Users \cup {None}] /\ astray \subseteq Sessions
  BY DEF IInv, TypeOK
<1>3. Fits(f)
  BY <1>0 DEF IInv, FilesFit, Fits, Has
<1>4. f.user \in [Users -> User] /\ f.key \in [Keys -> Key]
  BY <1>3 DEF Fits, Backup
<1>5. ASSUME NEW u \in Users
      PROVE  /\ user'[u] \in User
             /\ user'[u].state = "live" <=> Has(f, u)
             /\ Has(f, u) => user'[u] = f.user[u]
             /\ user[u].state # "unborn" =>
                  user'[u].state # "unborn" /\ user'[u].founder = user[u].founder
  <2>1. user'[u] = IF Has(f, u) THEN f.user[u] ELSE GoneUsers(user)[u]
    BY <1>1 DEF RestoredUsers, Has
  <2>2. CASE Has(f, u)
    <3>1. user'[u] = f.user[u] /\ f.user[u].state = "live" /\ f.user[u] \in User
      BY <1>4, <2>1, <2>2 DEF Has
    <3>2. user[u].founder = f.user[u].founder
      BY <1>3, <2>2 DEF Fits
    <3> QED
      BY <2>2, <3>1, <3>2
  <2>3. CASE ~Has(f, u)
    BY <1>2, <2>1, <2>3, GoneTyped
  <2> QED
    BY <2>2, <2>3
<1>6. ASSUME NEW k \in Keys
      PROVE  /\ key'[k] \in Key
             /\ key'[k].state # "unborn" => key[k].state # "unborn"
             /\ key[k].state # "unborn" =>
                  key'[k].state # "unborn" /\ key'[k].owner = key[k].owner
             /\ key'[k].state \in {"active", "revoked"} =>
                  key'[k].stray \/ Has(f, key'[k].owner)
  <2>1. CASE f.key[k].state \in {"active", "revoked"}
    <3>1. PICK row : row = RestoredKey(f.key[k], key[k], f)
      OBVIOUS
    <3>2. key'[k] = row
      BY <1>1, <2>1, <3>1 DEF RestoredKeys
    <3>3. f.key[k] \in Key /\ key[k] \in Key
      BY <1>2, <1>4
    <3>4. /\ row \in Key /\ row.state = f.key[k].state /\ row.owner = f.key[k].owner
          /\ row.stray \/ Has(f, f.key[k].owner)
      <4>1. PICK e \in BOOLEAN : e = (f.key[k].expired \/ key[k].expired)
        BY <3>3 DEF Key
      <4>2. PICK y \in BOOLEAN : y = (f.key[k].stray \/ f.user[f.key[k].owner].state # "live")
        OBVIOUS
      <4>3. row = [f.key[k] EXCEPT !.expired = e, !.stray = y]
        BY <3>1, <4>1, <4>2 DEF RestoredKey
      <4> QED
        BY <3>3, <4>2, <4>3 DEF Key, Has
    <3>5. key[k].state # "unborn" /\ key[k].owner = f.key[k].owner
      BY <1>3, <2>1 DEF Fits
    <3> QED
      BY <2>1, <3>2, <3>4, <3>5
  <2>2. CASE f.key[k].state \notin {"active", "revoked"}
    <3>1. key'[k] = GoneKeys(key)[k]
      BY <1>1, <2>2 DEF RestoredKeys
    <3> QED
      BY <1>2, <3>1, GoneTyped
  <2> QED
    BY <2>1, <2>2
<1>7. user' \in [Users -> User] /\ key' \in [Keys -> Key]
  BY <1>1, <1>5, <1>6 DEF RestoredUsers, RestoredKeys
<1>8. Lasting
  BY <1>5, <1>6 DEF Lasting
<1>9. /\ request' \in [Workers -> Request] /\ (\A x \in Workers : Promise(request[x]))'
      /\ \A x \in Workers : request'[x].file \in files \cup {NoBackup, request[x].file}
      /\ \A x \in Workers \ {w} : request'[x].stage = request[x].stage
  <2>1. Promise(Idle)' /\ Idle \in Request /\ Idle.file = NoBackup
    BY IdleTyped DEF Promise, Idle
  <2> QED
    BY <1>1, <1>8, <2>1, OvertakeKeeps
<1>10. FilesFit'
  BY <1>1, <1>8, <1>9, FilesStay
<1>11. \A u \in Users : user'[u].state = "live" =>
         user'[u].email # None /\ user'[u].password # None /\ user'[u].role # None
  BY <1>3, <1>5 DEF Fits
<1>12. TypeOK'
  BY <1>1, <1>2, <1>7, <1>9, <1>11 DEF IInv, TypeOK
<1>13. SessionsMatch'
  <2>1. CASE \E x \in Workers : At(x, "clear")
    <3>1. PICK x \in Workers : At(x, "clear")
      BY <2>1
    <3>2. x # w
      BY <3>1 DEF RestoreBackup, At
    <3>3. At(x, "clear")'
      BY <1>9, <3>1, <3>2 DEF At
    <3> QED
      BY <3>3 DEF SessionsMatch
  <2>2. ASSUME NEW s \in Sessions \ astray', session'[s] # None PROVE Live(session[s])'
    <3>1. session[s] \in Users /\ Has(f, session[s]) /\ session'[s] = session[s]
      BY <1>1, <1>2, <2>2 DEF Has
    <3> QED
      BY <1>5, <3>1, NoneAssumption DEF Live
  <2> QED
    BY <2>1, <2>2 DEF SessionsMatch
<1>14. /\ (\A n \in DOMAIN made : key[made[n]].state # "unborn")'
       /\ (\A k \in Keys : key[k].state # "unborn" => key[k].owner \in Users)'
  BY <1>1, <1>2, <1>6 DEF IInv
<1>15. Accounts' = {u \in Users : Has(f, u)}
  BY <1>5, NoneAssumption DEF Accounts, Live
<1>16. AdminUnlessOvertaken' /\ AdminsAreFounders'
  BY <1>3, <1>5, <1>15 DEF AdminUnlessOvertaken, AdminsAreFounders, Fits
<1>17. OrphansAreOvertaken'
  <2> SUFFICES ASSUME NEW k \in Stored' PROVE Live(key[k].owner)' \/ key'[k].stray
    BY DEF OrphansAreOvertaken
  <2>1. k \in Keys /\ key'[k].state \in {"active", "revoked"} /\ key'[k].owner \in Users
    BY <1>14 DEF Stored
  <2> QED
    BY <1>5, <1>6, <2>1, NoneAssumption DEF Live
<1> QED
  BY <1>1, <1>9, <1>10, <1>12, <1>13, <1>14, <1>16, <1>17 DEF IInv, KeysAreAnnouncedAsThemselves

-----------------------------------------------------------------------------
(* The invariant.                                                          *)

\* The rows of a server as it starts, and a backup that may be there.
Fresh ==
  /\ user \in [Users -> User] /\ key \in [Keys -> Key]
  /\ \A u \in Users : user[u].state = "live" =>
       /\ user[u].email # None /\ user[u].password # None /\ user[u].role # None
       /\ user[u].admin /\ user[u].founder
  /\ made \in Seq(Keys) /\ IsInjective(made)
  /\ \A n \in DOMAIN made : key[made[n]].state # "unborn"
  /\ \A k \in Keys : key[k].state # "unborn" => key[k].owner \in Users
  /\ \A k \in Stored : Live(key[k].owner)
  /\ \A f \in files : Fits(f)

LEMMA OldTyped ==
  ASSUME NEW u \in Users, NEW k \in Keys, NEW e \in Emails, NEW p \in Passwords, NEW s \in Scopes,
         NEW old, old = OldServer(u, k, e, p, s)
  PROVE  /\ old \in Backup /\ old.user \in [Users -> User] /\ old.key \in [Keys -> Key]
         /\ old.user[u].state = "live" /\ old.user[u].email # None
         /\ old.user[u].password # None /\ old.user[u].role # None
         /\ old.user[u].admin /\ old.user[u].founder
         /\ \A x \in Users \ {u} : old.user[x].state = "unborn"
         /\ old.key[k].state = "active" /\ old.key[k].owner = u
         /\ \A x \in Keys \ {k} : old.key[x].state = "unborn"
<1>1. PICK row : row = [state |-> "live", email |-> e, password |-> p, admin |-> TRUE,
                        role |-> "admin", founder |-> TRUE, stray |-> FALSE]
  OBVIOUS
<1>2. PICK first : first = [UnbornKey EXCEPT !.state = "active", !.owner = u, !.scopes = s]
  OBVIOUS
<1>3. /\ row \in User /\ row.state = "live" /\ row.email # None /\ row.password # None
      /\ row.role # None /\ row.admin /\ row.founder
  BY <1>1, NoneAssumption, RolesAssumption DEF User
<1>4. first \in Key /\ first.state = "active" /\ first.owner = u
  BY <1>2 DEF UnbornKey, Key
<1>5. PICK us : us = [NoBackup.user EXCEPT ![u] = row]
  OBVIOUS
<1>6. PICK ks : ks = [NoBackup.key EXCEPT ![k] = first]
  OBVIOUS
<1>7. /\ us \in [Users -> User] /\ us[u] = row
      /\ \A x \in Users \ {u} : us[x].state = "unborn"
  BY <1>3, <1>5, NoBackupFits, RowsTyped DEF Backup
<1>8. /\ ks \in [Keys -> Key] /\ ks[k] = first
      /\ \A x \in Keys \ {k} : ks[x].state = "unborn"
  BY <1>4, <1>6, NoBackupFits, RowsTyped DEF Backup
<1>9. old = [user |-> us, key |-> ks]
  BY <1>1, <1>2, <1>5, <1>6 DEF OldServer
<1> QED
  BY <1>3, <1>4, <1>7, <1>8, <1>9 DEF Backup

\* A new server with the backup of an old one has its rows as gone.
LEMMA MovedServer ==
  ASSUME NEW u \in Users, NEW k \in Keys, NEW e \in Emails, NEW p \in Passwords, NEW s \in Scopes,
         NEW old, old = OldServer(u, k, e, p, s),
         user = GoneUsers(old.user), key = GoneKeys(old.key)
  PROVE  /\ user \in [Users -> User] /\ key \in [Keys -> Key]
         /\ \A x \in Users : user[x].state # "live"
         /\ user[u].state = "gone" /\ user[u].founder = old.user[u].founder
         /\ \A x \in Keys : key[x].state \notin {"active", "revoked"}
         /\ key[k].state = "gone" /\ key[k].owner = u
         /\ \A x \in Keys \ {k} : key[x].state = "unborn"
<1>1. /\ old.user \in [Users -> User] /\ old.key \in [Keys -> Key]
      /\ old.user[u].state = "live"
      /\ \A x \in Users \ {u} : old.user[x].state = "unborn"
      /\ old.key[k].state = "active" /\ old.key[k].owner = u
      /\ \A x \in Keys \ {k} : old.key[x].state = "unborn"
  BY OldTyped
<1>2. PICK row : row = [UnbornUser EXCEPT !.state = "gone", !.founder = old.user[u].founder]
  OBVIOUS
<1>3. row \in User /\ row.state = "gone" /\ row.founder = old.user[u].founder
  BY <1>1, <1>2 DEF UnbornUser, User
<1>4. /\ user[u] = row /\ \A x \in Users \ {u} : user[x] = old.user[x]
      /\ user \in [Users -> User]
  BY <1>1, <1>2, <1>3 DEF GoneUsers
<1>5. PICK last : last = GoneKey(old.key[k])
  OBVIOUS
<1>6. last \in Key /\ last.state = "gone" /\ last.owner = u
  BY <1>1, <1>5 DEF GoneKey, UnbornKey, Key
<1>7. /\ key[k] = last /\ \A x \in Keys \ {k} : key[x] = old.key[x]
      /\ key \in [Keys -> Key]
  BY <1>1, <1>5, <1>6 DEF GoneKeys
<1> QED
  BY <1>1, <1>3, <1>4, <1>6, <1>7

LEMMA StartsFresh ==
  ASSUME Init
  PROVE  Fresh
<1>1. CASE user = NoBackup.user /\ key = NoBackup.key /\ made = <<>> /\ files = {}
  <2>1. made \in Seq(Keys) /\ IsInjective(made) /\ DOMAIN made = {}
    BY <1>1 DEF IsInjective
  <2>2. /\ user \in [Users -> User] /\ key \in [Keys -> Key]
        /\ (\A u \in Users : user[u].state = "unborn")
        /\ (\A k \in Keys : key[k].state = "unborn")
    BY <1>1, NoBackupFits, RowsTyped DEF Backup
  <2> QED
    BY <1>1, <2>1, <2>2 DEF Stored, Fresh
<1>2. ASSUME NEW u \in Users, NEW k \in Keys, NEW e \in Emails, NEW p \in Passwords,
             NEW s \in Scopes, NEW old, old = OldServer(u, k, e, p, s), made = <<k>>,
             \/ user = old.user /\ key = old.key /\ files = {}
             \/ user = GoneUsers(old.user) /\ key = GoneKeys(old.key) /\ files = {old}
      PROVE  Fresh
  <2>1. /\ old \in Backup /\ old.user \in [Users -> User] /\ old.key \in [Keys -> Key]
        /\ old.user[u].state = "live" /\ old.user[u].email # None
        /\ old.user[u].password # None /\ old.user[u].role # None
        /\ old.user[u].admin /\ old.user[u].founder
        /\ \A x \in Users \ {u} : old.user[x].state = "unborn"
        /\ old.key[k].state = "active" /\ old.key[k].owner = u
        /\ \A x \in Keys \ {k} : old.key[x].state = "unborn"
    BY <1>2, OldTyped
  <2>2. made \in Seq(Keys) /\ DOMAIN made = {1} /\ made[1] = k /\ IsInjective(made)
    BY <1>2 DEF IsInjective
  <2>3. CASE user = old.user /\ key = old.key /\ files = {}
    <3>1. \A x \in Stored : x = k
      BY <2>1, <2>3 DEF Stored
    <3>2. \A x \in Stored : Live(key[x].owner)
      BY <2>1, <2>3, <3>1, NoneAssumption DEF Live
    <3>3. \A x \in Users : user[x].state = "live" => x = u
      BY <2>1, <2>3
    <3>4. \A x \in Keys : key[x].state # "unborn" => x = k
      BY <2>1, <2>3
    <3> QED
      BY <2>1, <2>2, <2>3, <3>2, <3>3, <3>4 DEF Fresh
  <2>4. CASE user = GoneUsers(old.user) /\ key = GoneKeys(old.key) /\ files = {old}
    <3>1. /\ user \in [Users -> User] /\ key \in [Keys -> Key]
          /\ \A x \in Users : user[x].state # "live"
          /\ user[u].state = "gone" /\ user[u].founder = old.user[u].founder
          /\ \A x \in Keys : key[x].state \notin {"active", "revoked"}
          /\ key[k].state = "gone" /\ key[k].owner = u
          /\ \A x \in Keys \ {k} : key[x].state = "unborn"
      BY <1>2, <2>4, MovedServer
    <3>2. Fits(old)
      <4>1. \A x \in Users : Has(old, x) => x = u
        BY <2>1 DEF Has
      <4>2. Has(old, u)
        BY <2>1 DEF Has
      <4>3. \A x \in Keys : old.key[x].state \in {"active", "revoked"} => x = k
        BY <2>1
      <4> QED
        BY <2>1, <3>1, <4>1, <4>2, <4>3 DEF Fits
    <3>3. Stored = {}
      BY <3>1 DEF Stored
    <3>4. \A x \in Keys : key[x].state # "unborn" => x = k
      BY <3>1
    <3>5. \A f \in files : f = old
      BY <2>4
    <3>6. \A f \in files : Fits(f)
      BY <3>2, <3>5 DEF Fits, Has
    <3> QED
      BY <2>2, <3>1, <3>3, <3>4, <3>6 DEF Fresh
  <2> QED
    BY <1>2, <2>3, <2>4
<1> QED
  BY <1>1, <1>2 DEF Init

LEMMA InitEstablishes ==
  ASSUME Init
  PROVE  IInv
<1>1. /\ session = [s \in Sessions |-> None] /\ issued = {} /\ astray = {} /\ open \in BOOLEAN
      /\ request = [w \in Workers |-> Idle] /\ told = {} /\ sent = 0 /\ restarts = 0
  BY DEF Init
<1>2. Fresh
  BY StartsFresh
<1>3. request \in [Workers -> Request] /\ \A w \in Workers : Promise(request[w])
  <2>1. ASSUME NEW w \in Workers PROVE Promise(request[w])
    <3>1. request[w].stage = "idle"
      BY <1>1 DEF Idle
    <3> QED
      BY <3>1 DEF Promise
  <2> QED
    BY <1>1, <2>1, IdleTyped
<1>4. SessionsMatch /\ KeysAreAnnouncedAsThemselves
  BY <1>1 DEF SessionsMatch, KeysAreAnnouncedAsThemselves
<1>5. FilesFit
  <2>1. ASSUME NEW w \in Workers PROVE Fits(request[w].file)
    <3>1. request[w].file = NoBackup
      BY <1>1, IdleTyped
    <3> QED
      BY <3>1, NoBackupFits DEF Fits, Has
  <2> QED
    BY <1>2, <2>1 DEF FilesFit, Fresh
<1>6. TypeOK
  <2>1. \A f \in files : f \in Backup
    BY <1>2 DEF Fresh, Fits
  <2> QED
    BY <1>1, <1>2, <1>3, <2>1, BoundsAssumption DEF TypeOK, Fresh
<1>7. AdminUnlessOvertaken /\ AdminsAreFounders /\ OrphansAreOvertaken
  BY <1>2 DEF AdminUnlessOvertaken, AdminsAreFounders, OrphansAreOvertaken, Accounts, Live, Fresh
<1> QED
  BY <1>2, <1>3, <1>4, <1>5, <1>6, <1>7 DEF IInv, Fresh

LEMMA StutterKeeps ==
  ASSUME IInv, UNCHANGED vars
  PROVE  IInv'
<1>1. /\ UNCHANGED <<user, key, made, session, issued, astray, files, open, request, told, sent, restarts>>
      /\ UNCHANGED Rows
  BY DEF vars, Rows
<1>2. ASSUME NEW w \in Workers PROVE Promise(request[w])'
  BY <1>1 DEF IInv, Promise, Live, Accounts, Stored, Newest, OwnKeys
<1>3. TypeOK'
  BY <1>1 DEF IInv, TypeOK
<1>4. SessionsMatch'
  BY <1>1, SessionsStay DEF Live, At
<1>5. FilesFit'
  BY <1>1 DEF IInv, FilesFit, Fits, Has
<1> QED
  BY <1>1, <1>2, <1>3, <1>4, <1>5 DEF IInv, AdminUnlessOvertaken, AdminsAreFounders,
     OrphansAreOvertaken, KeysAreAnnouncedAsThemselves, Accounts, Live, Stored

LEMMA StepKeeps ==
  ASSUME IInv, [Next]_vars
  PROVE  IInv'
<1>1. ASSUME NEW w \in Workers, NEW c \in Credentials, NEW e \in Emails, NEW p \in Passwords,
             Register(w, c, e, p)
      PROVE  IInv'
  BY <1>1, RegisterBegins, BeginsKeeps
<1>2. ASSUME NEW w \in Workers, NEW c \in Credentials, NEW e \in Emails, NEW p \in Passwords,
             NEW role \in Roles, CreateUserAdmin(w, c, e, p, role)
      PROVE  IInv'
  BY <1>2, CreateUserBegins, BeginsKeeps
<1>3. ASSUME NEW w \in Workers, NEW c \in Credentials, NEW u \in Users, NEW role \in Roles,
             UpdateUserRole(w, c, u, role)
      PROVE  IInv'
  BY <1>3, UpdateUserRoleKeeps
<1>4. ASSUME NEW w \in Workers, NEW c \in Credentials, NEW old \in Passwords, NEW new \in Passwords,
             ChangePassword(w, c, old, new)
      PROVE  IInv'
  BY <1>4, PasswordBegins, BeginsKeeps
<1>5. ASSUME NEW w \in Workers, NEW c \in Credentials, NEW scopes \in Scopes,
             CreateKey(w, c, scopes)
      PROVE  IInv'
  BY <1>5, KeyBegins, BeginsKeeps
<1>6. ASSUME NEW w \in Workers, NEW c \in Credentials, NEW k \in Keys, NEW purge \in BOOLEAN,
             RevokeKey(w, c, k, purge)
      PROVE  IInv'
  BY <1>6, RevokeBegins, BeginsKeeps
<1>7. ASSUME NEW w \in Workers, NEW c \in Credentials, Wipe(w, c)
      PROVE  IInv'
  BY <1>7, WipeBegins, BeginsKeeps
<1>8. ASSUME NEW w \in Workers, NEW u \in Users, NEW p \in Passwords, Login(w, u, p)
      PROVE  IInv'
  BY <1>8, LoginBegins, BeginsKeeps
<1>9. ASSUME NEW w \in Workers, CountUsers(w)
      PROVE  IInv'
  BY <1>9, CountBegins, BeginsKeeps
<1>10. ASSUME NEW w \in Workers, NEW s \in Sessions, CreateSession(w, s) \/ Logout(w, s)
       PROVE  IInv'
  BY <1>10, CreateSessionKeeps, LogoutKeeps
<1>11. ASSUME NEW w \in Workers,
              \/ \E u \in Users : InsertUser(w, u)
              \/ \E k \in Keys : InsertKey(w, k)
              \/ GiveRole(w) \/ StorePassword(w) \/ AnswerKey(w) \/ StoreRevocation(w)
              \/ DeleteKey(w) \/ DeleteEverything(w) \/ ClearSessions(w)
       PROVE  IInv'
  BY <1>11, InsertUserKeeps, InsertKeyKeeps, GiveRoleKeeps, StorePasswordKeeps, AnswerKeyKeeps,
     StoreRevocationKeeps, DeleteKeyKeeps, DeleteEverythingKeeps, ClearSessionsKeeps
<1>12. ASSUME NEW k \in Keys, Expire(k)
       PROVE  IInv'
  BY <1>12, ExpireKeeps
<1>13. CASE Restart
  BY <1>13, RestartKeeps
<1>14. CASE Silence \/ UNCHANGED vars
  BY <1>14, StutterKeeps DEF Silence
<1>15. ASSUME NEW w \in Workers, NEW c \in Credentials,
              ExportDatabase(w, c) \/ \E f \in files : ImportDatabase(w, c, f)
       PROVE  IInv'
  BY <1>15, ExportBegins, ImportBegins, BeginsKeeps
<1>16. ASSUME NEW w \in Workers, ReadUsers(w) \/ ReadKeys(w) \/ RestoreBackup(w)
       PROVE  IInv'
  BY <1>16, ReadUsersKeeps, ReadKeysKeeps, RestoreBackupKeeps
<1> QED
  BY <1>1, <1>2, <1>3, <1>4, <1>5, <1>6, <1>7, <1>8, <1>9, <1>10, <1>11, <1>12, <1>13, <1>14,
     <1>15, <1>16 DEF Next, Free

LEMMA Invariance == Spec => []IInv
<1>1. Init => IInv
  BY InitEstablishes
<1>2. IInv /\ [Next]_vars => IInv'
  BY StepKeeps
<1> QED
  BY <1>1, <1>2, PTL DEF Spec

\* Every row is what its columns allow: a live account has an e-mail address, a
\* password and a role, whichever of its two commits was the last (auth/user.py:63-84).
THEOREM TypesHold == Spec => []TypeOK
<1>1. IInv => TypeOK
  BY DEF IInv
<1> QED
  BY <1>1, Invariance, PTL

\* A server with accounts has an administrator, or an account that a factory reset or
\* an import overtook: no cut between the commits of a registration locks its owner
\* out, and neither does any backup (api/auth.py:463-492, auth/user.py:63-79,
\* backup.py:318-373).
THEOREM OwnersKeepThePower == Spec => []AdminUnlessOvertaken
<1>1. IInv => AdminUnlessOvertaken
  BY DEF IInv
<1> QED
  BY <1>1, Invariance, PTL

\* Every administrator was the first registration of a server, of this one or of the
\* one whose backup an administrator imported (api/users.py:61-118 and 184-221,
\* api/auth.py:463-492, backup.py:318-373).
THEOREM OnlyFoundersRule == Spec => []AdminsAreFounders
<1>1. IInv => AdminsAreFounders
  BY DEF IInv
<1> QED
  BY <1>1, Invariance, PTL

\* A key is there without its account only when a factory reset, an import or an export
\* overtook its creation (api/admin.py:114-123, api/auth.py:685-738, backup.py:97-155
\* and 277-373).
THEOREM ResetsLeaveNoKeys == Spec => []OrphansAreOvertaken
<1>1. IInv => OrphansAreOvertaken
  BY DEF IInv
<1> QED
  BY <1>1, Invariance, PTL

\* Outside the moment between a reset's commit and its clearing, a session maps to an
\* account that is there, unless its login was overtaken or an import took the account
\* away: an import does not clear the sessions (api/admin.py:125-127, backup.py:
\* 297-315).
THEOREM SessionsHaveOwners == Spec => []SessionsEndWithTheirUser
<1>1. IInv => SessionsEndWithTheirUser
  BY DEF IInv, SessionsMatch, SessionsEndWithTheirUser
<1> QED
  BY <1>1, Invariance, PTL

\* A key is announced under its own id unless the account made or purged one, or a
\* reset or an import came, in between (api/auth.py:722-729).
THEOREM KeysKeepTheirNames == Spec => []KeysAreAnnouncedAsThemselves
<1>1. IInv => KeysAreAnnouncedAsThemselves
  BY DEF IInv
<1> QED
  BY <1>1, Invariance, PTL

\* Whoever a request acts for has an account at that moment (auth/apikey.py:128-131,
\* api/auth.py:180-197).
THEOREM NobodyActsForTheGone == Spec => []NoGhostActs
<1>1. IInv => NoGhostActs
  BY CallerTyped DEF IInv, NoGhostActs
<1> QED
  BY <1>1, Invariance, PTL

-----------------------------------------------------------------------------
(* What a step may not do to keys and passwords.                           *)

\* Few steps touch what a key is or what a password is.
LEMMA FewTouchCredentials ==
  ASSUME IInv, [Next]_vars
  PROVE  \/ \E w \in Workers : \/ (\E k \in Keys : InsertKey(w, k)) \/ StoreRevocation(w)
                               \/ DeleteKey(w) \/ StorePassword(w)
                               \/ DeleteEverything(w) \/ RestoreBackup(w)
         \/ /\ \A k \in Keys : key'[k].state = key[k].state
            /\ \A u \in Accounts : user'[u].password = user[u].password
<1> DEFINE Touched == \E w \in Workers :
                         \/ (\E k \in Keys : InsertKey(w, k)) \/ StoreRevocation(w)
                         \/ DeleteKey(w) \/ StorePassword(w)
                         \/ DeleteEverything(w) \/ RestoreBackup(w)
           Untouched == /\ \A k \in Keys : key'[k].state = key[k].state
                        /\ \A u \in Accounts : user'[u].password = user[u].password
<1>0. /\ user \in [Users -> User] /\ key \in [Keys -> Key]
      /\ \A u \in Accounts : u \in Users /\ user[u].state = "live"
  BY DEF IInv, TypeOK, Accounts, Live
<1>1. (UNCHANGED <<user, key>>) => Untouched
  OBVIOUS
<1>2. ASSUME NEW w \in Workers, NEW c \in Credentials,
             \/ \E e \in Emails, p \in Passwords :
                  \/ Register(w, c, e, p)
                  \/ \E role \in Roles : CreateUserAdmin(w, c, e, p, role)
             \/ \E old, new \in Passwords : ChangePassword(w, c, old, new)
      PROVE  UNCHANGED <<user, key>>
  BY <1>2 DEF Register, CreateUserAdmin, ChangePassword, Rows
<1>3. ASSUME NEW w \in Workers, NEW c \in Credentials,
             \/ \E scopes \in Scopes : CreateKey(w, c, scopes)
             \/ \E k \in Keys, purge \in BOOLEAN : RevokeKey(w, c, k, purge)
             \/ \E f \in files : ImportDatabase(w, c, f)
             \/ Wipe(w, c) \/ ExportDatabase(w, c)
      PROVE  UNCHANGED <<user, key>>
  BY <1>3 DEF CreateKey, RevokeKey, Wipe, ExportDatabase, ImportDatabase, Rows
<1>4. ASSUME NEW w \in Workers,
             \/ \E s \in Sessions : CreateSession(w, s) \/ Logout(w, s)
             \/ \E u \in Users, p \in Passwords : Login(w, u, p)
             \/ CountUsers(w) \/ AnswerKey(w) \/ ClearSessions(w) \/ ReadUsers(w) \/ ReadKeys(w)
      PROVE  UNCHANGED <<user, key>>
  BY <1>4 DEF CreateSession, Login, Logout, CountUsers, AnswerKey, ClearSessions, ReadUsers,
     ReadKeys, Rows
<1>5. ASSUME Restart \/ Silence \/ UNCHANGED vars
      PROVE  UNCHANGED <<user, key>>
  BY <1>5 DEF Restart, Silence, vars, Rows
<1>6. ASSUME NEW w \in Workers, NEW c \in Credentials, NEW u \in Users, NEW role \in Roles,
             UpdateUserRole(w, c, u, role)
      PROVE  Untouched
  BY <1>0, <1>6 DEF UpdateUserRole
<1>7. ASSUME NEW w \in Workers, NEW u \in Users, InsertUser(w, u)
      PROVE  Untouched
  BY <1>0, <1>7 DEF InsertUser, Rows
<1>8. ASSUME NEW w \in Workers, GiveRole(w)
      PROVE  Untouched
  <2>1. ASSUME NEW u \in Accounts PROVE user'[u].password = user[u].password
    <3>1. CASE Live(request[w].user) /\ u = request[w].user
      <4>1. PICK row : row = WithRole(user[u], request[w])
        OBVIOUS
      <4>2. user'[u] = row
        BY <1>0, <1>8, <3>1, <4>1 DEF GiveRole
      <4>3. row.password = user[u].password
        BY <1>0, <4>1 DEF WithRole, User
      <4> QED
        BY <4>2, <4>3
    <3>2. CASE ~(Live(request[w].user) /\ u = request[w].user)
      BY <1>0, <1>8, <3>2 DEF GiveRole
    <3> QED
      BY <3>1, <3>2
  <2> QED
    BY <1>8, <2>1 DEF GiveRole
<1>9. ASSUME NEW k \in Keys, Expire(k)
      PROVE  Untouched
  <2>1. UNCHANGED user
    BY <1>9 DEF Expire
  <2>2. ASSUME NEW x \in Keys PROVE key'[x].state = key[x].state
    BY <1>0, <1>9 DEF Expire, Key
  <2> QED
    BY <2>1, <2>2
<1>10. ASSUME NEW w \in Workers,
              \/ \E k \in Keys : InsertKey(w, k)
              \/ StoreRevocation(w) \/ DeleteKey(w) \/ StorePassword(w)
              \/ DeleteEverything(w) \/ RestoreBackup(w)
       PROVE  Touched
  BY <1>10
<1>11. Touched \/ Untouched
  <2> HIDE DEF Touched, Untouched
  <2> QED
    BY <1>1, <1>2, <1>3, <1>4, <1>5, <1>6, <1>7, <1>8, <1>9, <1>10 DEF Next, Free
<1> QED
  BY <1>11

\* Whoever replaces everything was an administrator when it began, and still is unless
\* it was overtaken.
LEMMA AdminsReplace ==
  ASSUME IInv, NEW w \in Workers, DeleteEverything(w) \/ RestoreBackup(w)
  PROVE  Replacing
<1>1. PICK r \in Request : r = request[w] /\ Promise(r) /\ r.stage \in {"wipe", "restore"}
  BY DEF IInv, TypeOK, DeleteEverything, RestoreBackup, At, Promise, Live, Accounts, Stored,
     Newest, OwnKeys
<1>2. r.late \/ (Live(r.user) /\ user[r.user].admin)
  BY <1>1 DEF Promise
<1>3. ASSUME DeleteEverything(w) PROVE At(w, "wipe") /\ At(w, "clear")'
  <2>1. request'[w] = [r EXCEPT !.stage = "clear"]
    BY <1>1, <1>3 DEF DeleteEverything, Overtake
  <2>2. request'[w].stage = "clear"
    BY <2>1 DEF Request
  <2> QED
    BY <1>3, <2>2 DEF DeleteEverything, At
<1>4. ASSUME RestoreBackup(w) PROVE At(w, "restore") /\ At(w, "idle")'
  <2>1. request'[w].stage = "idle"
    BY <1>4 DEF RestoreBackup, Overtake, Idle
  <2> QED
    BY <1>4, <2>1 DEF RestoreBackup, At
<1> QED
  BY <1>1, <1>2, <1>3, <1>4 DEF Replacing

\* What the steps of a handler that serves a person's session do.
LEMMA KeysServed ==
  ASSUME IInv, NEW w \in Workers,
         (\E n \in Keys : InsertKey(w, n)) \/ StoreRevocation(w) \/ DeleteKey(w)
  PROVE  /\ UNCHANGED user
         /\ \A k \in Keys : key'[k].state # key[k].state =>
              /\ Serves(IF k \in Stored THEN key[k].owner ELSE key'[k].owner)
              /\ \/ key[k].state = "unborn"
                 \/ key[k].state = "active" /\ key'[k].state = "revoked"
                 \/ key[k].state = "revoked" /\ key'[k].state = "gone"
                 \/ At(w, "purge") /\ request[w].key = k /\ request[w].late
<1>1. PICK r \in Request : r = request[w] /\ Promise(r) /\ r.stage \in {"key", "revoke", "purge"}
  BY DEF IInv, TypeOK, InsertKey, StoreRevocation, DeleteKey, At, Promise, Live, Accounts, Stored,
     Newest, OwnKeys
<1>2. r.channel = "session" /\ r.user \in Users
  BY <1>1 DEF Promise
<1>3. key \in [Keys -> Key] /\ request \in [Workers -> Request]
  BY DEF IInv, TypeOK
<1>4. UNCHANGED user
  BY DEF InsertKey, StoreRevocation, DeleteKey
<1>5. request'[w].stage # r.stage
  <2>1. ASSUME NEW n \in Keys, InsertKey(w, n) PROVE request'[w].stage # r.stage
    <3>1. request'[w] = [r EXCEPT !.stage = "answer", !.key = n, !.quiet = TRUE]
      BY <1>1, <2>1 DEF InsertKey, Disturb
    <3> QED
      BY <1>1, <3>1 DEF Request
  <2>2. CASE StoreRevocation(w) \/ DeleteKey(w)
    <3>1. request'[w] = Idle
      BY <1>3, <2>2 DEF StoreRevocation, DeleteKey, Continue, Disturb
    <3> QED
      BY <1>1, <3>1 DEF Idle
  <2> QED
    BY <2>1, <2>2
<1>6. Serves(r.user)
  BY <1>1, <1>2, <1>5 DEF Serves
<1>7. ASSUME NEW k \in Keys, key'[k].state # key[k].state
      PROVE  /\ r.user = (IF k \in Stored THEN key[k].owner ELSE key'[k].owner)
             /\ \/ key[k].state = "unborn"
                \/ key[k].state = "active" /\ key'[k].state = "revoked"
                \/ key[k].state = "revoked" /\ key'[k].state = "gone"
                \/ At(w, "purge") /\ request[w].key = k /\ request[w].late
  <2>1. ASSUME NEW n \in Keys, InsertKey(w, n)
        PROVE  k = n /\ key[k].state = "unborn" /\ key'[k].owner = r.user
    <3>1. /\ key[n].state = "unborn"
          /\ key' = [key EXCEPT ![n] = [state |-> "active", owner |-> r.user,
                       scopes |-> r.scopes, expired |-> FALSE, stray |-> r.late]]
      BY <1>1, <2>1 DEF InsertKey
    <3>2. k = n /\ key'[k].owner = r.user
      BY <1>3, <1>7, <3>1
    <3> QED
      BY <3>1, <3>2
  <2>2. CASE StoreRevocation(w)
    <3>1. r.stage = "revoke"
      BY <1>1, <2>2 DEF StoreRevocation, At
    <3>2. r.key \in Keys /\ (r.key \in Stored => key[r.key].owner = r.user)
      BY <1>1, <3>1 DEF Promise
    <3>3. key' = IF r.key \in Stored THEN [key EXCEPT ![r.key].state = "revoked"] ELSE key
      BY <1>1, <2>2 DEF StoreRevocation
    <3>4. k = r.key /\ k \in Stored
      BY <1>3, <1>7, <3>2, <3>3
    <3>5. key'[k].state = "revoked"
      BY <1>3, <3>3, <3>4 DEF Key
    <3> QED
      BY <1>7, <3>2, <3>4, <3>5 DEF Stored
  <2>3. CASE DeleteKey(w)
    <3>1. r.stage = "purge"
      BY <1>1, <2>3 DEF DeleteKey, At
    <3>2. /\ r.key \in Keys /\ key[r.key].owner = r.user
          /\ r.late \/ key[r.key].state \in {"revoked", "gone"}
      BY <1>1, <3>1 DEF Promise
    <3>3. key' = IF r.key \in Stored THEN [key EXCEPT ![r.key] = GoneKey(key[r.key])] ELSE key
      BY <1>1, <2>3 DEF DeleteKey
    <3>4. k = r.key /\ k \in Stored
      BY <1>3, <1>7, <3>2, <3>3
    <3>5. key'[k].state = "gone"
      BY <1>3, <3>3, <3>4 DEF UnbornKey, GoneKey
    <3> QED
      BY <1>1, <1>7, <3>1, <3>2, <3>4, <3>5 DEF At
  <2> QED
    BY <2>1, <2>2, <2>3 DEF Stored
<1> QED
  BY <1>4, <1>6, <1>7

LEMMA PasswordServed ==
  ASSUME IInv, NEW w \in Workers, StorePassword(w)
  PROVE  /\ UNCHANGED key
         /\ \A u \in Accounts : user'[u].password # user[u].password =>
              /\ Serves(u) /\ At(w, "password") /\ request[w].user = u
              /\ request[w].proof = user[u].password \/ ~request[w].quiet
<1>1. PICK r \in Request : r = request[w] /\ Promise(r) /\ r.stage = "password"
  BY DEF IInv, TypeOK, StorePassword, At, Promise, Live, Accounts, Stored, Newest, OwnKeys
<1>2. r.channel = "session" /\ (r.quiet /\ Live(r.user) => r.proof = user[r.user].password)
  BY <1>1 DEF Promise
<1>3. request'[w] = Idle
  BY DEF StorePassword, Disturb
<1>4. user' = IF Live(r.user) THEN [user EXCEPT ![r.user].password = r.password] ELSE user
  BY <1>1 DEF StorePassword
<1>5. ASSUME NEW u \in Accounts, user'[u].password # user[u].password
      PROVE  u = r.user /\ Live(r.user)
  BY <1>4, <1>5 DEF Accounts, IInv, TypeOK
<1>6. Idle.stage # "password"
  BY DEF Idle
<1> QED
  BY <1>1, <1>2, <1>3, <1>5, <1>6 DEF Serves, At, StorePassword

\* The order of a key's life: no call takes a working key straight to gone, and no
\* interleaving of revocations and purges brings a revoked one back, but for an
\* administrator's reset or import and for a purge that one of them overtook
\* (api/auth.py:776-781, backup.py:297-373).
THEOREM KeysEndInOrder == Spec => RevokedBeforeGone
<1> DEFINE A == \A k \in Stored :
                  \/ key'[k].state = key[k].state
                  \/ key[k].state = "active" /\ key'[k].state = "revoked"
                  \/ key[k].state = "revoked" /\ key'[k].state = "gone"
                  \/ Replacing
                  \/ \E w \in Workers : At(w, "purge") /\ request[w].key = k /\ request[w].late
<1>1. ASSUME IInv, [Next]_vars PROVE A
  <2>1. \A k \in Stored : k \in Keys /\ key[k].state # "unborn"
    BY DEF Stored
  <2>2. CASE \E w \in Workers : DeleteEverything(w) \/ RestoreBackup(w)
    BY <1>1, <2>2, AdminsReplace, <2>1
  <2>3. CASE \E w \in Workers : \/ \E k \in Keys : InsertKey(w, k)
                               \/ StoreRevocation(w) \/ DeleteKey(w)
    BY <1>1, <2>3, KeysServed, <2>1
  <2>4. CASE \E w \in Workers : StorePassword(w)
    BY <1>1, <2>4, PasswordServed, <2>1
  <2>5. CASE /\ \A k \in Keys : key'[k].state = key[k].state
             /\ \A u \in Accounts : user'[u].password = user[u].password
    BY <2>5, <2>1
  <2> HIDE DEF A
  <2> QED
    BY <1>1, <2>2, <2>3, <2>4, <2>5, FewTouchCredentials
<1>2. Spec => [][A]_vars
  <2> HIDE DEF A
  <2> QED BY <1>1, Invariance, PTL DEF Spec
<1> QED
  BY <1>2 DEF RevokedBeforeGone

\* Credentials are managed by people: only for a request that a session
\* authenticated, and only the account's own (auth/doors.py:124-141), or all at once
\* by an administrator's reset or import (api/backup_api.py:32-45).
THEOREM OnlyPeopleManage == Spec => PeopleManageCredentials
<1> DEFINE A == /\ \A k \in Keys : key'[k].state # key[k].state =>
                     Replacing \/ Serves(IF k \in Stored THEN key[k].owner ELSE key'[k].owner)
                /\ \A u \in Accounts : user'[u].password # user[u].password =>
                     Replacing \/ Serves(u)
<1>1. ASSUME IInv, [Next]_vars PROVE A
  <2>1. (\A k \in Stored : k \in Keys) /\ (\A u \in Accounts : u \in Users)
    BY DEF Stored, Accounts
  <2>2. CASE \E w \in Workers : DeleteEverything(w) \/ RestoreBackup(w)
    BY <1>1, <2>2, AdminsReplace, <2>1
  <2>3. CASE \E w \in Workers : \/ \E k \in Keys : InsertKey(w, k)
                               \/ StoreRevocation(w) \/ DeleteKey(w)
    BY <1>1, <2>3, KeysServed, <2>1
  <2>4. CASE \E w \in Workers : StorePassword(w)
    BY <1>1, <2>4, PasswordServed, <2>1
  <2>5. CASE /\ \A k \in Keys : key'[k].state = key[k].state
             /\ \A u \in Accounts : user'[u].password = user[u].password
    BY <2>5, <2>1
  <2> HIDE DEF A
  <2> QED
    BY <1>1, <2>2, <2>3, <2>4, <2>5, FewTouchCredentials
<1>2. Spec => [][A]_vars
  <2> HIDE DEF A
  <2> QED BY <1>1, Invariance, PTL DEF Spec
<1> QED
  BY <1>2 DEF PeopleManageCredentials

\* A password gives way only to somebody who showed it, unless another change of the
\* same account came in between (auth/user.py:170-177, api/auth.py:811-850), or to an
\* administrator's import (backup.py:318-373).
THEOREM ChangesAreProved == Spec => PasswordsAreProved
<1> DEFINE A == \A u \in Accounts :
                  user'[u].state = "live" /\ user'[u].password # user[u].password =>
                    \/ Replacing
                    \/ \E w \in Workers : /\ At(w, "password") /\ request[w].user = u
                                          /\ request[w].proof = user[u].password \/ ~request[w].quiet
<1>1. ASSUME IInv, [Next]_vars PROVE A
  <2>1. \A u \in Accounts : u \in Users
    BY DEF Accounts
  <2>2. CASE \E w \in Workers : DeleteEverything(w) \/ RestoreBackup(w)
    BY <1>1, <2>2, AdminsReplace, <2>1
  <2>3. CASE \E w \in Workers : \/ \E k \in Keys : InsertKey(w, k)
                               \/ StoreRevocation(w) \/ DeleteKey(w)
    BY <1>1, <2>3, KeysServed, <2>1
  <2>4. CASE \E w \in Workers : StorePassword(w)
    BY <1>1, <2>4, PasswordServed, <2>1
  <2>5. CASE /\ \A k \in Keys : key'[k].state = key[k].state
             /\ \A u \in Accounts : user'[u].password = user[u].password
    BY <2>5, <2>1
  <2> HIDE DEF A
  <2> QED
    BY <1>1, <2>2, <2>3, <2>4, <2>5, FewTouchCredentials
<1>2. Spec => [][A]_vars
  <2> HIDE DEF A
  <2> QED BY <1>1, Invariance, PTL DEF Spec
<1> QED
  BY <1>2 DEF PasswordsAreProved
=============================================================================
