---------------------------- MODULE RecoveryProofs ----------------------------
(***************************************************************************)
(* For every number of accounts, rows, workers, requests, exports and      *)
(* restarts: the types, whole seeds, failures of a seed that take nothing  *)
(* that was there before it, and exports that have what stayed.  After     *)
(* them, for the migrations that a start of the server runs, for all sets, *)
(* machines and owners and every number of cuts: the ledger has no gaps,   *)
(* what the first start found is backed up before it is changed, unless a  *)
(* backup was overwritten, every link of a set to its machine becomes one  *)
(* setup with the status it should have, and a server that serves has the  *)
(* models' schema, but for indexes that only a cut can lose.               *)
(***************************************************************************)
EXTENDS Recovery, Migrations, SequenceTheorems, FiniteSetTheorems, FunctionTheorems, TLAPS

Made == {i \in Ids : row[i] # None}

\* A file names accounts that were given and rows that were made.
Readable(f) == f \in File /\ f.accounts \subseteq known /\ f.rows \subseteq Made

Typed ==
  /\ TypeOK /\ live \subseteq Made /\ seeds <= sent
  /\ \A f \in files : Readable(f)
  /\ \A i \in Made : row[i].seed <= seeds
  /\ \A w \in Workers :
       /\ Readable(request[w].file)
       /\ At(w, "seed") => request[w].user \in Users /\ request[w].seed \in 1..seeds
       /\ At(w, "create") => request[w].user \in Users

\* A door that makes rows for a caller has one, a seed its number.
Borne(r, n) ==
  /\ r.stage \in {"seed", "create"} => r.user \in Users
  /\ r.stage = "seed" => r.seed \in 1..n

\* What was made stays as it was made.
RowsStay ==
  /\ row' \in [Ids -> Row \cup {None}] /\ \A i \in Made : row'[i] = row[i]
  /\ known \subseteq known'

LEMMA IdleTyped ==
  /\ Idle \in Request /\ \A n : Borne(Idle, n) /\ Idle.stage = "idle" /\ Idle.file = NoFile
  /\ NoFile \in File /\ NoFile.accounts = {} /\ NoFile.rows = {}
BY BoundsAssumption DEF Idle, NoFile, Request, File, Borne

LEMMA StaysMade == ASSUME RowsStay PROVE Made \subseteq Made'
BY DEF RowsStay, Made

LEMMA StaysReadable ==
  ASSUME RowsStay, NEW f, Readable(f)
  PROVE  f \in File /\ f.accounts \subseteq known' /\ f.rows \subseteq Made'
BY StaysMade DEF Readable, RowsStay

\* What rows that go do to the sessions of the others.
Seen(x, removed) ==
  /\ request'[x].stage = request[x].stage /\ request'[x].user = request[x].user
  /\ request'[x].seed = request[x].seed /\ request'[x].held = request[x].held
  /\ request'[x].before = request[x].before /\ request'[x].next = request[x].next
  /\ LET f == request[x].file
         g == request'[x].file IN
     /\ g.kind = f.kind /\ g.scope = f.scope /\ g.accounts = f.accounts /\ g.rows = f.rows
     /\ At(x, "export") => g.stayed = f.stayed \ removed
     /\ ~At(x, "export") => g = f

LEMMA NoticeEffect ==
  ASSUME request \in [Workers -> Request], NEW w \in Workers, NEW r \in Request,
         NEW removed, Notice(w, r, removed)
  PROVE  /\ request' \in [Workers -> Request] /\ request'[w] = r
         /\ \A x \in Workers \ {w} : Seen(x, removed)
<1>1. ASSUME NEW x \in Workers, x # w
      PROVE  request'[x] \in Request /\ Seen(x, removed)
  <2> DEFINE f == request[x].file
             g == [f EXCEPT !.stayed = @ \ removed]
  <2>1. request[x] \in Request /\ f \in File
    BY DEF Request
  <2>2. CASE At(x, "export")
    <3>1. g \in File
      BY <2>1 DEF File
    <3>2. request'[x] = [request[x] EXCEPT !.file = g]
      BY <1>1, <2>2 DEF Notice
    <3>3. request'[x] \in Request
      BY <2>1, <3>1, <3>2 DEF Request
    <3>4. /\ g.kind = f.kind /\ g.scope = f.scope /\ g.accounts = f.accounts /\ g.rows = f.rows
          /\ g.stayed = f.stayed \ removed
      BY <2>1 DEF File
    <3>5. /\ request'[x].stage = request[x].stage /\ request'[x].user = request[x].user
          /\ request'[x].seed = request[x].seed /\ request'[x].held = request[x].held
          /\ request'[x].before = request[x].before /\ request'[x].next = request[x].next
          /\ request'[x].file = g
      BY <2>1, <3>2 DEF Request
    <3> HIDE DEF f, g
    <3>6. Seen(x, removed)
      BY <2>2, <3>4, <3>5 DEF Seen, f
    <3> QED
      BY <3>3, <3>6
  <2>3. CASE ~At(x, "export")
    <3>1. request'[x] = request[x]
      BY <1>1, <2>3 DEF Notice
    <3> QED
      BY <2>1, <2>3, <3>1 DEF Seen
  <2> QED
    BY <2>2, <2>3
<1>2. request'[w] = r /\ request' = [x \in Workers |-> request'[x]]
  BY DEF Notice
<1>3. \A x \in Workers : request'[x] \in Request
  BY <1>1, <1>2
<1> QED
  BY <1>1, <1>2, <1>3

LEMMA MakeEffect ==
  ASSUME Typed, NEW w, NEW r, NEW made, Make(w, r, made),
         DOMAIN made \subseteq Ids, \A i \in DOMAIN made : made[i] \in Row, UNCHANGED known
  PROVE  /\ RowsStay
         /\ \A i \in DOMAIN made : i \notin Made /\ row'[i] = made[i]
         /\ \A i \in Ids \ DOMAIN made : row'[i] = row[i]
         /\ Made' = Made \cup DOMAIN made
         /\ live' = live \cup DOMAIN made
<1>1. row \in [Ids -> Row \cup {None}]
  BY DEF Typed, TypeOK
<1>2. /\ row' \in [Ids -> Row \cup {None}]
      /\ \A i \in DOMAIN made : row[i] = None /\ row'[i] = made[i]
      /\ \A i \in Ids \ DOMAIN made : row'[i] = row[i]
      /\ live' = live \cup DOMAIN made
  BY <1>1 DEF Make
<1> QED
  BY <1>1, <1>2, NoneAssumption DEF RowsStay, Made

LEMMA MarredTyped ==
  ASSUME Typed, NEW rows \in SUBSET Made, NEW but
  PROVE  /\ Marred(rows, but) \subseteq 1..seeds
         /\ \A i \in rows : row[i].seed \in Marred(rows, but) \cup {0, but}
<1>1. \A i \in rows : row[i].seed \in Nat /\ row[i].seed <= seeds /\ seeds \in Nat
  BY DEF Typed, TypeOK, Made, Row
<1>2. \A x \in Workers : At(x, "seed") => request[x].seed \in 1..seeds
  BY DEF Typed
<1> QED
  BY <1>1, <1>2 DEF Marred

\* What a step that sends keeps within its bound.
LEMMA SentTyped ==
  ASSUME Typed, Send \/ UNCHANGED <<sent, restarts>>
  PROVE  /\ sent' \in 0..MaxRequests /\ restarts' \in 0..MaxRestarts /\ seeds \in Nat
         /\ sent <= sent' /\ seeds <= sent' /\ (Send => seeds + 1 <= sent' /\ seeds + 1 \in 0..MaxRequests)
BY BoundsAssumption DEF Typed, TypeOK, Send

\* The types hold after a step that brings nothing of another type.
LEMMA TypedFrom ==
  ASSUME Typed, RowsStay,
         accounts' \subseteq known', known' \subseteq Users, live' \subseteq Made',
         \A f \in files' : f \in files \/ Readable(f),
         request' \in [Workers -> Request],
         \A x \in Workers : Readable(request'[x].file),
         \A x \in Workers : Borne(request'[x], seeds'),
         seeds' \in 0..MaxRequests, seeds <= seeds', seeds' <= sent',
         sent' \in 0..MaxRequests, restarts' \in 0..MaxRestarts,
         marred' \subseteq 1..seeds', replaced' \subseteq Ids,
         \A i \in Made' \ Made : row'[i].seed <= seeds'
  PROVE  Typed'
<1>1. \A i \in live' : row'[i] # None
  BY DEF Made
<1>2. \A f \in files' : f \in File /\ f.accounts \subseteq known' /\ f.rows \subseteq Made'
  BY StaysReadable DEF Typed
<1>3. \A x \in Workers : LET f == request'[x].file IN
        f \in File /\ f.accounts \subseteq known' /\ f.rows \subseteq Made'
  BY StaysReadable
<1>4. \A i \in Made' : row'[i].seed <= seeds'
  <2> TAKE i \in Made'
  <2>1. CASE i \in Made
    <3>1. row[i].seed \in Nat /\ row[i].seed <= seeds /\ seeds \in Nat /\ seeds' \in Nat
      BY <2>1, BoundsAssumption DEF Typed, TypeOK, Made, Row
    <3> QED
      BY <2>1, <3>1 DEF RowsStay
  <2> QED
    BY <2>1
<1>5. TypeOK'
  BY <1>1, <1>2 DEF TypeOK, RowsStay
<1> QED
  BY <1>2, <1>3, <1>4, <1>5 DEF Typed, Readable, At, Borne

LEMMA SameRows == ASSUME Typed, UNCHANGED row, known \subseteq known' PROVE RowsStay /\ Made' = Made
BY DEF RowsStay, Made, Typed, TypeOK

\* What the sessions hold after rows went.
LEMMA NoticeTyped ==
  ASSUME Typed, NEW w \in Workers, NEW r \in Request, NEW removed,
         Notice(w, r, removed), Readable(r.file),
         Borne(r, seeds)
  PROVE  /\ request' \in [Workers -> Request]
         /\ \A x \in Workers : Readable(request'[x].file)
         /\ \A x \in Workers : Borne(request'[x], seeds)
<1>1. /\ request' \in [Workers -> Request] /\ request'[w] = r
      /\ \A x \in Workers \ {w} : Seen(x, removed)
  BY NoticeEffect DEF Typed, TypeOK
<1>2. ASSUME NEW x \in Workers \ {w} PROVE Readable(request'[x].file)
  <2>1. request'[x].file \in File
    BY <1>1 DEF Request
  <2> QED
    BY <1>1, <2>1 DEF Typed, Readable, Seen
<1>3. ASSUME NEW x \in Workers \ {w} PROVE Borne(request'[x], seeds)
  BY <1>1 DEF Typed, Seen, At, Borne
<1> QED
  BY <1>1, <1>2, <1>3

\* A step that replaces what one session holds.
LEMMA SessionTyped ==
  ASSUME Typed, NEW w \in Workers, NEW r \in Request, request' = [request EXCEPT ![w] = r],
         Readable(r.file), seeds' \in Nat, seeds <= seeds',
         Borne(r, seeds')
  PROVE  /\ request' \in [Workers -> Request]
         /\ \A x \in Workers : Readable(request'[x].file)
         /\ \A x \in Workers : Borne(request'[x], seeds')
<1>1. request \in [Workers -> Request] /\ seeds \in Nat
  BY DEF Typed, TypeOK
<1>2. request'[w] = r /\ \A x \in Workers \ {w} : request'[x] = request[x]
  BY <1>1
<1>3. 1..seeds \subseteq 1..seeds'
  BY <1>1
<1> QED
  BY <1>1, <1>2, <1>3 DEF Typed, At, Borne

LEMMA TypedMake ==
  ASSUME Typed, NEW w \in Workers, NEW r \in Request, NEW made, Make(w, r, made),
         DOMAIN made \subseteq Ids,
         \A i \in DOMAIN made : made[i] \in Row /\ made[i].seed <= seeds,
         Readable(r.file), Borne(r, seeds),
         Send \/ UNCHANGED <<sent, restarts>>,
         UNCHANGED <<accounts, known, files, seeds, marred, replaced>>
  PROVE  Typed'
<1>1. /\ RowsStay /\ Made' = Made \cup DOMAIN made /\ live' = live \cup DOMAIN made
      /\ \A i \in DOMAIN made : row'[i] = made[i]
  BY MakeEffect
<1>2. Notice(w, r, {})
  BY DEF Make
<1>3. /\ request' \in [Workers -> Request]
      /\ \A x \in Workers : Readable(request'[x].file)
      /\ \A x \in Workers : Borne(request'[x], seeds')
  BY <1>2, NoticeTyped
<1>4. /\ accounts' \subseteq known' /\ known' \subseteq Users /\ live' \subseteq Made'
      /\ seeds' \in 0..MaxRequests /\ seeds <= seeds'
      /\ marred' \subseteq 1..seeds' /\ replaced' \subseteq Ids
      /\ \A i \in Made' \ Made : row'[i].seed <= seeds'
  BY <1>1 DEF Typed, TypeOK
<1>5. sent' \in 0..MaxRequests /\ restarts' \in 0..MaxRestarts /\ seeds' <= sent'
  BY SentTyped
<1> QED
  BY <1>1, <1>3, <1>4, <1>5, TypedFrom

LEMMA TypedRemove ==
  ASSUME Typed, NEW w \in Workers, NEW r \in Request, NEW rows \in SUBSET live, NEW but,
         RemoveRows(w, r, rows, but), Readable(r.file), Borne(r, seeds),
         Send \/ UNCHANGED <<sent, restarts>>,
         UNCHANGED <<accounts, known, row, files, seeds>>
  PROVE  Typed'
<1>1. RowsStay /\ Made' = Made
  BY SameRows
<1>3. /\ request' \in [Workers -> Request]
      /\ \A x \in Workers : Readable(request'[x].file)
      /\ \A x \in Workers : Borne(request'[x], seeds')
  <2>1. Notice(w, r, rows)
    BY DEF RemoveRows
  <2> QED
    BY <2>1, NoticeTyped
<1>4. rows \subseteq Made /\ rows \subseteq Ids
  BY DEF Typed, Made
<1>5. marred' \subseteq 1..seeds'
  BY <1>4, MarredTyped DEF RemoveRows, Typed, TypeOK
<1>6. /\ accounts' \subseteq known' /\ known' \subseteq Users /\ live' \subseteq Made'
      /\ seeds' \in 0..MaxRequests /\ seeds <= seeds'
      /\ replaced' \subseteq Ids /\ Made' \ Made = {}
  BY <1>1, <1>4 DEF RemoveRows, Typed, TypeOK
<1>7. sent' \in 0..MaxRequests /\ restarts' \in 0..MaxRestarts /\ seeds' <= sent'
  BY SentTyped
<1> QED
  BY <1>1, <1>3, <1>5, <1>6, <1>7, TypedFrom

\* A delete that has removed some of its rows.
LEMMA Deleting ==
  ASSUME Typed, NEW w \in Workers, NEW rows, At(w, "delete"),
         NEW r, r = [request[w] EXCEPT !.held = @ \ rows]
  PROVE  r \in Request /\ r.stage = "delete" /\ Readable(r.file) /\ Borne(r, seeds)
<1>1. request[w] \in Request
  BY DEF Typed, TypeOK
<1>2. r \in Request /\ r.stage = request[w].stage /\ r.file = request[w].file
  BY <1>1 DEF Request
<1> QED
  BY <1>2 DEF Typed, At, Borne

\* Three tables are read one after the other.
LEMMA Three ==
  ASSUME NEW S, NEW a \in S, NEW b \in S, NEW c \in S
  PROVE  /\ <<a, b, c>> \in Seq(S) /\ <<b, c>> \in Seq(S) /\ <<c>> \in Seq(S) /\ <<>> \in Seq(S)
         /\ Head(<<a, b, c>>) = a /\ Tail(<<a, b, c>>) = <<b, c>>
         /\ Head(<<b, c>>) = b /\ Tail(<<b, c>>) = <<c>>
         /\ Head(<<c>>) = c /\ Tail(<<c>>) = <<>>
         /\ ToSet(<<a, b, c>>) = {a, b, c} /\ ToSet(<<b, c>>) = {b, c}
         /\ ToSet(<<c>>) = {c} /\ ToSet(<<>>) = {}
<1>1. <<a, b, c>> \in Seq(S) /\ <<b, c>> \in Seq(S) /\ <<c>> \in Seq(S) /\ <<>> \in Seq(S)
  OBVIOUS
<1>2. Tail(<<a, b, c>>) = <<b, c>>
  OBVIOUS
<1>3. Tail(<<b, c>>) = <<c>>
  OBVIOUS
<1>4. Tail(<<c>>) = <<>>
  OBVIOUS
<1>5. Head(<<a, b, c>>) = a /\ Head(<<b, c>>) = b /\ Head(<<c>>) = c
  OBVIOUS
<1>6. ToSet(<<a, b, c>>) = {a, b, c} 
  BY DEF ToSet
<1>7. ToSet(<<b, c>>) = {b, c}
  BY DEF ToSet
<1>8. ToSet(<<c>>) = {c} /\ ToSet(<<>>) = {}
  BY DEF ToSet
<1> QED
  BY <1>1, <1>2, <1>3, <1>4, <1>5, <1>6, <1>7, <1>8

\* What an export may have left to read.
Left(kind) == {TablesOf(kind), Tail(TablesOf(kind)), Tail(Tail(TablesOf(kind))), <<>>}

LEMMA LeftTyped ==
  ASSUME NEW kind \in {"backup", "zip"}, NEW n \in Left(kind)
  PROVE  /\ n \in Seq(Tables) /\ ToSet(n) \subseteq ToSet(TablesOf(kind))
         /\ n # <<>> =>
              /\ Tail(n) \in Left(kind) /\ Tail(n) \in Seq(Tables)
              /\ Head(n) \in Tables /\ Head(n) \notin ToSet(Tail(n))
              /\ ToSet(n) = ToSet(Tail(n)) \cup {Head(n)}
              /\ Head(n) \in ToSet(TablesOf(kind))
<1> DEFINE c == IF kind = "backup" THEN "key" ELSE "label"
<1>1. TablesOf(kind) = <<"record", "entry", c>>
  BY DEF TablesOf, BackupTables, ZipTables
<1>2. "record" \in Tables /\ "entry" \in Tables /\ c \in Tables /\ c # "record" /\ c # "entry"
  BY DEF Tables
<1> HIDE DEF c
<1>3. Left(kind) = {<<"record", "entry", c>>, <<"entry", c>>, <<c>>, <<>>}
  BY <1>1, <1>2, Three DEF Left
<1> DEFINE all == <<"record", "entry", c>>
           two == <<"entry", c>>
           one == <<c>>
<1>4. /\ all \in Seq(Tables) /\ two \in Seq(Tables) /\ one \in Seq(Tables) /\ <<>> \in Seq(Tables)
      /\ Head(all) = "record" /\ Tail(all) = two /\ Head(two) = "entry" /\ Tail(two) = one
      /\ Head(one) = c /\ Tail(one) = <<>>
      /\ ToSet(all) = {"record", "entry", c} /\ ToSet(two) = {"entry", c}
      /\ ToSet(one) = {c} /\ ToSet(<<>>) = {}
  BY <1>2, Three
<1>5. n \in {all, two, one, <<>>} /\ TablesOf(kind) = all /\ Left(kind) = {all, two, one, <<>>}
  BY <1>1, <1>3
<1> HIDE DEF all, two, one
<1>6. CASE n = all
  BY <1>2, <1>4, <1>5, <1>6
<1>7. CASE n = two
  BY <1>2, <1>4, <1>5, <1>7
<1>8. CASE n = one
  BY <1>2, <1>4, <1>5, <1>8
<1>9. CASE n = <<>>
  BY <1>2, <1>4, <1>5, <1>9
<1> QED
  BY <1>5, <1>6, <1>7, <1>8, <1>9

\* The demo's rows are rows of the seed that makes them.
LEMMA DemoTyped ==
  ASSUME Typed, NEW w \in Workers, At(w, "seed"), NEW t \in Tables
  PROVE  LET d == DemoRow(w, t) IN
         /\ d \in Row /\ d.seed = request[w].seed /\ d.seed <= seeds
         /\ d.table = t /\ d.owner = request[w].user
<1>1. request[w].user \in Users /\ request[w].seed \in 1..seeds /\ seeds \in 0..MaxRequests
  BY DEF Typed, TypeOK
<1>2. request[w].seed \in 0..MaxRequests /\ request[w].seed <= seeds
  BY <1>1, BoundsAssumption
<1> QED
  BY <1>1, <1>2 DEF DemoRow, Row

\* A session that goes on with what it made.
LEMMA GoesOn ==
  ASSUME Typed, NEW w \in Workers, NEW rows \in SUBSET Ids
  PROVE  LET r == [request[w] EXCEPT !.held = rows] IN
         /\ r \in Request /\ r.stage = request[w].stage /\ r.user = request[w].user
         /\ r.seed = request[w].seed /\ r.file = request[w].file /\ r.held = rows
         /\ r.before = request[w].before /\ r.next = request[w].next
<1>1. request[w] \in Request
  BY DEF Typed, TypeOK
<1> QED
  BY <1>1 DEF Request

LEMMA CreateTyped ==
  ASSUME Typed, NEW w \in Workers, NEW i \in Ids, NEW t \in Tables, CreateRow(w, i, t)
  PROVE  Typed'
<1> DEFINE d == [table |-> t, owner |-> request[w].user, seed |-> 0]
           made == [x \in {i} |-> d]
<1>1. d \in Row /\ d.seed <= seeds
  BY BoundsAssumption DEF CreateRow, Row, Typed, TypeOK
<1>2. DOMAIN made = {i} /\ \A x \in DOMAIN made : made[x] \in Row /\ made[x].seed <= seeds
  BY <1>1
<1>3. /\ Make(w, Idle, made) /\ UNCHANGED <<sent, restarts>>
      /\ UNCHANGED <<accounts, known, files, seeds, marred, replaced>>
  BY DEF CreateRow
<1>4. Idle \in Request /\ Readable(Idle.file) /\ Borne(Idle, seeds)
  BY IdleTyped DEF Readable
<1> HIDE DEF Idle, made, d
<1> QED
  BY <1>2, <1>3, <1>4, TypedMake

LEMMA SeedRecordsTyped ==
  ASSUME Typed, NEW w \in Workers, NEW i \in Ids, SeedRecords(w, i)
  PROVE  Typed'
<1> DEFINE d == DemoRow(w, "record")
           made == [x \in {i} |-> d]
           r == [request[w] EXCEPT !.held = {i}]
<1>1. d \in Row /\ d.seed <= seeds
  BY DemoTyped DEF SeedRecords, Tables
<1>2. DOMAIN made = {i} /\ \A x \in DOMAIN made : made[x] \in Row /\ made[x].seed <= seeds
  BY <1>1
<1>3. /\ Make(w, r, made) /\ At(w, "seed") /\ UNCHANGED <<sent, restarts>>
      /\ UNCHANGED <<accounts, known, files, seeds, marred, replaced>>
  BY DEF SeedRecords
<1>4. r \in Request /\ Readable(r.file) /\ Borne(r, seeds)
  BY <1>3, GoesOn DEF Typed, Borne
<1> HIDE DEF made, d, r
<1> QED
  BY <1>2, <1>3, <1>4, TypedMake

LEMMA SeedTableTyped ==
  ASSUME Typed, NEW w \in Workers, NEW i \in Ids, NEW j \in Ids, SeedTable(w, i, j)
  PROVE  Typed'
<1>1. Make(w, [request[w] EXCEPT !.held = @ \cup {i, j}],
           [x \in {i, j} |-> DemoRow(w, IF x = i THEN "setup" ELSE "entry")])
  BY DEF SeedTable
<1> DEFINE d == DemoRow(w, "setup")
           e == DemoRow(w, "entry")
           made == [x \in {i, j} |-> DemoRow(w, IF x = i THEN "setup" ELSE "entry")]
           rows == request[w].held \cup {i, j}
           r == [request[w] EXCEPT !.held = rows]
<1>2. request[w].held \subseteq Ids
  BY DEF Typed, TypeOK, Request
<1>3. d \in Row /\ d.seed <= seeds /\ e \in Row /\ e.seed <= seeds
  BY <1>2, DemoTyped DEF SeedTable, Tables
<1>4. DOMAIN made = {i, j} /\ \A x \in DOMAIN made : made[x] \in Row /\ made[x].seed <= seeds
  BY <1>3
<1>5. /\ Make(w, r, made) /\ At(w, "seed") /\ UNCHANGED <<sent, restarts>>
      /\ UNCHANGED <<accounts, known, files, seeds, marred, replaced>>
  BY <1>1 DEF SeedTable
<1>6. r \in Request /\ Readable(r.file) /\ Borne(r, seeds)
  BY <1>2, <1>5, GoesOn DEF Typed, Borne
<1> HIDE DEF made, d, e, r
<1> QED
  BY <1>4, <1>5, <1>6, TypedMake

LEMMA ImportTyped ==
  ASSUME Typed, NEW w \in Workers, NEW f \in files \cup {ForeignFile}, Import(w, f)
  PROVE  /\ Typed' /\ f \in files
<1> DEFINE cleared == Covered("backup", f.scope)
<1>1. f \in files
  BY BoundsAssumption DEF Import, ForeignFile, NoFile
<1>2. RowsStay /\ Made' = Made
  BY SameRows DEF Import
<1>3. Idle \in Request /\ Readable(Idle.file) /\ Borne(Idle, seeds)
  BY IdleTyped DEF Readable
<1>4. f.rows \subseteq Made /\ f.accounts \subseteq known /\ cleared \subseteq live
  BY <1>1 DEF Typed, Readable, Covered, RowsIn
<1>5. f.rows \subseteq Ids /\ cleared \subseteq Made /\ Made \subseteq Ids
  BY <1>4 DEF Typed, Made
<1>6. Notice(w, Idle, cleared)
  BY DEF Import
<1>7. /\ request' \in [Workers -> Request]
      /\ \A x \in Workers : Readable(request'[x].file)
      /\ \A x \in Workers : Borne(request'[x], seeds')
  <2>1. seeds' = seeds
    BY DEF Import
  <2> HIDE DEF Idle, cleared
  <2> QED
    BY <1>3, <1>5, <1>6, <2>1, NoticeTyped
<1>8. marred' \subseteq 1..seeds'
  <2>1. Marred(cleared \cup f.rows, 0) \subseteq 1..seeds
    BY <1>4, <1>5, MarredTyped
  <2> QED
    BY <2>1 DEF Import, Typed, TypeOK
<1>9. /\ accounts' \subseteq known' /\ known' \subseteq Users /\ live' \subseteq Made'
      /\ seeds' \in 0..MaxRequests /\ seeds <= seeds' /\ files' = files
      /\ replaced' \subseteq Ids /\ Made' \ Made = {}
  BY <1>2, <1>4, <1>5 DEF Import, Typed, TypeOK
<1>10. sent' \in 0..MaxRequests /\ restarts' \in 0..MaxRestarts /\ seeds' <= sent'
  BY SentTyped DEF Import
<1> QED
  BY <1>1, <1>2, <1>7, <1>8, <1>9, <1>10, TypedFrom

LEMMA StartExportTyped ==
  ASSUME Typed, NEW w \in Workers, NEW kind \in {"backup", "zip"},
         NEW scope \in Users \cup {All}, StartExport(w, kind, scope)
  PROVE  Typed'
<1> DEFINE f == [NoFile EXCEPT !.kind = kind, !.scope = scope, !.revision = Revision,
                   !.accounts = accounts \cap Owners(scope), !.stayed = Covered(kind, scope)]
           r == [Idle EXCEPT !.stage = "export", !.next = TablesOf(kind), !.file = f]
<1>1. accounts \subseteq known /\ known \subseteq Users /\ live \subseteq Ids
  BY DEF Typed, TypeOK, Made
<1>2. f \in File /\ f.accounts \subseteq known /\ f.rows = {}
  BY <1>1, BoundsAssumption DEF NoFile, File, Covered, RowsIn
<1>3. Readable(f)
  BY <1>2 DEF Readable
<1>4. TablesOf(kind) \in Seq(Tables)
  BY LeftTyped DEF Left
<1> HIDE DEF f
<1>5. r \in Request /\ r.file = f /\ Borne(r, seeds')
  BY <1>2, <1>4, IdleTyped DEF Request, Borne
<1>6. request' = [request EXCEPT ![w] = r]
  BY DEF StartExport, f
<1>7. seeds' \in Nat /\ seeds <= seeds'
  BY DEF StartExport, Typed, TypeOK
<1> HIDE DEF r
<1>8. /\ request' \in [Workers -> Request]
      /\ \A x \in Workers : Readable(request'[x].file)
      /\ \A x \in Workers : Borne(request'[x], seeds')
  BY <1>3, <1>5, <1>6, <1>7, SessionTyped
<1>9. RowsStay /\ Made' = Made
  BY SameRows DEF StartExport
<1>10. /\ accounts' \subseteq known' /\ known' \subseteq Users /\ live' \subseteq Made'
       /\ seeds' \in 0..MaxRequests /\ seeds <= seeds' /\ files' = files
       /\ marred' \subseteq 1..seeds' /\ replaced' \subseteq Ids
  BY <1>9 DEF StartExport, Typed, TypeOK
<1>11. sent' \in 0..MaxRequests /\ restarts' \in 0..MaxRestarts /\ seeds' <= sent'
  BY SentTyped DEF StartExport
<1> QED
  BY <1>8, <1>9, <1>10, <1>11, TypedFrom

LEMMA ReadTyped ==
  ASSUME Typed, NEW w \in Workers, At(w, "export"), request[w].next # <<>>
  PROVE  LET r == request[w]
             f == r.file
             s == [r EXCEPT !.file.rows = @ \cup Selected(Head(r.next), f.scope), !.next = Tail(@)] IN
         /\ s \in Request /\ s.stage = "export" /\ s.next = Tail(r.next) /\ Readable(s.file)
         /\ s.file.rows = f.rows \cup Selected(Head(r.next), f.scope)
         /\ s.file.kind = f.kind /\ s.file.scope = f.scope
         /\ s.file.stayed = f.stayed
<1> DEFINE r == request[w]
           f == r.file
           more == Selected(Head(r.next), f.scope)
           g == [f EXCEPT !.rows = @ \cup more]
           s == [[r EXCEPT !.file = g] EXCEPT !.next = Tail(r.next)]
<1>1. r \in Request /\ f \in File /\ r.next \in Seq(Tables) /\ Tail(r.next) \in Seq(Tables)
  BY DEF Typed, TypeOK, Request
<1>2. more \subseteq Made /\ more \subseteq Ids
  BY DEF Selected, RowsIn, Typed, Made
<1> HIDE DEF more
<1>3. /\ g \in File /\ g.rows = f.rows \cup more /\ g.kind = f.kind /\ g.scope = f.scope
      /\ g.stayed = f.stayed /\ g.accounts = f.accounts
  BY <1>1, <1>2 DEF File
<1>4. Readable(g)
  BY <1>2, <1>3 DEF Readable, Typed
<1>5. s = [r EXCEPT !.file.rows = @ \cup more, !.next = Tail(@)]
  BY <1>1 DEF Request
<1> HIDE DEF g
<1>6. s \in Request /\ s.stage = "export" /\ s.next = Tail(r.next) /\ s.file = g
  BY <1>1, <1>3 DEF Request, At
<1> QED
  BY <1>3, <1>4, <1>5, <1>6 DEF more

\* A step of one session that leaves the rows alone.
LEMMA SessionStepTyped ==
  ASSUME Typed, NEW w \in Workers, NEW r \in Request, request' = [request EXCEPT ![w] = r],
         Readable(r.file), seeds' \in {seeds, seeds + 1},
         Borne(r, seeds'),
         \A f \in files' : f \in files \/ Readable(f),
         Send \/ (seeds' = seeds /\ UNCHANGED <<sent, restarts>>),
         UNCHANGED <<accounts, known, row, live, marred, replaced>>
  PROVE  Typed'
<1>1. RowsStay /\ Made' = Made
  BY SameRows
<1>2. seeds' \in Nat /\ seeds <= seeds' /\ seeds \in 0..MaxRequests
  BY BoundsAssumption DEF Typed, TypeOK
<1>3. /\ request' \in [Workers -> Request]
      /\ \A x \in Workers : Readable(request'[x].file)
      /\ \A x \in Workers : Borne(request'[x], seeds')
  BY <1>2, SessionTyped
<1>4. sent' \in 0..MaxRequests /\ restarts' \in 0..MaxRestarts /\ seeds' <= sent' /\ seeds' \in 0..MaxRequests
  BY <1>2, SentTyped
<1>5. 1..seeds \subseteq 1..seeds'
  BY <1>2
<1>6. /\ accounts' \subseteq known' /\ known' \subseteq Users /\ live' \subseteq Made'
      /\ marred' \subseteq 1..seeds' /\ replaced' \subseteq Ids
  BY <1>1, <1>5 DEF Typed, TypeOK
<1> QED
  BY <1>1, <1>2, <1>3, <1>4, <1>6, TypedFrom

LEMMA RegisterTyped == ASSUME Typed, NEW u \in Users, Register(u) PROVE Typed'
<1>1. RowsStay /\ Made' = Made
  BY SameRows DEF Register
<1>2. sent' \in 0..MaxRequests /\ restarts' \in 0..MaxRestarts /\ seeds <= sent'
  BY SentTyped DEF Register
<1>3. /\ accounts' \subseteq known' /\ known' \subseteq Users /\ live' \subseteq Made'
      /\ UNCHANGED <<files, request, seeds, marred, replaced>>
      /\ seeds \in 0..MaxRequests /\ seeds <= seeds /\ marred \subseteq 1..seeds
      /\ replaced \subseteq Ids /\ request \in [Workers -> Request]
  BY <1>1 DEF Register, Typed, TypeOK
<1>4. \A x \in Workers : Readable(request[x].file) /\ Borne(request[x], seeds)
  BY DEF Typed, At, Borne
<1> QED
  BY <1>1, <1>2, <1>3, <1>4, TypedFrom

LEMMA RestartTyped == ASSUME Typed, Restart PROVE Typed'
<1>1. RowsStay /\ Made' = Made
  BY SameRows DEF Restart
<1>2. Idle \in Request /\ Readable(Idle.file) /\ Borne(Idle, seeds)
  BY IdleTyped DEF Readable
<1>3. request' = [x \in Workers |-> Idle]
  BY DEF Restart
<1>4. /\ request' \in [Workers -> Request]
      /\ \A x \in Workers : Readable(request'[x].file) /\ Borne(request'[x], seeds)
  <2> HIDE DEF Idle
  <2> QED
    BY <1>2, <1>3
<1>5. sent' \in 0..MaxRequests /\ restarts' \in 0..MaxRestarts /\ seeds <= sent'
  BY BoundsAssumption DEF Restart, Typed, TypeOK
<1>6. marred' \subseteq 1..seeds
  BY DEF Restart, InFlight, Typed, TypeOK
<1>7. /\ accounts' \subseteq known' /\ known' \subseteq Users /\ live' \subseteq Made'
      /\ UNCHANGED <<files, seeds, replaced>>
      /\ seeds \in 0..MaxRequests /\ seeds <= seeds
      /\ replaced \subseteq Ids
  BY <1>1 DEF Restart, Typed, TypeOK
<1> QED
  BY <1>1, <1>4, <1>5, <1>6, <1>7, TypedFrom

LEMMA NextTyped == ASSUME Typed, [Next]_vars PROVE Typed'
<1>0. Idle \in Request /\ Readable(Idle.file) /\ Idle.stage = "idle" /\ \A n : Borne(Idle, n)
  BY IdleTyped DEF Readable
<1>1. CASE UNCHANGED vars
  BY <1>1 DEF Typed, TypeOK, Readable, Made, At, vars
<1>2. ASSUME NEW u \in Users, Register(u) PROVE Typed'
  BY <1>2, RegisterTyped
<1>3. ASSUME NEW w \in Workers, NEW u \in Users, ResetAccount(w, u) PROVE Typed'
  <2>1. DeletedByReset(u) \subseteq live
    BY DEF DeletedByReset, ToolData, RowsIn
  <2> QED
    BY <1>0, <1>3, <2>1, TypedRemove DEF ResetAccount
<1>4. ASSUME NEW w \in Workers, NEW u \in Users, StartSeed(w, u) PROVE Typed'
  <2> DEFINE r == [Idle EXCEPT !.stage = "seed", !.user = u, !.seed = seeds + 1, !.before = live]
  <2>1. seeds + 1 \in 0..MaxRequests /\ seeds + 1 \in 1..(seeds + 1) /\ seeds \in Nat
    BY <1>4, SentTyped DEF StartSeed
  <2>2. live \subseteq Ids
    BY DEF Typed, Made
  <2>3. /\ r \in Request /\ r.file = Idle.file /\ r.stage = "seed" /\ r.user = u
        /\ r.seed = seeds + 1
    BY <1>0, <2>1, <2>2 DEF Request
  <2>4. /\ request' = [request EXCEPT ![w] = r] /\ seeds' = seeds + 1 /\ Send
        /\ UNCHANGED <<accounts, known, row, live, files, marred, replaced>>
    BY <1>4 DEF StartSeed
  <2> HIDE DEF r
  <2>5. /\ Readable(r.file) /\ seeds' \in {seeds, seeds + 1} /\ r.seed \in 1..seeds'
        /\ \A f \in files' : f \in files \/ Readable(f)
    BY <1>0, <2>1, <2>3, <2>4
  <2>6. Borne(r, seeds')
    BY <2>3, <2>5 DEF Borne
  <2>7. Send \/ (seeds' = seeds /\ UNCHANGED <<sent, restarts>>)
    BY <2>4
  <2>8. r \in Request /\ request' = [request EXCEPT ![w] = r]
    BY <2>3, <2>4
  <2>9. UNCHANGED <<accounts, known, row, live, marred, replaced>>
    BY <2>4
  <2> QED
    BY <2>5, <2>6, <2>7, <2>8, <2>9, SessionStepTyped
<1>5. ASSUME NEW w \in Workers, NEW i \in Ids, NEW t \in Tables, CreateRow(w, i, t) PROVE Typed'
  BY <1>5, CreateTyped
<1>6. ASSUME NEW w \in Workers, NEW i \in Ids, NEW j \in Ids, SeedTable(w, i, j) PROVE Typed'
  BY <1>6, SeedTableTyped
<1>7. ASSUME NEW w \in Workers, NEW i \in Ids, SeedRecords(w, i) PROVE Typed'
  BY <1>7, SeedRecordsTyped
<1>8. ASSUME NEW w \in Workers, NEW kind \in {"backup", "zip"}, NEW scope \in Users \cup {All},
             StartExport(w, kind, scope) PROVE Typed'
  BY <1>8, StartExportTyped
<1>9. ASSUME NEW w \in Workers, NEW f \in files \cup {ForeignFile}, Import(w, f) PROVE Typed'
  BY <1>9, ImportTyped
<1>10. ASSUME NEW w \in Workers, SeedFinish(w) PROVE Typed'
  BY <1>0, <1>10, SessionStepTyped DEF SeedFinish
<1>11. ASSUME NEW w \in Workers, SeedFail(w) PROVE Typed'
  <2>1. DeletedByFailure(w) \subseteq live
    BY DEF DeletedByFailure, ToolData, RowsIn
  <2> QED
    BY <1>0, <1>11, <2>1, TypedRemove DEF SeedFail
<1>12. ASSUME NEW w \in Workers, ReadTable(w) PROVE Typed'
  <2> DEFINE r == request[w]
             s == [r EXCEPT !.file.rows = @ \cup Selected(Head(r.next), r.file.scope), !.next = Tail(@)]
  <2>1. s \in Request /\ Borne(s, seeds) /\ Readable(s.file)
    BY <1>12, ReadTyped DEF ReadTable, Borne
  <2>2. /\ request' = [request EXCEPT ![w] = s] /\ UNCHANGED <<sent, restarts>>
        /\ UNCHANGED <<accounts, known, row, live, files, seeds, marred, replaced>>
    BY <1>12 DEF ReadTable
  <2> HIDE DEF s
  <2> QED
    BY <2>1, <2>2, SessionStepTyped
<1>13. ASSUME NEW w \in Workers, FinishExport(w) PROVE Typed'
  <2>1. Readable(request[w].file)
    BY DEF Typed
  <2>2. \A f \in files' : f \in files \/ Readable(f)
    BY <1>13, <2>1 DEF FinishExport
  <2> QED
    BY <1>0, <1>13, <2>2, SessionStepTyped DEF FinishExport
<1>14. CASE Restart
  BY <1>14, RestartTyped
<1>15. CASE Silence
  BY <1>1, <1>15 DEF Silence
<1>16. ASSUME NEW w \in Workers, NEW u \in Users, StartCreate(w, u) PROVE Typed'
  <2> DEFINE r == [Idle EXCEPT !.stage = "create", !.user = u]
  <2>1. r \in Request /\ r.file = Idle.file /\ r.stage = "create" /\ r.user = u
    BY <1>0 DEF Request
  <2>2. /\ request' = [request EXCEPT ![w] = r] /\ Send
        /\ UNCHANGED <<accounts, known, row, live, files, seeds, marred, replaced>>
    BY <1>16 DEF StartCreate
  <2> HIDE DEF r
  <2>3. Readable(r.file) /\ Borne(r, seeds')
    BY <1>0, <2>1 DEF Borne
  <2> QED
    BY <2>1, <2>2, <2>3, SessionStepTyped
<1>17. ASSUME NEW w \in Workers, NEW u \in Users, NEW rows \in SUBSET Ids, StartDelete(w, u, rows)
       PROVE  Typed'
  <2> DEFINE r == [Idle EXCEPT !.stage = "delete", !.user = u, !.held = rows]
  <2>1. r \in Request /\ r.file = Idle.file /\ r.stage = "delete"
    BY <1>0 DEF Request
  <2>2. /\ request' = [request EXCEPT ![w] = r] /\ Send
        /\ UNCHANGED <<accounts, known, row, live, files, seeds, marred, replaced>>
    BY <1>17 DEF StartDelete
  <2> HIDE DEF r
  <2>3. Readable(r.file) /\ Borne(r, seeds')
    BY <1>0, <2>1 DEF Borne
  <2> QED
    BY <2>1, <2>2, <2>3, SessionStepTyped
<1>18. ASSUME NEW w \in Workers, NEW rows \in SUBSET Ids, DeleteRows(w, rows) PROVE Typed'
  <2> DEFINE r == [request[w] EXCEPT !.held = @ \ rows]
  <2>1. r \in Request /\ Readable(r.file) /\ Borne(r, seeds)
    BY <1>18, Deleting DEF DeleteRows
  <2>2. rows \cap live \in SUBSET live
    OBVIOUS
  <2> HIDE DEF r
  <2> QED
    BY <1>18, <2>1, <2>2, TypedRemove DEF DeleteRows, r
<1>19. ASSUME NEW w \in Workers, EndDoor(w) PROVE Typed'
  BY <1>0, <1>19, SessionStepTyped DEF EndDoor
<1> QED
  BY <1>1, <1>2, <1>3, <1>4, <1>5, <1>6, <1>7, <1>8, <1>9, <1>10, <1>11, <1>12, <1>13, <1>14,
     <1>15, <1>16, <1>17, <1>18, <1>19 DEF Next

LEMMA InitTyped == Init => Typed
<1> SUFFICES ASSUME Init PROVE Typed
  OBVIOUS
<1>1. row \in [Ids -> Row \cup {None}] /\ Made = {}
  BY DEF Init, Made
<1>2. request \in [Workers -> Request]
  <2> HIDE DEF Idle
  <2> QED
    BY IdleTyped DEF Init
<1>3. \A w \in Workers : request[w] = Idle
  BY DEF Init
<1>4. \A w \in Workers : Readable(request[w].file) /\ request[w].stage = "idle"
  BY <1>3, IdleTyped DEF Readable
<1> QED
  BY <1>1, <1>2, <1>4, BoundsAssumption DEF Init, Typed, TypeOK, At

-----------------------------------------------------------------------------
(* Seeds. *)

\* What a seed that is under way has made, and what it found.
Underway(w) ==
  LET r == request[w] IN
  /\ SeedRows(r.seed) = r.held
  /\ IsFiniteSet(r.held) /\ Cardinality(r.held) \in {0, 1, DemoSize}
  /\ \A i \in r.held : row[i].owner = r.user /\ row[i].table \in ToolTables
  /\ Cardinality(r.held) = 1 => \A i \in r.held : row[i].table = "record"
  /\ r.seed \in marred \/ r.held \subseteq live
  /\ r.before \subseteq Made
  /\ \A i \in r.before : row[i].owner = r.user => row[i].table \notin ToolTables

Whole(s) ==
  /\ SeedRows(s) \subseteq live /\ IsFiniteSet(SeedRows(s))
  /\ Cardinality(SeedRows(s)) = DemoSize

Settled(s) == s \in marred \/ SeedRows(s) \cap live = {} \/ Whole(s)

SeedInv ==
  /\ \A v, w \in Workers :
       At(v, "seed") /\ At(w, "seed") /\ v # w => request[v].seed # request[w].seed
  /\ \A w \in Workers : At(w, "seed") => Underway(w)
  /\ \A s \in 1..seeds : s \in InFlight \/ Settled(s)

SameSeed(x) ==
  /\ At(x, "seed") /\ request'[x].stage = "seed" /\ request'[x].user = request[x].user
  /\ request'[x].seed = request[x].seed /\ request'[x].held = request[x].held
  /\ request'[x].before = request[x].before

NoSeed(x) == ~At(x, "seed") /\ request'[x].stage # "seed"

\* A step that makes no row of a seed, and settles the seed that it ends.
LEMMA SeedsKept ==
  ASSUME Typed, SeedInv, RowsStay, seeds' = seeds, marred \subseteq marred',
         \A s \in 1..seeds : SeedRows(s)' = SeedRows(s),
         \A x \in Workers : \/ SameSeed(x) \/ NoSeed(x)
                            \/ /\ At(x, "seed") /\ request'[x].stage # "seed"
                               /\ \E s \in 1..seeds : s = request[x].seed /\ Settled(s)',
         \A s \in 1..seeds : Settled(s)' \/ SeedRows(s) \cap live' = SeedRows(s) \cap live,
         \A x \in Workers : SameSeed(x) =>
           \/ request[x].seed \in marred'
           \/ SeedRows(request[x].seed) \cap live' = SeedRows(request[x].seed) \cap live
  PROVE  SeedInv'
<1>0. \A x \in Workers : At(x, "seed") => request[x].seed \in 1..seeds
  BY DEF Typed
<1>1. ASSUME NEW x \in Workers, request'[x].stage = "seed" PROVE Underway(x)'
  <2>1. SameSeed(x) /\ Underway(x) /\ At(x, "seed")
    BY <1>1 DEF SeedInv, NoSeed, SameSeed
  <2>2. PICK s \in 1..seeds : s = request[x].seed
    BY <1>0, <2>1
  <2>3. request'[x].seed = s /\ request'[x].held = request[x].held /\ request'[x].before = request[x].before
    BY <2>1, <2>2 DEF SameSeed
  <2>4. {i \in Ids : row'[i] # None /\ row'[i].seed = s} = request[x].held
    <3>1. SeedRows(s)' = SeedRows(s) /\ SeedRows(s) = request[x].held
      BY <2>1, <2>2 DEF Underway
    <3> QED
      BY <3>1 DEF SeedRows
  <2>5. request[x].held \subseteq Made
    BY <2>1 DEF Underway, SeedRows, Made
  <2>6. request[x].before \subseteq Made /\ Made \subseteq Made'
    BY <2>1, StaysMade DEF Underway
  <2>7. \A i \in Made : row'[i] = row[i]
    BY DEF RowsStay
  <2>8. s \in marred' \/ request[x].held \subseteq live'
    BY <2>1, <2>2 DEF Underway
  <2>9. request'[x].user = request[x].user
    BY <2>1 DEF SameSeed
  <2>10. /\ \A i \in request[x].held : row'[i].owner = request'[x].user /\ row'[i].table \in ToolTables
         /\ Cardinality(request[x].held) = 1 => \A i \in request[x].held : row'[i].table = "record"
         /\ \A i \in request[x].before : row'[i].owner = request'[x].user => row'[i].table \notin ToolTables
    BY <2>1, <2>5, <2>6, <2>7, <2>9 DEF Underway
  <2>11. IsFiniteSet(request[x].held) /\ Cardinality(request[x].held) \in {0, 1, DemoSize}
    BY <2>1 DEF Underway
  <2> QED
    BY <2>3, <2>4, <2>6, <2>8, <2>10, <2>11 DEF Underway, SeedRows
<1>2. ASSUME NEW s \in 1..seeds PROVE s \in InFlight' \/ Settled(s)'
  <2>1. CASE s \in InFlight
    <3>1. PICK x \in Workers : At(x, "seed") /\ request[x].seed = s
      BY <2>1 DEF InFlight
    <3>2. CASE SameSeed(x)
      BY <3>1, <3>2 DEF SameSeed, InFlight, At
    <3>3. CASE ~SameSeed(x)
      <4>1. \E q \in 1..seeds : q = request[x].seed /\ Settled(q)'
        BY <3>1, <3>3 DEF NoSeed
      <4> QED
        BY <3>1, <4>1
    <3> QED
      BY <3>2, <3>3
  <2>2. CASE s \notin InFlight /\ ~Settled(s)'
    <3>1. SeedRows(s)' = SeedRows(s) /\ SeedRows(s) \cap live' = SeedRows(s) \cap live /\ Settled(s)
      BY <2>2 DEF SeedInv
    <3> QED
      BY <3>1 DEF Settled, Whole
  <2> QED
    BY <2>1, <2>2
<1>3. ASSUME NEW v \in Workers, NEW w \in Workers, request'[v].stage = "seed",
             request'[w].stage = "seed", v # w
      PROVE  request'[v].seed # request'[w].seed
  <2>1. SameSeed(v) /\ SameSeed(w)
    BY <1>3 DEF NoSeed
  <2> QED
    BY <1>3, <2>1 DEF SameSeed, SeedInv
<1> QED
  BY <1>1, <1>2, <1>3 DEF SeedInv, At

LEMMA SeenSeed ==
  ASSUME NEW x \in Workers, NEW removed, Seen(x, removed)
  PROVE  SameSeed(x) \/ NoSeed(x)
BY DEF Seen, SameSeed, NoSeed, At

LEMMA SameSeedRows ==
  ASSUME Typed, UNCHANGED row
  PROVE  \A s : SeedRows(s)' = SeedRows(s)
BY DEF SeedRows

LEMMA CreateSeeds ==
  ASSUME Typed, SeedInv, NEW w \in Workers, NEW i \in Ids, NEW t \in Tables, CreateRow(w, i, t)
  PROVE  SeedInv'
<1> DEFINE d == [table |-> t, owner |-> request[w].user, seed |-> 0]
           made == [x \in {i} |-> d]
<1>1. d \in Row /\ d.seed = 0
  BY BoundsAssumption DEF CreateRow, Row, Typed
<1>2. DOMAIN made = {i} /\ \A x \in DOMAIN made : made[x] \in Row
  BY <1>1
<1>3. /\ Make(w, Idle, made) /\ At(w, "create")
      /\ UNCHANGED <<accounts, known, files, seeds, marred, replaced>>
  BY DEF CreateRow
<1>4. Idle \in Request /\ Idle.stage = "idle"
  BY IdleTyped
<1> HIDE DEF Idle, made, d
<1>5. /\ RowsStay /\ live' = live \cup {i} /\ i \notin Made /\ row'[i] = made[i]
      /\ \A x \in Ids \ {i} : row'[x] = row[x]
  BY <1>2, <1>3, MakeEffect
<1>6. row'[i].seed = 0
  BY <1>1, <1>5 DEF made
<1>7. \A s \in 1..seeds : SeedRows(s)' = SeedRows(s) /\ i \notin SeedRows(s)
  BY <1>5, <1>6 DEF SeedRows, Made
<1>8. request'[w] = Idle /\ \A x \in Workers \ {w} : Seen(x, {})
  BY <1>2, <1>3, <1>4, NoticeEffect DEF Make, Typed, TypeOK
<1>9. \A x \in Workers : SameSeed(x) \/ NoSeed(x)
  BY <1>3, <1>4, <1>8, SeenSeed DEF NoSeed, At
<1>10. \A s \in 1..seeds : SeedRows(s) \cap live' = SeedRows(s) \cap live
  BY <1>5, <1>7
<1>11. \A x \in Workers : At(x, "seed") => request[x].seed \in 1..seeds
  BY DEF Typed
<1>12. \A x \in Workers : SameSeed(x) =>
         SeedRows(request[x].seed) \cap live' = SeedRows(request[x].seed) \cap live
  BY <1>10, <1>11 DEF SameSeed
<1> QED
  BY <1>3, <1>5, <1>7, <1>9, <1>10, <1>12, SeedsKept

\* Rows of seeds that are removed or brought back mar them, all but the one that fails.
LEMMA MovedSeeds ==
  ASSUME Typed, NEW rows \in SUBSET Made, NEW but,
         live \ rows \subseteq live', live' \subseteq live \cup rows,
         marred' = marred \cup Marred(rows, but)
  PROVE  \A s \in 1..seeds : s = but \/ s \in marred' \/ SeedRows(s) \cap live' = SeedRows(s) \cap live
<1> TAKE s \in 1..seeds
<1> SUFFICES ASSUME s # but, s \notin marred' PROVE SeedRows(s) \cap live' = SeedRows(s) \cap live
  OBVIOUS
<1>1. \A i \in rows : row[i].seed \in Marred(rows, but) \cup {0, but}
  BY MarredTyped
<1>2. SeedRows(s) \cap rows = {}
  BY <1>1 DEF SeedRows
<1> QED
  BY <1>2

\* A session that makes no seed removes rows.
LEMMA RemoveSeeds ==
  ASSUME Typed, SeedInv, NEW w \in Workers, ~At(w, "seed"), NEW rows \in SUBSET live,
         NEW r \in Request, r.stage # "seed",
         RemoveRows(w, r, rows, 0), UNCHANGED <<known, row, seeds>>
  PROVE  SeedInv'
<1>1. rows \subseteq Made
  BY DEF Typed
<1>2. /\ Notice(w, r, rows) /\ live' = live \ rows
      /\ marred' = marred \cup Marred(rows, 0)
  BY DEF RemoveRows
<1>4. request'[w] = r /\ \A x \in Workers \ {w} : Seen(x, rows)
  BY <1>2, NoticeEffect DEF Typed, TypeOK
<1>5. \A x \in Workers : SameSeed(x) \/ NoSeed(x)
  BY <1>2, <1>4, SeenSeed DEF NoSeed, At
<1>6. \A s \in 1..seeds : s \in marred' \/ SeedRows(s) \cap live' = SeedRows(s) \cap live
  <2>1. \A s \in 1..seeds : s = 0 \/ s \in marred' \/ SeedRows(s) \cap live' = SeedRows(s) \cap live
    BY <1>1, <1>2, MovedSeeds
  <2> QED
    BY <2>1
<1>7. \A s : SeedRows(s)' = SeedRows(s)
  BY <1>2, SameSeedRows
<1>8. RowsStay
  BY <1>2, SameRows
<1>9. \A s \in 1..seeds : Settled(s)' \/ SeedRows(s) \cap live' = SeedRows(s) \cap live
  BY <1>6 DEF Settled
<1>10. \A x \in Workers : At(x, "seed") => request[x].seed \in 1..seeds
  BY DEF Typed
<1>11. \A x \in Workers : SameSeed(x) =>
         \/ request[x].seed \in marred'
         \/ SeedRows(request[x].seed) \cap live' = SeedRows(request[x].seed) \cap live
  BY <1>6, <1>10 DEF SameSeed
<1> QED
  BY <1>2, <1>5, <1>7, <1>8, <1>9, <1>11, SeedsKept

LEMMA ImportSeeds ==
  ASSUME Typed, SeedInv, NEW w \in Workers, NEW f \in files \cup {ForeignFile}, Import(w, f)
  PROVE  SeedInv'
<1> DEFINE cleared == Covered("backup", f.scope)
<1>1. f.rows \subseteq Made /\ cleared \subseteq Made /\ f.rows \subseteq Ids
  BY ImportTyped DEF Typed, Readable, Covered, RowsIn, Made
<1>2. /\ Notice(w, Idle, cleared) /\ live' = (live \ cleared) \cup f.rows /\ At(w, "idle")
      /\ marred' = marred \cup Marred(cleared \cup f.rows, 0)
      /\ UNCHANGED <<row, known, files, seeds>>
  BY DEF Import
<1>3. Idle \in Request /\ Idle.stage = "idle"
  BY IdleTyped
<1> HIDE DEF Idle, cleared
<1>4. request'[w] = Idle /\ \A x \in Workers \ {w} : Seen(x, cleared)
  BY <1>1, <1>2, <1>3, NoticeEffect DEF Typed, TypeOK
<1>5. \A x \in Workers : SameSeed(x) \/ NoSeed(x)
  BY <1>2, <1>3, <1>4, SeenSeed DEF NoSeed, At
<1>6. \A s \in 1..seeds : s \in marred' \/ SeedRows(s) \cap live' = SeedRows(s) \cap live
  <2>1. live \ (cleared \cup f.rows) \subseteq live' /\ live' \subseteq live \cup (cleared \cup f.rows)
    BY <1>2
  <2>2. cleared \cup f.rows \in SUBSET Made
    BY <1>1
  <2>3. \A s \in 1..seeds : s = 0 \/ s \in marred' \/ SeedRows(s) \cap live' = SeedRows(s) \cap live
    BY <1>2, <2>1, <2>2, MovedSeeds
  <2> QED
    BY <2>3
<1>7. \A s : SeedRows(s)' = SeedRows(s)
  BY <1>2, SameSeedRows
<1>8. RowsStay
  BY <1>2, SameRows
<1>9. \A s \in 1..seeds : Settled(s)' \/ SeedRows(s) \cap live' = SeedRows(s) \cap live
  BY <1>6 DEF Settled
<1>10. \A x \in Workers : At(x, "seed") => request[x].seed \in 1..seeds
  BY DEF Typed
<1>11. \A x \in Workers : SameSeed(x) =>
         \/ request[x].seed \in marred'
         \/ SeedRows(request[x].seed) \cap live' = SeedRows(request[x].seed) \cap live
  BY <1>6, <1>10 DEF SameSeed
<1> QED
  BY <1>2, <1>5, <1>7, <1>8, <1>9, <1>11, SeedsKept

LEMMA FailSeeds ==
  ASSUME Typed, SeedInv, NEW w \in Workers, SeedFail(w)
  PROVE  SeedInv'
<1> DEFINE rows == DeletedByFailure(w)
           u == request[w].user
<1>1. rows \subseteq live /\ rows \subseteq Made
  BY DEF DeletedByFailure, ToolData, RowsIn, Typed
<1>2. PICK q \in 1..seeds : q = request[w].seed
  BY DEF SeedFail, Typed
<1>3. /\ Notice(w, Idle, rows) /\ live' = live \ rows /\ At(w, "seed")
      /\ marred' = marred \cup Marred(rows, q)
      /\ UNCHANGED <<accounts, known, row, files, seeds>>
  BY <1>2 DEF SeedFail, RemoveRows
<1>4. Idle \in Request /\ Idle.stage = "idle"
  BY IdleTyped
<1>5. Settled(q)'
  <2>1. Underway(w) /\ SeedRows(q) = request[w].held
    BY <1>2, <1>3 DEF SeedInv, Underway
  <2>2. \A i \in SeedRows(q) : row[i].owner = u /\ row[i].table \in ToolTables
    BY <2>1 DEF Underway
  <2>3. SeedRows(q) \cap live \subseteq rows
    BY <2>2 DEF DeletedByFailure, ToolData, RowsIn
  <2>4. SeedRows(q)' = SeedRows(q)
    BY <1>3, SameSeedRows
  <2>5. SeedRows(q)' \cap live' = {}
    BY <1>3, <2>3, <2>4
  <2> QED
    BY <2>5 DEF Settled
<1> HIDE DEF Idle, rows, u
<1>6. request'[w] = Idle /\ \A x \in Workers \ {w} : Seen(x, rows)
  BY <1>3, <1>4, NoticeEffect DEF Typed, TypeOK
<1>7. \A x \in Workers \ {w} : SameSeed(x) \/ NoSeed(x)
  BY <1>6, SeenSeed
<1>8. \A s \in 1..seeds : s = q \/ s \in marred' \/ SeedRows(s) \cap live' = SeedRows(s) \cap live
  BY <1>1, <1>3, MovedSeeds
<1>9. \A s : SeedRows(s)' = SeedRows(s)
  BY <1>3, SameSeedRows
<1>10. RowsStay
  BY <1>3, SameRows
<1>11. \A s \in 1..seeds : Settled(s)' \/ SeedRows(s) \cap live' = SeedRows(s) \cap live
  BY <1>5, <1>8 DEF Settled
<1>12. \A x \in Workers : SameSeed(x) =>
         \/ request[x].seed \in marred'
         \/ SeedRows(request[x].seed) \cap live' = SeedRows(request[x].seed) \cap live
  <2> TAKE x \in Workers
  <2>1. CASE SameSeed(x)
    <3>1. At(x, "seed") /\ x # w
      BY <1>4, <1>6, <2>1 DEF SameSeed
    <3>2. request[x].seed \in 1..seeds /\ request[x].seed # q
      BY <1>2, <1>3, <3>1 DEF SeedInv, Typed
    <3> QED
      BY <1>8, <3>2
  <2> QED
    BY <2>1
<1>13. \A x \in Workers : \/ SameSeed(x) \/ NoSeed(x)
                          \/ /\ At(x, "seed") /\ request'[x].stage # "seed"
                             /\ \E s \in 1..seeds : s = request[x].seed /\ Settled(s)'
  BY <1>2, <1>3, <1>4, <1>5, <1>6, <1>7
<1> QED
  BY <1>3, <1>9, <1>10, <1>11, <1>12, <1>13, SeedsKept

\* A session that makes rows of its own seed.
LEMMA MakeSeeds ==
  ASSUME Typed, SeedInv, NEW w \in Workers, At(w, "seed"), NEW made, NEW rows,
         rows = request[w].held \cup DOMAIN made,
         Make(w, [request[w] EXCEPT !.held = rows], made),
         DOMAIN made \subseteq Ids, \A i \in DOMAIN made : made[i] \in Row,
         \A i \in DOMAIN made : /\ made[i].seed = request[w].seed
                                /\ made[i].owner = request[w].user /\ made[i].table \in ToolTables,
         IsFiniteSet(rows), Cardinality(rows) \in {0, 1, DemoSize},
         Cardinality(rows) = 1 => request[w].held = {} /\ \A i \in DOMAIN made : made[i].table = "record",
         UNCHANGED <<known, seeds, marred>>
  PROVE  SeedInv'
<1> DEFINE r == [request[w] EXCEPT !.held = rows]
<1>1. PICK q \in 1..seeds : q = request[w].seed
  BY DEF Typed
<1>2. /\ RowsStay /\ live' = live \cup DOMAIN made /\ Made' = Made \cup DOMAIN made
      /\ \A i \in DOMAIN made : i \notin Made /\ row'[i] = made[i]
      /\ \A i \in Ids \ DOMAIN made : row'[i] = row[i]
  BY MakeEffect
<1>3. Underway(w) /\ request[w].held = SeedRows(q) /\ request[w].held \subseteq Made
  BY <1>1 DEF SeedInv, Underway, SeedRows, Made
<1>4. rows \in SUBSET Ids /\ DOMAIN made \in SUBSET Ids
  BY <1>3 DEF Made
<1>5. /\ r \in Request /\ r.stage = "seed" /\ r.user = request[w].user
      /\ r.seed = q /\ r.held = rows /\ r.before = request[w].before
  BY <1>1, <1>4, GoesOn DEF At
<1> HIDE DEF r
<1>6. request'[w] = r /\ \A x \in Workers \ {w} : Seen(x, {})
  <2>1. Notice(w, r, {})
    BY DEF Make, r
  <2> QED
    BY <1>4, <1>5, <2>1, NoticeEffect DEF Typed, TypeOK
<1>7. \A x \in Workers \ {w} : SameSeed(x) \/ NoSeed(x)
  BY <1>6, SeenSeed
<1>8. \A i \in DOMAIN made : row'[i] # None /\ row'[i].seed = q
  BY <1>1, <1>2, NoneAssumption
<1>9. {i \in Ids : row'[i] # None /\ row'[i].seed = q} = rows
  <2>1. \A i \in Ids \ DOMAIN made : row'[i] # None /\ row'[i].seed = q <=> i \in SeedRows(q)
    BY <1>2 DEF SeedRows
  <2>2. \A i \in DOMAIN made : i \in rows /\ i \in Ids
    OBVIOUS
  <2> QED
    BY <1>3, <1>8, <2>1, <2>2 DEF SeedRows
<1>10. \A s \in 1..seeds : s # q => SeedRows(s)' = SeedRows(s) /\ SeedRows(s) \cap live' = SeedRows(s) \cap live
  BY <1>2, <1>8 DEF SeedRows, Made
<1>11. Underway(w)'
  <2>1. q \in marred' \/ rows \subseteq live'
    BY <1>1, <1>2, <1>3 DEF Underway
  <2>2. request[w].before \subseteq Made /\ Made \subseteq Made'
    BY <1>2, <1>3 DEF Underway
  <2>3. \A i \in Made : row'[i] = row[i]
    BY <1>2 DEF RowsStay
  <2>4. \A i \in rows : row'[i].owner = request[w].user /\ row'[i].table \in ToolTables
    BY <1>2, <1>3, <2>3 DEF Underway
  <2>5. IsFiniteSet(rows) /\ Cardinality(rows) \in {0, 1, DemoSize}
    BY <1>2
  <2>6. Cardinality(rows) = 1 => \A i \in rows : row'[i].table = "record"
    BY <1>2
  <2>7. \A i \in request[w].before : row'[i].owner = request[w].user => row'[i].table \notin ToolTables
    BY <1>3, <2>2, <2>3 DEF Underway
  <2> QED
    BY <1>5, <1>6, <1>9, <2>1, <2>2, <2>4, <2>5, <2>6, <2>7 DEF Underway, SeedRows
<1>12. ASSUME NEW x \in Workers, x # w, request'[x].stage = "seed" PROVE Underway(x)'
  <2>1. SameSeed(x) /\ Underway(x) /\ At(x, "seed")
    BY <1>7, <1>12 DEF SeedInv, NoSeed, SameSeed
  <2>2. PICK s \in 1..seeds : s = request[x].seed
    BY <2>1 DEF Typed
  <2>3. /\ request'[x].seed = s /\ request'[x].held = request[x].held
        /\ request'[x].before = request[x].before /\ request'[x].user = request[x].user /\ s # q
    BY <1>1, <1>12, <2>1, <2>2 DEF SameSeed, SeedInv
  <2>4. {i \in Ids : row'[i] # None /\ row'[i].seed = s} = request[x].held
    BY <1>10, <2>1, <2>2, <2>3 DEF SeedRows, Underway
  <2>5. request[x].held \subseteq Made
    BY <2>1 DEF Underway, SeedRows, Made
  <2>6. request[x].before \subseteq Made /\ Made \subseteq Made'
    BY <1>2, <2>1 DEF Underway
  <2>7. \A i \in Made : row'[i] = row[i]
    BY <1>2 DEF RowsStay
  <2>8. s \in marred' \/ request[x].held \subseteq live'
    BY <1>2, <2>1, <2>2 DEF Underway
  <2>9. /\ \A i \in request[x].held : row'[i].owner = request'[x].user /\ row'[i].table \in ToolTables
        /\ Cardinality(request[x].held) = 1 => \A i \in request[x].held : row'[i].table = "record"
        /\ \A i \in request[x].before : row'[i].owner = request'[x].user => row'[i].table \notin ToolTables
        /\ IsFiniteSet(request[x].held) /\ Cardinality(request[x].held) \in {0, 1, DemoSize}
    BY <2>1, <2>3, <2>5, <2>6, <2>7 DEF Underway
  <2> QED
    BY <2>3, <2>4, <2>6, <2>8, <2>9 DEF Underway, SeedRows
<1>13. ASSUME NEW s \in 1..seeds PROVE s \in InFlight' \/ Settled(s)'
  <2>1. CASE s = q
    BY <1>5, <1>6, <2>1 DEF InFlight, At
  <2>2. CASE s # q /\ s \in InFlight
    <3>1. PICK x \in Workers : At(x, "seed") /\ request[x].seed = s /\ x # w
      BY <1>1, <2>2 DEF InFlight
    <3>2. SameSeed(x)
      BY <1>7, <3>1 DEF NoSeed
    <3> QED
      BY <3>1, <3>2 DEF SameSeed, InFlight, At
  <2>3. CASE s # q /\ s \notin InFlight
    <3>1. SeedRows(s)' = SeedRows(s) /\ SeedRows(s) \cap live' = SeedRows(s) \cap live /\ Settled(s)
      BY <1>10, <2>3 DEF SeedInv
    <3> QED
      BY <3>1 DEF Settled, Whole
  <2> QED
    BY <2>1, <2>2, <2>3
<1>14. ASSUME NEW x \in Workers, NEW v \in Workers, request'[v].stage = "seed",
              request'[x].stage = "seed", v # x
       PROVE  request'[v].seed # request'[x].seed
  <2>1. \A y \in Workers : request'[y].stage = "seed" =>
          At(y, "seed") /\ request'[y].seed = request[y].seed
    BY <1>1, <1>5, <1>6, <1>7 DEF NoSeed, SameSeed
  <2> QED
    BY <1>14, <2>1 DEF SeedInv
<1> QED
  BY <1>11, <1>12, <1>13, <1>14 DEF SeedInv, At

LEMMA SeedRecordsSeeds ==
  ASSUME Typed, SeedInv, NEW w \in Workers, NEW i \in Ids, SeedRecords(w, i)
  PROVE  SeedInv'
<1> DEFINE d == DemoRow(w, "record")
           made == [x \in {i} |-> d]
<1>1. d \in Row /\ d.seed = request[w].seed /\ d.owner = request[w].user /\ d.table = "record"
  BY DemoTyped DEF SeedRecords, Tables
<1>2. DOMAIN made = {i} /\ \A x \in DOMAIN made : made[x] = d
  OBVIOUS
<1>3. /\ Make(w, [request[w] EXCEPT !.held = {i}], made) /\ At(w, "seed") /\ request[w].held = {}
      /\ UNCHANGED <<known, seeds, marred>>
  BY DEF SeedRecords
<1>4. IsFiniteSet({i}) /\ Cardinality({i}) = 1
  BY FS_Singleton
<1>5. {i} = request[w].held \cup DOMAIN made
  BY <1>2, <1>3
<1>6. "record" \in ToolTables
  BY DEF ToolTables
<1> HIDE DEF made, d
<1> QED
  BY <1>1, <1>2, <1>3, <1>4, <1>5, <1>6, MakeSeeds

LEMMA SeedTableSeeds ==
  ASSUME Typed, SeedInv, NEW w \in Workers, NEW i \in Ids, NEW j \in Ids, SeedTable(w, i, j)
  PROVE  SeedInv'
<1>1. Make(w, [request[w] EXCEPT !.held = @ \cup {i, j}],
           [x \in {i, j} |-> DemoRow(w, IF x = i THEN "setup" ELSE "entry")])
  BY DEF SeedTable
<1> DEFINE d == DemoRow(w, "setup")
           e == DemoRow(w, "entry")
           made == [x \in {i, j} |-> DemoRow(w, IF x = i THEN "setup" ELSE "entry")]
           rows == request[w].held \cup {i, j}
<1>2. /\ At(w, "seed") /\ Cardinality(request[w].held) = 1 /\ i # j
      /\ UNCHANGED <<known, seeds, marred>>
  BY DEF SeedTable
<1>3. IsFiniteSet(request[w].held) /\ request[w].held \subseteq Made /\ request[w].held \subseteq Ids
  BY <1>2 DEF SeedInv, Underway, SeedRows, Made
<1>4. /\ d \in Row /\ d.seed = request[w].seed /\ d.owner = request[w].user /\ d.table = "setup"
      /\ e \in Row /\ e.seed = request[w].seed /\ e.owner = request[w].user /\ e.table = "entry"
  BY <1>2, <1>3, DemoTyped DEF Tables
<1>5. DOMAIN made = {i, j} /\ \A x \in DOMAIN made : made[x] \in {d, e}
  OBVIOUS
<1>6. rows = request[w].held \cup DOMAIN made
  BY <1>5
<1>7. ASSUME DOMAIN made \cap Made = {} PROVE IsFiniteSet(rows) /\ Cardinality(rows) = 3
  <2>1. i \notin request[w].held /\ j \notin request[w].held \cup {i}
    BY <1>2, <1>3, <1>5, <1>7
  <2>2. IsFiniteSet(request[w].held \cup {i}) /\ Cardinality(request[w].held \cup {i}) = 2
    BY <1>2, <1>3, <2>1, FS_AddElement
  <2>3. /\ IsFiniteSet((request[w].held \cup {i}) \cup {j})
        /\ Cardinality((request[w].held \cup {i}) \cup {j}) = 3
    BY <2>1, <2>2, FS_AddElement
  <2>4. rows = (request[w].held \cup {i}) \cup {j}
    OBVIOUS
  <2> QED
    BY <2>3, <2>4
<1>8. DOMAIN made \cap Made = {}
  <2>1. \A x \in DOMAIN made : row[x] = None
    BY <1>1 DEF Make
  <2> QED
    BY <2>1 DEF Made
<1>9. "setup" \in ToolTables /\ "entry" \in ToolTables
  BY DEF ToolTables
<1>10. Make(w, [request[w] EXCEPT !.held = rows], made)
  BY <1>1
<1> HIDE DEF made, d, e, rows
<1>11. /\ DOMAIN made \subseteq Ids
       /\ \A x \in DOMAIN made : /\ made[x] \in Row /\ made[x].seed = request[w].seed
                                 /\ made[x].owner = request[w].user /\ made[x].table \in ToolTables
  BY <1>4, <1>5, <1>9
<1>12. IsFiniteSet(rows) /\ Cardinality(rows) \in {0, 1, DemoSize} /\ Cardinality(rows) # 1
  BY <1>7, <1>8 DEF DemoSize
<1> QED
  BY <1>2, <1>6, <1>10, <1>11, <1>12, MakeSeeds

\* Sessions that neither begin nor end a seed, over rows that stay.
LEMMA QuietSeeds ==
  ASSUME Typed, SeedInv, \A x \in Workers : SameSeed(x) \/ NoSeed(x),
         UNCHANGED <<row, live, seeds, marred>>, known \subseteq known'
  PROVE  SeedInv'
<1>1. RowsStay
  BY SameRows
<1>2. \A s : SeedRows(s)' = SeedRows(s) /\ SeedRows(s) \cap live' = SeedRows(s) \cap live
  BY SameSeedRows
<1> QED
  BY <1>1, <1>2, SeedsKept

LEMMA OtherSeeds ==
  ASSUME Typed, SeedInv, NEW w \in Workers, ~At(w, "seed"), NEW r, r.stage # "seed",
         request' = [request EXCEPT ![w] = r],
         UNCHANGED <<row, live, known, seeds, marred>>
  PROVE  SeedInv'
<1>1. request'[w] = r /\ \A x \in Workers \ {w} : request'[x] = request[x]
  BY DEF Typed, TypeOK
<1>2. \A x \in Workers : SameSeed(x) \/ NoSeed(x)
  BY <1>1 DEF SameSeed, NoSeed, At
<1> QED
  BY <1>2, QuietSeeds

LEMMA StartSeeds ==
  ASSUME Typed, SeedInv, NEW w \in Workers, NEW u \in Users, StartSeed(w, u)
  PROVE  SeedInv'
<1> DEFINE q == seeds + 1
           r == [Idle EXCEPT !.stage = "seed", !.user = u, !.seed = q, !.before = live]
<1>1. seeds \in Nat /\ q \in Nat /\ q \in 0..MaxRequests /\ seeds' = q
      /\ UNCHANGED <<row, live, known, marred>> /\ ToolData(u) = {} /\ At(w, "idle")
  BY SentTyped DEF StartSeed, HasToolData
<1>2. r.stage = "seed" /\ r.user = u /\ r.seed = q /\ r.before = live /\ r.held = {}
  BY DEF Idle
<1> HIDE DEF r
<1>3. request'[w] = r /\ \A x \in Workers \ {w} : request'[x] = request[x]
  <2>1. request' = [request EXCEPT ![w] = r]
    BY DEF StartSeed, r
  <2> QED
    BY <2>1 DEF Typed, TypeOK
<1>4. SeedRows(q) = {} /\ \A s : SeedRows(s)' = SeedRows(s)
  <2>1. \A i \in Ids : row[i] # None => row[i].seed \in 0..MaxRequests /\ row[i].seed <= seeds
    BY DEF Typed, TypeOK, Made, Row
  <2>2. SeedRows(q) = {}
    BY <1>1, <2>1 DEF SeedRows
  <2> QED
    BY <1>1, <2>2, SameSeedRows
<1>5. RowsStay /\ Made' = Made
  BY <1>1, SameRows
<1>6. Underway(w)'
  <2>1. {i \in Ids : row[i] # None /\ row[i].seed = q} = {}
    BY <1>4 DEF SeedRows
  <2>2. IsFiniteSet({}) /\ Cardinality({}) = 0
    BY FS_EmptySet
  <2>3. live \subseteq Made /\ \A i \in live : row[i].owner = u => row[i].table \notin ToolTables
    BY <1>1 DEF ToolData, RowsIn, Typed
  <2> QED
    BY <1>1, <1>2, <1>3, <1>5, <2>1, <2>2, <2>3 DEF Underway, SeedRows
<1>7. ASSUME NEW x \in Workers \ {w}, request'[x].stage = "seed" PROVE Underway(x)'
  <2>1. At(x, "seed") /\ request'[x] = request[x] /\ Underway(x)
    BY <1>3, <1>7 DEF At, SeedInv
  <2> QED
    BY <1>1, <1>5, <2>1 DEF Underway, SeedRows
<1>8. \A x \in Workers : request'[x].stage = "seed" /\ x # w =>
        At(x, "seed") /\ request'[x].seed = request[x].seed /\ request[x].seed \in 1..seeds
  BY <1>3 DEF At, Typed
<1>9. ASSUME NEW v \in Workers, NEW x \in Workers, request'[v].stage = "seed",
             request'[x].stage = "seed", v # x
      PROVE  request'[v].seed # request'[x].seed
  <2>1. \A s \in 1..seeds : s # q
    BY <1>1
  <2> QED
    BY <1>2, <1>3, <1>8, <1>9, <2>1 DEF SeedInv
<1>10. ASSUME NEW s \in 1..q PROVE s \in InFlight' \/ Settled(s)'
  <2>1. CASE s = q
    BY <1>2, <1>3, <2>1 DEF InFlight, At
  <2>2. CASE s # q /\ s \in InFlight
    <3>1. PICK x \in Workers : At(x, "seed") /\ request[x].seed = s
      BY <2>2 DEF InFlight
    <3>2. x # w /\ request'[x] = request[x]
      BY <1>1, <1>3, <3>1 DEF At
    <3> QED
      BY <3>1, <3>2 DEF InFlight, At
  <2>3. CASE s # q /\ s \notin InFlight
    <3>1. Settled(s)
      BY <1>1, <2>3 DEF SeedInv
    <3> QED
      BY <1>1, <1>4, <3>1 DEF Settled, Whole
  <2> QED
    BY <2>1, <2>2, <2>3
<1> QED
  BY <1>1, <1>6, <1>7, <1>9, <1>10 DEF SeedInv, At

LEMMA FinishSeeds ==
  ASSUME Typed, SeedInv, NEW w \in Workers, SeedFinish(w)
  PROVE  SeedInv'
<1>1. PICK q \in 1..seeds : q = request[w].seed
  BY DEF SeedFinish, Typed
<1>2. Underway(w) /\ Cardinality(request[w].held) = DemoSize /\ SeedRows(q) = request[w].held
  BY <1>1 DEF SeedInv, SeedFinish, Underway
<1>3. Settled(q)
  BY <1>1, <1>2 DEF Underway, Settled, Whole
<1>4. UNCHANGED <<row, live, known, seeds, marred>> /\ At(w, "seed")
  BY DEF SeedFinish
<1>5. \A s : SeedRows(s)' = SeedRows(s) /\ SeedRows(s) \cap live' = SeedRows(s) \cap live
  BY <1>4, SameSeedRows
<1>6. Settled(q)'
  BY <1>3, <1>4, <1>5 DEF Settled, Whole
<1>7. Idle.stage = "idle"
  BY IdleTyped
<1>8. request'[w].stage # "seed" /\ \A x \in Workers \ {w} : request'[x] = request[x]
  BY <1>7 DEF SeedFinish, Typed, TypeOK
<1>9. \A x \in Workers : \/ SameSeed(x) \/ NoSeed(x)
                         \/ /\ At(x, "seed") /\ request'[x].stage # "seed"
                            /\ \E s \in 1..seeds : s = request[x].seed /\ Settled(s)'
  BY <1>1, <1>4, <1>6, <1>8 DEF SameSeed, NoSeed, At
<1>10. RowsStay
  BY <1>4, SameRows
<1> QED
  BY <1>4, <1>5, <1>9, <1>10, SeedsKept

LEMMA RestartSeeds == ASSUME Typed, SeedInv, Restart PROVE SeedInv'
<1>1. UNCHANGED <<row, live, known, seeds>> /\ marred' = marred \cup InFlight
  BY DEF Restart
<1>2. \A s : SeedRows(s)' = SeedRows(s) /\ SeedRows(s) \cap live' = SeedRows(s) \cap live
  BY <1>1, SameSeedRows
<1>3. \A x \in Workers : request'[x].stage # "seed"
  BY IdleTyped DEF Restart
<1>4. ASSUME NEW s \in 1..seeds PROVE Settled(s)'
  BY <1>1, <1>2 DEF SeedInv, Settled, Whole
<1> QED
  BY <1>1, <1>3, <1>4 DEF SeedInv, At

LEMMA NextSeeds == ASSUME Typed, SeedInv, [Next]_vars PROVE SeedInv'
<1>0. Idle.stage = "idle"
  BY IdleTyped
<1>1. CASE UNCHANGED vars
  <2>1. \A x \in Workers : SameSeed(x) \/ NoSeed(x)
    BY <1>1 DEF vars, SameSeed, NoSeed, At
  <2> QED
    BY <1>1, <2>1, QuietSeeds DEF vars
<1>2. ASSUME NEW u \in Users, Register(u) PROVE SeedInv'
  <2>1. \A x \in Workers : SameSeed(x) \/ NoSeed(x)
    BY <1>2 DEF Register, SameSeed, NoSeed, At
  <2> QED
    BY <1>2, <2>1, QuietSeeds DEF Register
<1>3. ASSUME NEW w \in Workers, NEW u \in Users, ResetAccount(w, u) PROVE SeedInv'
  <2>1. DeletedByReset(u) \in SUBSET live /\ ~At(w, "seed")
    BY <1>3 DEF DeletedByReset, ToolData, RowsIn, ResetAccount, At
  <2> QED
    BY <1>3, <2>1, IdleTyped, RemoveSeeds DEF ResetAccount
<1>4. ASSUME NEW w \in Workers, NEW u \in Users, StartSeed(w, u) PROVE SeedInv'
  BY <1>4, StartSeeds
<1>5. ASSUME NEW w \in Workers, NEW i \in Ids, NEW t \in Tables, CreateRow(w, i, t) PROVE SeedInv'
  BY <1>5, CreateSeeds
<1>6. ASSUME NEW w \in Workers, NEW i \in Ids, NEW j \in Ids, SeedTable(w, i, j) PROVE SeedInv'
  BY <1>6, SeedTableSeeds
<1>7. ASSUME NEW w \in Workers, NEW i \in Ids, SeedRecords(w, i) PROVE SeedInv'
  BY <1>7, SeedRecordsSeeds
<1>8. ASSUME NEW w \in Workers, NEW kind \in {"backup", "zip"}, NEW scope \in Users \cup {All},
             StartExport(w, kind, scope) PROVE SeedInv'
  <2> DEFINE f == [NoFile EXCEPT !.kind = kind, !.scope = scope, !.revision = Revision,
                     !.accounts = accounts \cap Owners(scope), !.stayed = Covered(kind, scope)]
             r == [Idle EXCEPT !.stage = "export", !.next = TablesOf(kind), !.file = f]
  <2>1. r.stage # "seed"
    BY DEF Idle
  <2>2. request' = [request EXCEPT ![w] = r] /\ ~At(w, "seed")
        /\ UNCHANGED <<row, live, known, seeds, marred>>
    BY <1>8 DEF StartExport, At
  <2> HIDE DEF r
  <2> QED
    BY <2>1, <2>2, OtherSeeds
<1>9. ASSUME NEW w \in Workers, NEW f \in files \cup {ForeignFile}, Import(w, f) PROVE SeedInv'
  BY <1>9, ImportSeeds
<1>10. ASSUME NEW w \in Workers, SeedFinish(w) PROVE SeedInv'
  BY <1>10, FinishSeeds
<1>11. ASSUME NEW w \in Workers, SeedFail(w) PROVE SeedInv'
  BY <1>11, FailSeeds
<1>12. ASSUME NEW w \in Workers, ReadTable(w) PROVE SeedInv'
  <2> DEFINE r == request[w]
             s == [r EXCEPT !.file.rows = @ \cup Selected(Head(r.next), r.file.scope), !.next = Tail(@)]
  <2>1. s.stage = "export"
    BY <1>12, ReadTyped DEF ReadTable
  <2>2. request' = [request EXCEPT ![w] = s] /\ ~At(w, "seed")
        /\ UNCHANGED <<row, live, known, seeds, marred>>
    BY <1>12 DEF ReadTable, At
  <2> HIDE DEF s
  <2> QED
    BY <2>1, <2>2, OtherSeeds
<1>13. ASSUME NEW w \in Workers, FinishExport(w) PROVE SeedInv'
  BY <1>0, <1>13, OtherSeeds DEF FinishExport, At
<1>14. CASE Restart
  BY <1>14, RestartSeeds
<1>15. CASE Silence
  BY <1>1, <1>15 DEF Silence
<1>16. ASSUME NEW w \in Workers, NEW u \in Users, StartCreate(w, u) PROVE SeedInv'
  <2> DEFINE r == [Idle EXCEPT !.stage = "create", !.user = u]
  <2>1. r.stage # "seed"
    BY DEF Idle
  <2>2. request' = [request EXCEPT ![w] = r] /\ ~At(w, "seed")
        /\ UNCHANGED <<row, live, known, seeds, marred>>
    BY <1>16 DEF StartCreate, At
  <2> HIDE DEF r
  <2> QED
    BY <2>1, <2>2, OtherSeeds
<1>17. ASSUME NEW w \in Workers, NEW u \in Users, NEW rows \in SUBSET Ids, StartDelete(w, u, rows)
       PROVE  SeedInv'
  <2> DEFINE r == [Idle EXCEPT !.stage = "delete", !.user = u, !.held = rows]
  <2>1. r.stage # "seed"
    BY DEF Idle
  <2>2. request' = [request EXCEPT ![w] = r] /\ ~At(w, "seed")
        /\ UNCHANGED <<row, live, known, seeds, marred>>
    BY <1>17 DEF StartDelete, At
  <2> HIDE DEF r
  <2> QED
    BY <2>1, <2>2, OtherSeeds
<1>18. ASSUME NEW w \in Workers, NEW rows \in SUBSET Ids, DeleteRows(w, rows) PROVE SeedInv'
  <2> DEFINE r == [request[w] EXCEPT !.held = @ \ rows]
  <2>1. r \in Request /\ r.stage # "seed"
    BY <1>18, Deleting DEF DeleteRows
  <2>2. rows \cap live \in SUBSET live /\ ~At(w, "seed")
    BY <1>18 DEF DeleteRows, At
  <2> HIDE DEF r
  <2> QED
    BY <1>18, <2>1, <2>2, RemoveSeeds DEF DeleteRows, r
<1>19. ASSUME NEW w \in Workers, EndDoor(w) PROVE SeedInv'
  BY <1>0, <1>19, OtherSeeds DEF EndDoor, At
<1> QED
  BY <1>1, <1>2, <1>3, <1>4, <1>5, <1>6, <1>7, <1>8, <1>9, <1>10, <1>11, <1>12, <1>13, <1>14,
     <1>15, <1>16, <1>17, <1>18, <1>19 DEF Next

LEMMA InitSeeds == Init => SeedInv
<1> SUFFICES ASSUME Init PROVE SeedInv
  OBVIOUS
<1>1. \A w \in Workers : request[w].stage = "idle"
  BY IdleTyped DEF Init
<1> QED
  BY <1>1 DEF Init, SeedInv, At

-----------------------------------------------------------------------------
(* Exports. *)

\* An export under way: what was there all the time is read or left to read.
Reading(w) ==
  LET f == request[w].file
      n == request[w].next
  IN
  /\ n \in Left(f.kind)
  /\ f.stayed \subseteq live
  /\ \A i \in f.stayed : row[i].owner \in Owners(f.scope)
  /\ \A i \in f.stayed : row[i].table \in ToSet(n) \/ i \in f.rows

ExportInv ==
  /\ ExportHasWhatStayed
  /\ \A w \in Workers : At(w, "export") => Reading(w)

\* Rows that come and go under an export.
LEMMA StillReading ==
  ASSUME Typed, RowsStay, NEW x \in Workers, At(x, "export"), Reading(x),
         NEW removed, Seen(x, removed), live \ removed \subseteq live'
  PROVE  Reading(x)'
<1> DEFINE f == request[x].file
           g == request'[x].file
           n == request[x].next
<1>1. /\ g.kind = f.kind /\ g.scope = f.scope /\ g.rows = f.rows /\ request'[x].next = n
      /\ g.stayed = f.stayed \ removed
  BY DEF Seen
<1>2. /\ n \in Left(f.kind) /\ f.stayed \subseteq live
      /\ \A i \in f.stayed : row[i].owner \in Owners(f.scope)
      /\ \A i \in f.stayed : row[i].table \in ToSet(n) \/ i \in f.rows
  BY DEF Reading
<1>3. live \subseteq Made /\ \A i \in Made : row'[i] = row[i]
  BY DEF Typed, RowsStay
<1>4. Owners(g.scope) = Owners(f.scope) /\ n \in Left(g.kind)
  BY <1>1, <1>2
<1> HIDE DEF f
<1>5. /\ g.stayed \subseteq live'
      /\ \A i \in g.stayed : row'[i].owner \in Owners(g.scope)
      /\ \A i \in g.stayed : row'[i].table \in ToSet(n) \/ i \in g.rows
  BY <1>1, <1>2, <1>3, <1>4
<1> QED
  BY <1>1, <1>4, <1>5 DEF Reading, Owners

LEMMA ExportsKept ==
  ASSUME Typed, ExportInv, RowsStay,
         \A f \in files' : f \in files \/ f.stayed \subseteq f.rows,
         NEW removed, live \ removed \subseteq live',
         \A x \in Workers : \/ request'[x].stage # "export" \/ Seen(x, removed)
                            \/ Reading(x)'
  PROVE  ExportInv'
<1>1. ASSUME NEW x \in Workers, request'[x].stage = "export", ~Reading(x)' PROVE FALSE
  <2>1. Seen(x, removed) /\ At(x, "export") /\ Reading(x)
    BY <1>1 DEF Seen, At, ExportInv
  <2> QED
    BY <1>1, <2>1, StillReading
<1> QED
  BY <1>1 DEF ExportInv, ExportHasWhatStayed, At

\* A session that a step leaves as it is sees nothing.
LEMMA SeenNothing ==
  ASSUME NEW x \in Workers, request'[x] = request[x] PROVE Seen(x, {})
BY DEF Seen

\* A step of one session over rows that stay.
LEMMA SessionExports ==
  ASSUME Typed, ExportInv, NEW w \in Workers, NEW r, request' = [request EXCEPT ![w] = r],
         r.stage # "export" \/ Reading(w)',
         \A f \in files' : f \in files \/ f.stayed \subseteq f.rows,
         UNCHANGED <<row, live>>, known \subseteq known'
  PROVE  ExportInv'
<1>1. RowsStay
  BY SameRows
<1>2. request'[w] = r /\ \A x \in Workers \ {w} : request'[x] = request[x]
  BY DEF Typed, TypeOK
<1>3. \A x \in Workers : request'[x].stage # "export" \/ Seen(x, {}) \/ Reading(x)'
  BY <1>2, SeenNothing
<1>4. live \ {} \subseteq live'
  OBVIOUS
<1> QED
  BY <1>1, <1>3, <1>4, ExportsKept

\* No session moves.
LEMMA QuietExports ==
  ASSUME Typed, ExportInv, \A x \in Workers : request'[x] = request[x] \/ request'[x].stage # "export",
         UNCHANGED <<row, live, files>>, known \subseteq known'
  PROVE  ExportInv'
<1>1. RowsStay
  BY SameRows
<1>2. \A x \in Workers : request'[x].stage # "export" \/ Seen(x, {}) \/ Reading(x)'
  BY SeenNothing
<1>3. live \ {} \subseteq live'
  OBVIOUS
<1> QED
  BY <1>1, <1>2, <1>3, ExportsKept

LEMMA MakeExports ==
  ASSUME Typed, ExportInv, NEW w \in Workers, NEW r \in Request, r.stage # "export",
         NEW made, Make(w, r, made), DOMAIN made \subseteq Ids,
         \A i \in DOMAIN made : made[i] \in Row, UNCHANGED <<known, files>>
  PROVE  ExportInv'
<1>1. RowsStay /\ live \ {} \subseteq live'
  BY MakeEffect
<1>2. request'[w] = r /\ \A x \in Workers \ {w} : Seen(x, {})
  BY NoticeEffect DEF Make, Typed, TypeOK
<1>3. \A x \in Workers : request'[x].stage # "export" \/ Seen(x, {}) \/ Reading(x)'
  BY <1>2
<1>4. \A f \in files' : f \in files
  OBVIOUS
<1> QED
  BY <1>1, <1>3, <1>4, ExportsKept

LEMMA NoticeExports ==
  ASSUME Typed, ExportInv, NEW w \in Workers, NEW r \in Request, r.stage # "export",
         NEW rows, Notice(w, r, rows),
         live \ rows \subseteq live', UNCHANGED <<row, known, files>>
  PROVE  ExportInv'
<1>1. RowsStay
  BY SameRows
<1>3. request'[w] = r /\ \A x \in Workers \ {w} : Seen(x, rows)
  BY NoticeEffect DEF Typed, TypeOK
<1>4. \A x \in Workers : request'[x].stage # "export" \/ Seen(x, rows) \/ Reading(x)'
  BY <1>3
<1> QED
  BY <1>1, <1>4, ExportsKept

LEMMA StartReading ==
  ASSUME Typed, ExportInv, NEW w \in Workers, NEW kind \in {"backup", "zip"},
         NEW scope \in Users \cup {All}, StartExport(w, kind, scope)
  PROVE  ExportInv'
<1> DEFINE f == [NoFile EXCEPT !.kind = kind, !.scope = scope, !.revision = Revision,
                   !.accounts = accounts \cap Owners(scope), !.stayed = Covered(kind, scope)]
           r == [Idle EXCEPT !.stage = "export", !.next = TablesOf(kind), !.file = f]
<1>1. f.kind = kind /\ f.scope = scope /\ f.stayed = Covered(kind, scope)
  BY DEF NoFile
<1>2. /\ request' = [request EXCEPT ![w] = r]
      /\ UNCHANGED <<row, live, files, known>>
  BY DEF StartExport
<1> HIDE DEF f
<1>3. r.next = TablesOf(kind) /\ r.file = f
  BY DEF Idle
<1> HIDE DEF r
<1>4. request'[w] = r
  BY <1>2 DEF Typed, TypeOK
<1>5. TablesOf(kind) \in Left(kind)
  BY DEF Left
<1>6. Covered(kind, scope) \subseteq live
  BY DEF Covered, RowsIn
<1>7. \A i \in Covered(kind, scope) :
        row'[i].table \in ToSet(TablesOf(kind)) /\ row'[i].owner \in Owners(scope)
  BY <1>2 DEF Covered, RowsIn
<1>8. Reading(w)'
  BY <1>1, <1>2, <1>3, <1>4, <1>5, <1>6, <1>7 DEF Reading, Owners
<1> QED
  BY <1>2, <1>8, SessionExports

LEMMA ReadOn ==
  ASSUME Typed, ExportInv, NEW w \in Workers, ReadTable(w)
  PROVE  ExportInv'
<1> DEFINE r == request[w]
           f == r.file
           n == r.next
           more == Selected(Head(n), f.scope)
           s == [r EXCEPT !.file.rows = @ \cup Selected(Head(r.next), r.file.scope), !.next = Tail(@)]
           g == s.file
<1>1. At(w, "export") /\ n # <<>>
  BY DEF ReadTable
<1>2. /\ s \in Request /\ s.next = Tail(n) /\ g.rows = f.rows \cup more
      /\ g.kind = f.kind /\ g.scope = f.scope /\ g.stayed = f.stayed
  BY <1>1, ReadTyped
<1>3. /\ request' = [request EXCEPT ![w] = s]
      /\ UNCHANGED <<row, live, files, known>>
  BY DEF ReadTable
<1> HIDE DEF s
<1>4. request'[w] = s
  BY <1>3 DEF Typed, TypeOK
<1>5. /\ n \in Left(f.kind) /\ f.stayed \subseteq live
      /\ \A i \in f.stayed : row[i].owner \in Owners(f.scope)
      /\ \A i \in f.stayed : row[i].table \in ToSet(n) \/ i \in f.rows
  BY <1>1 DEF Reading, ExportInv
<1>6. f.kind \in {"backup", "zip"}
  BY DEF Typed, Readable, File
<1>7. Tail(n) \in Left(f.kind) /\ ToSet(n) = ToSet(Tail(n)) \cup {Head(n)}
  BY <1>1, <1>5, <1>6, LeftTyped
<1>8. \A i \in f.stayed : row[i].table = Head(n) => i \in more
  BY <1>5 DEF Selected, RowsIn
<1> HIDE DEF more
<1>9. \A i \in g.stayed : row[i].table \in ToSet(Tail(n)) \/ i \in g.rows
  BY <1>2, <1>5, <1>7, <1>8
<1> HIDE DEF g
<1>10. g = s.file
  BY DEF g
<1>11. Reading(w)'
  BY <1>2, <1>3, <1>4, <1>5, <1>7, <1>9, <1>10 DEF Reading, Owners
<1> QED
  BY <1>3, <1>11, SessionExports

LEMMA FinishReading ==
  ASSUME Typed, ExportInv, NEW w \in Workers, FinishExport(w)
  PROVE  ExportInv'
<1>1. At(w, "export") /\ request[w].next = <<>> /\ files' = files \cup {request[w].file}
      /\ request' = [request EXCEPT ![w] = Idle] /\ UNCHANGED <<row, live, known>>
  BY DEF FinishExport
<1>2. ToSet(<<>>) = {}
  BY DEF ToSet
<1>3. request[w].file.stayed \subseteq request[w].file.rows
  BY <1>1, <1>2 DEF ExportInv, Reading
<1>4. Idle.stage # "export"
  BY IdleTyped
<1> HIDE DEF Idle
<1>5. \A f \in files' : f \in files \/ f.stayed \subseteq f.rows
  BY <1>1, <1>3
<1> QED
  BY <1>1, <1>4, <1>5, SessionExports

LEMMA CreateExports ==
  ASSUME Typed, ExportInv, NEW w \in Workers, NEW i \in Ids, NEW t \in Tables, CreateRow(w, i, t)
  PROVE  ExportInv'
<1> DEFINE d == [table |-> t, owner |-> request[w].user, seed |-> 0]
           made == [x \in {i} |-> d]
<1>1. d \in Row
  BY BoundsAssumption DEF CreateRow, Row, Typed
<1>2. DOMAIN made = {i} /\ \A x \in DOMAIN made : made[x] \in Row
  BY <1>1
<1>3. Make(w, Idle, made) /\ UNCHANGED <<known, files>>
  BY DEF CreateRow
<1>4. Idle \in Request /\ Idle.stage # "export"
  BY IdleTyped
<1> HIDE DEF Idle, made, d
<1> QED
  BY <1>2, <1>3, <1>4, MakeExports

LEMMA SeedRecordsExports ==
  ASSUME Typed, ExportInv, NEW w \in Workers, NEW i \in Ids, SeedRecords(w, i)
  PROVE  ExportInv'
<1> DEFINE d == DemoRow(w, "record")
           made == [x \in {i} |-> d]
           r == [request[w] EXCEPT !.held = {i}]
<1>1. d \in Row
  BY DemoTyped DEF SeedRecords, Tables
<1>2. DOMAIN made = {i} /\ \A x \in DOMAIN made : made[x] \in Row
  BY <1>1
<1>3. Make(w, r, made) /\ At(w, "seed") /\ UNCHANGED <<known, files>>
  BY DEF SeedRecords
<1>4. r \in Request /\ r.stage # "export"
  BY <1>3, GoesOn DEF At
<1> HIDE DEF made, d, r
<1> QED
  BY <1>2, <1>3, <1>4, MakeExports

LEMMA SeedTableExports ==
  ASSUME Typed, ExportInv, NEW w \in Workers, NEW i \in Ids, NEW j \in Ids, SeedTable(w, i, j)
  PROVE  ExportInv'
<1>1. Make(w, [request[w] EXCEPT !.held = @ \cup {i, j}],
           [x \in {i, j} |-> DemoRow(w, IF x = i THEN "setup" ELSE "entry")])
  BY DEF SeedTable
<1> DEFINE d == DemoRow(w, "setup")
           e == DemoRow(w, "entry")
           made == [x \in {i, j} |-> DemoRow(w, IF x = i THEN "setup" ELSE "entry")]
           rows == request[w].held \cup {i, j}
           r == [request[w] EXCEPT !.held = rows]
<1>2. At(w, "seed") /\ request[w].held \subseteq Ids /\ UNCHANGED <<known, files>>
  BY DEF SeedTable, Typed, TypeOK, Request
<1>3. d \in Row /\ e \in Row
  BY <1>2, DemoTyped DEF Tables
<1>4. DOMAIN made = {i, j} /\ \A x \in DOMAIN made : made[x] \in Row
  BY <1>3
<1>5. Make(w, r, made)
  BY <1>1
<1>6. r \in Request /\ r.stage # "export"
  BY <1>2, GoesOn DEF At
<1> HIDE DEF made, d, e, r
<1> QED
  BY <1>2, <1>4, <1>5, <1>6, MakeExports

LEMMA NextExports == ASSUME Typed, ExportInv, [Next]_vars PROVE ExportInv'
<1>0. Idle.stage = "idle"
  BY IdleTyped
<1>1. CASE UNCHANGED vars
  BY <1>1, QuietExports DEF vars
<1>2. ASSUME NEW u \in Users, Register(u) PROVE ExportInv'
  BY <1>2, QuietExports DEF Register
<1>3. ASSUME NEW w \in Workers, NEW rows \in SUBSET live, NEW but,
             NEW r \in Request, r.stage # "export",
             RemoveRows(w, r, rows, but), UNCHANGED <<row, known, files>>
      PROVE  ExportInv'
  <2>1. Notice(w, r, rows) /\ live \ rows \subseteq live'
    BY <1>3 DEF RemoveRows
  <2> QED
    BY <1>3, <2>1, NoticeExports
<1>4. ASSUME NEW w \in Workers, NEW u \in Users, ResetAccount(w, u) PROVE ExportInv'
  <2>1. DeletedByReset(u) \subseteq live
    BY DEF DeletedByReset, ToolData, RowsIn
  <2> QED
    BY <1>3, <1>4, <2>1, IdleTyped DEF ResetAccount
<1>5. ASSUME NEW w \in Workers, SeedFail(w) PROVE ExportInv'
  <2>1. DeletedByFailure(w) \subseteq live
    BY DEF DeletedByFailure, ToolData, RowsIn
  <2> QED
    BY <1>3, <1>5, <2>1, IdleTyped DEF SeedFail
<1>6. ASSUME NEW w \in Workers, NEW u \in Users, StartSeed(w, u) PROVE ExportInv'
  <2> DEFINE r == [Idle EXCEPT !.stage = "seed", !.user = u, !.seed = seeds + 1, !.before = live]
  <2>1. r.stage # "export"
    BY DEF Idle
  <2>2. request' = [request EXCEPT ![w] = r] /\ UNCHANGED <<row, live, files, known>>
    BY <1>6 DEF StartSeed
  <2> HIDE DEF r
  <2> QED
    BY <2>1, <2>2, SessionExports
<1>7. ASSUME NEW w \in Workers, NEW i \in Ids, NEW t \in Tables, CreateRow(w, i, t) PROVE ExportInv'
  BY <1>7, CreateExports
<1>8. ASSUME NEW w \in Workers, NEW i \in Ids, NEW j \in Ids, SeedTable(w, i, j) PROVE ExportInv'
  BY <1>8, SeedTableExports
<1>9. ASSUME NEW w \in Workers, NEW i \in Ids, SeedRecords(w, i) PROVE ExportInv'
  BY <1>9, SeedRecordsExports
<1>10. ASSUME NEW w \in Workers, NEW kind \in {"backup", "zip"}, NEW scope \in Users \cup {All},
              StartExport(w, kind, scope) PROVE ExportInv'
  BY <1>10, StartReading
<1>11. ASSUME NEW w \in Workers, NEW f \in files \cup {ForeignFile}, Import(w, f) PROVE ExportInv'
  <2>1. /\ Notice(w, Idle, Covered("backup", f.scope))
        /\ live \ Covered("backup", f.scope) \subseteq live'
        /\ UNCHANGED <<row, known, files>>
    BY <1>11 DEF Import
  <2> HIDE DEF Idle
  <2> QED
    BY <2>1, IdleTyped, NoticeExports
<1>12. ASSUME NEW w \in Workers, SeedFinish(w) PROVE ExportInv'
  BY <1>0, <1>12, SessionExports DEF SeedFinish
<1>13. ASSUME NEW w \in Workers, ReadTable(w) PROVE ExportInv'
  BY <1>13, ReadOn
<1>14. ASSUME NEW w \in Workers, FinishExport(w) PROVE ExportInv'
  BY <1>14, FinishReading
<1>15. CASE Restart
  BY <1>0, <1>15, QuietExports DEF Restart
<1>16. CASE Silence
  BY <1>1, <1>16 DEF Silence
<1>17. ASSUME NEW w \in Workers, NEW u \in Users, StartCreate(w, u) PROVE ExportInv'
  <2> DEFINE r == [Idle EXCEPT !.stage = "create", !.user = u]
  <2>1. r.stage # "export"
    BY DEF Idle
  <2>2. request' = [request EXCEPT ![w] = r] /\ UNCHANGED <<row, live, files, known>>
    BY <1>17 DEF StartCreate
  <2> HIDE DEF r
  <2> QED
    BY <2>1, <2>2, SessionExports
<1>18. ASSUME NEW w \in Workers, NEW u \in Users, NEW rows \in SUBSET Ids, StartDelete(w, u, rows)
       PROVE  ExportInv'
  <2> DEFINE r == [Idle EXCEPT !.stage = "delete", !.user = u, !.held = rows]
  <2>1. r.stage # "export"
    BY DEF Idle
  <2>2. request' = [request EXCEPT ![w] = r] /\ UNCHANGED <<row, live, files, known>>
    BY <1>18 DEF StartDelete
  <2> HIDE DEF r
  <2> QED
    BY <2>1, <2>2, SessionExports
<1>19. ASSUME NEW w \in Workers, NEW rows \in SUBSET Ids, DeleteRows(w, rows) PROVE ExportInv'
  <2> DEFINE r == [request[w] EXCEPT !.held = @ \ rows]
  <2>1. r \in Request /\ r.stage # "export"
    BY <1>19, Deleting DEF DeleteRows
  <2>2. rows \cap live \in SUBSET live
    OBVIOUS
  <2> HIDE DEF r
  <2> QED
    BY <1>3, <1>19, <2>1, <2>2 DEF DeleteRows, r
<1>20. ASSUME NEW w \in Workers, EndDoor(w) PROVE ExportInv'
  BY <1>0, <1>20, SessionExports DEF EndDoor
<1> QED
  BY <1>1, <1>2, <1>4, <1>5, <1>6, <1>7, <1>8, <1>9, <1>10, <1>11, <1>12, <1>13, <1>14,
     <1>15, <1>16, <1>17, <1>18, <1>19, <1>20 DEF Next

-----------------------------------------------------------------------------
(* The theorems. *)

LEMMA InitExports == Init => ExportInv
<1> SUFFICES ASSUME Init PROVE ExportInv
  OBVIOUS
<1>1. files = {}
  BY DEF Init
<1>2. \A w \in Workers : request[w].stage = "idle"
  BY IdleTyped DEF Init
<1> QED
  BY <1>1, <1>2 DEF ExportInv, ExportHasWhatStayed, At

\* The inductive invariant.
Inv == Typed /\ SeedInv /\ ExportInv

\* The invariant holds in every state of resets, seeds, exports and imports.
THEOREM Invariance == Spec => []Inv
<1>1. Init => Inv
  BY InitTyped, InitSeeds, InitExports DEF Inv
<1>2. Inv /\ [Next]_vars => Inv'
  BY NextTyped, NextSeeds, NextExports DEF Inv
<1> QED
  BY <1>1, <1>2, PTL DEF Spec

\* Every reachable state is of its type (api/account.py, backup.py): the rows that are live
\* were made, the files and the sessions hold rows and accounts there were.
THEOREM TypeCorrect == Spec => []TypeOK
<1>1. Inv => TypeOK
  BY DEF Inv, Typed
<1> QED
  BY <1>1, Invariance, PTL

\* However many accounts, rows, seeds, failures, imports and restarts: a seed that is over
\* and that nothing else has touched left its whole demo or nothing (api/account.py:20).
THEOREM SeedsAreWholeOrNothing == Spec => []SeedIsWholeOrNothing
<1>1. Inv => SeedIsWholeOrNothing
  <2> SUFFICES ASSUME Inv, NEW s \in (1..seeds) \ (InFlight \cup marred)
               PROVE  Cardinality(SeedRows(s) \cap live) \in {0, DemoSize}
    BY DEF SeedIsWholeOrNothing
  <2>1. Settled(s) /\ s \notin marred
    BY DEF Inv, SeedInv
  <2>2. CASE SeedRows(s) \cap live = {}
    BY <2>2, FS_EmptySet
  <2>3. CASE Whole(s)
    <3>1. SeedRows(s) \cap live = SeedRows(s)
      BY <2>3 DEF Whole
    <3> QED
      BY <2>3, <3>1 DEF Whole
  <2> QED
    BY <2>1, <2>2, <2>3 DEF Settled
<1> QED
  BY <1>1, Invariance, PTL

\* A step that ends a seed removes nothing, unless the seed fails.
LEMMA EndOfSeed ==
  ASSUME Typed, Next, NEW w \in Workers, At(w, "seed"), At(w, "idle")'
  PROVE  live \subseteq live' \/ SeedFail(w)
<1>1. ASSUME NEW v \in Workers, v # w, NEW r \in Request, NEW removed
      PROVE  ~Notice(v, r, removed)
  <2> SUFFICES ASSUME Notice(v, r, removed) PROVE FALSE
    OBVIOUS
  <2>2. Seen(w, removed)
    BY <1>1, NoticeEffect DEF Typed, TypeOK
  <2> QED
    BY <2>2 DEF Seen, At
<1>2. ASSUME NEW v \in Workers, NEW u \in Users, ResetAccount(v, u) PROVE FALSE
  BY <1>1, <1>2, IdleTyped DEF ResetAccount, RemoveRows, At
<1>3. ASSUME NEW v \in Workers, NEW rows \in SUBSET Ids, DeleteRows(v, rows) PROVE FALSE
  <2> DEFINE r == [request[v] EXCEPT !.held = @ \ rows]
  <2>1. r \in Request /\ v # w
    BY <1>3, Deleting DEF DeleteRows, At
  <2> HIDE DEF r
  <2> QED
    BY <1>1, <1>3, <2>1 DEF DeleteRows, RemoveRows, r
<1>4. ASSUME NEW v \in Workers, NEW f \in files \cup {ForeignFile}, Import(v, f) PROVE FALSE
  BY <1>1, <1>4, IdleTyped DEF Import, At
<1>5. ASSUME NEW v \in Workers, SeedFail(v) PROVE v = w
  BY <1>1, <1>5, IdleTyped DEF SeedFail, RemoveRows
<1>6. ASSUME NEW v \in Workers, NEW r, NEW made, Make(v, r, made) PROVE live \subseteq live'
  BY <1>6 DEF Make
<1>7. ASSUME NEW v \in Workers, NEW i \in Ids, NEW j \in Ids,
             SeedTable(v, i, j) \/ SeedRecords(v, i)
      PROVE  live \subseteq live'
  BY <1>6, <1>7 DEF SeedTable, SeedRecords
<1>8. ASSUME NEW v \in Workers, NEW i \in Ids, NEW t \in Tables, CreateRow(v, i, t)
      PROVE  live \subseteq live'
  BY <1>6, <1>8 DEF CreateRow
<1>9. ASSUME NEW v \in Workers, NEW u \in Users, NEW rows \in SUBSET Ids,
             StartSeed(v, u) \/ StartCreate(v, u) \/ StartDelete(v, u, rows)
      PROVE  live' = live
  BY <1>9 DEF StartSeed, StartCreate, StartDelete
<1>10. ASSUME NEW v \in Workers, NEW kind \in {"backup", "zip"}, NEW scope \in Users \cup {All},
              StartExport(v, kind, scope)
       PROVE  live' = live
  BY <1>10 DEF StartExport
<1>11. ASSUME NEW v \in Workers,
              EndDoor(v) \/ SeedFinish(v) \/ ReadTable(v) \/ FinishExport(v)
       PROVE  live' = live
  BY <1>11 DEF EndDoor, SeedFinish, ReadTable, FinishExport
<1>12. (Restart \/ Silence \/ \E u \in Users : Register(u)) => live' = live
  BY DEF Restart, Silence, Register, vars
<1> QED
  BY <1>2, <1>3, <1>4, <1>5, <1>7, <1>8, <1>9, <1>10, <1>11, <1>12 DEF Next

\* A seed that fails deletes the caller's tool data without asking (api/account.py:123-126),
\* and never a row that was there when it started: it started in an account without any.
THEOREM FailuresTakeTheirOwn == Spec => FailedSeedsTakeNothing
<1>1. Inv /\ [Next]_vars =>
        [\A w \in Workers : (At(w, "seed") /\ At(w, "idle")') =>
           \A i \in live \ live' :
             i \in ToolData(request[w].user) /\ i \notin request[w].before]_vars
  <2> SUFFICES ASSUME Inv, Next, NEW w \in Workers, At(w, "seed"), At(w, "idle")',
                      NEW i \in live \ live'
               PROVE  i \in ToolData(request[w].user) /\ i \notin request[w].before
    OBVIOUS
  <2>1. SeedFail(w)
    BY EndOfSeed DEF Inv
  <2>2. i \in ToolData(request[w].user)
    BY <2>1 DEF SeedFail, RemoveRows, DeletedByFailure
  <2>3. row[i].owner = request[w].user /\ row[i].table \in ToolTables
    BY <2>2 DEF ToolData, RowsIn
  <2>4. Underway(w)
    BY DEF Inv, SeedInv
  <2> QED
    BY <2>2, <2>3, <2>4 DEF Underway
<1> QED
  BY <1>1, Invariance, PTL DEF Spec, FailedSeedsTakeNothing

\* Whatever rows come and go while its tables are read, an export has each row of its scope
\* that was there from its start to its end (backup.py:121-135).
THEOREM ExportsHaveWhatStayed == Spec => []ExportHasWhatStayed
<1>1. Inv => ExportHasWhatStayed
  BY DEF Inv, ExportInv
<1> QED
  BY <1>1, Invariance, PTL

-----------------------------------------------------------------------------
(* The migrations. *)

\* The least pending revision is one, and nothing below it is pending.
LEMMA LeastPending ==
  ASSUME ledger \subseteq Revisions, Pending # {}
  PROVE  /\ NextUp \in Pending
         /\ \A r \in Pending : NextUp <= r
<1>1. Pending \subseteq 1..8
  BY DEF Pending, Revisions, Latest
<1>2. ASSUME \A x \in Pending : \E y \in Pending : y < x
      PROVE  FALSE
  <2>1. {1, 2} \cap Pending = {}
    BY <1>1, <1>2
  <2>2. {3, 4} \cap Pending = {}
    BY <1>1, <1>2, <2>1
  <2>3. {5, 6} \cap Pending = {}
    BY <1>1, <1>2, <2>1, <2>2
  <2>4. {7, 8} \cap Pending = {}
    BY <1>1, <1>2, <2>1, <2>2, <2>3
  <2>5. PICK x \in Pending : x \in 1..8
    BY <1>1
  <2> QED
    BY <2>1, <2>2, <2>3, <2>4, <2>5
<1>3. \E x \in Pending : \A y \in Pending : x <= y
  BY <1>1, <1>2
<1> QED
  BY <1>3 DEF NextUp, Min

-----------------------------------------------------------------------------
(* The ledger.                                                             *)

\* A migration is under way only while one is pending.
Ledger ==
  /\ ledger \subseteq Revisions
  /\ LatestIsTheVersion
  /\ stage = "statement" => Pending # {}

\* Recording the least pending revision leaves no gap.
LEMMA RecordingIsGapless ==
  ASSUME Ledger, Pending # {}
  PROVE  LET new == ledger \cup {NextUp}
         IN  new \subseteq Revisions /\ \A r \in new : 1..r \subseteq new
<1>1. NextUp \in Revisions /\ NextUp \notin ledger
  BY LeastPending DEF Ledger, Pending
<1>2. \A r \in Revisions : r < NextUp => r \in ledger
  BY <1>1, LeastPending DEF Ledger, Pending, Revisions, Latest
<1>3. 1..NextUp \subseteq ledger \cup {NextUp}
  BY <1>1, <1>2 DEF Revisions, Latest
<1> QED
  BY <1>1, <1>3 DEF Ledger, LatestIsTheVersion

\* So does stamping: all of a new database, or the baseline.
LEMMA StampingIsGapless ==
  ASSUME Ledger
  PROVE  LET new == ledger \cup ToStamp
         IN  new \subseteq Revisions /\ \A r \in new : 1..r \subseteq new
<1>1. CASE ledger = {} /\ fresh
  BY <1>1 DEF Ledger, ToStamp, Pending, Revisions, Latest
<1>2. CASE ~(ledger = {} /\ fresh)
  <2>1. ToStamp \subseteq {1} /\ ToStamp \subseteq Revisions
    BY <1>2 DEF ToStamp, Pending, Baseline
  <2>2. 1..1 = {1}
    OBVIOUS
  <2>3. ASSUME NEW r \in ledger \cup ToStamp PROVE 1..r \subseteq ledger \cup ToStamp
    BY <2>1, <2>2, <2>3 DEF Ledger, LatestIsTheVersion
  <2> QED
    BY <2>1, <2>3 DEF Ledger
<1> QED
  BY <1>1, <1>2

LEMMA LedgerInit == MigrationsInit => Ledger
<1> SUFFICES ASSUME MigrationsInit PROVE Ledger
  OBVIOUS
<1>1. stage = "down"
  BY DEF MigrationsInit
<1>2. ledger = {} \/ \E r \in Revisions : ledger = 1..r
  BY DEF MigrationsInit
<1> QED
  BY <1>1, <1>2 DEF Ledger, LatestIsTheVersion, Revisions, Latest

LEMMA LedgerStep == Ledger /\ [MigrationsNext]_migrationVars => Ledger'
<1> SUFFICES ASSUME Ledger, [MigrationsNext]_migrationVars PROVE Ledger'
  OBVIOUS
<1>0. ASSUME ledger' = ledger, stage' # "statement" PROVE Ledger'
  BY <1>0 DEF Ledger, LatestIsTheVersion
<1>1. CASE Start
  BY <1>0, <1>1 DEF Start, stored
<1>2. CASE CreateMissing
  BY <1>0, <1>2 DEF CreateMissing
<1>3. CASE SafetyBackup
  BY <1>0, <1>3 DEF SafetyBackup, stored
<1>4. CASE Stamp
  BY <1>4, StampingIsGapless DEF Stamp, Ledger, LatestIsTheVersion
<1>5. CASE BeginMigration
  BY <1>5 DEF BeginMigration, stored, Ledger, LatestIsTheVersion, Pending
<1>6. CASE RunStatement
  <2>1. ledger' = ledger /\ stage = "statement"
    BY <1>6 DEF RunStatement
  <2> QED
    BY <2>1 DEF Ledger, LatestIsTheVersion, Pending
<1>7. CASE CopyLinks
  <2>1. stage = "statement"
    BY <1>7 DEF CopyLinks
  <2>2. CASE Refused \/ \E i \in DOMAIN todo : Fails(todo[i])
    BY <1>0, <1>7, <2>2 DEF CopyLinks, Abort, stored
  <2>3. CASE ~(Refused \/ \E i \in DOMAIN todo : Fails(todo[i]))
    <3>1. ledger' = ledger \cup {NextUp} /\ stage' = "upgrade"
      BY <1>7, <2>3 DEF CopyLinks
    <3> QED
      BY <2>1, <3>1, RecordingIsGapless DEF Ledger, LatestIsTheVersion
  <2> QED
    BY <2>2, <2>3
<1>8. CASE Record
  <2>1. /\ ledger' = ledger \cup {NextUp} /\ stage' = "upgrade"
        /\ stage = "statement"
    BY <1>8 DEF Record
  <2> QED
    BY <2>1, RecordingIsGapless DEF Ledger, LatestIsTheVersion
<1>9. CASE NormalizeLegacyData
  BY <1>0, <1>9 DEF NormalizeLegacyData
<1>10. CASE Crash
  BY <1>0, <1>10 DEF Crash, Abort, stored
<1>11. CASE Serve \/ UNCHANGED migrationVars
  BY <1>11 DEF Serve, migrationVars, stored, Ledger, LatestIsTheVersion, Pending
<1> QED
  BY <1>1, <1>2, <1>3, <1>4, <1>5, <1>6, <1>7, <1>8, <1>9, <1>10, <1>11 DEF MigrationsNext, Boot

\* The ledger never has a gap, so its greatest revision is the version of the schema
\* (docs/MIGRATIONS.md:57), however starts are cut off (migrations/runner.py:97-168).
THEOREM LedgerHasNoGaps == MigrationsSpec => []LatestIsTheVersion
<1>1. Ledger => LatestIsTheVersion
  BY DEF Ledger
<1> QED
  BY <1>1, LedgerInit, LedgerStep, PTL DEF MigrationsSpec

-----------------------------------------------------------------------------
(* The backup.                                                             *)

\* The database still has what the first start found, or a backup does, or did until it
\* was written over.
Kept == link = origin.link /\ origin.schema \subseteq schema
Safe == BackedUp \/ lost \/ origin.schema = {}

\* From the backup on, either it was taken or nothing is left to apply; and the
\* backup is taken before the stamp that makes the ledger look used.
Backup ==
  /\ Kept \/ Safe
  /\ stage = "stamp" => Safe \/ ToApply = {}
  /\ stage \in {"upgrade", "statement"} => Safe \/ Pending = {}

LEMMA BackupInit == MigrationsInit => Backup
BY DEF MigrationsInit, Backup, Kept, Current

\* No copy goes but by being written over, and the origin is history.
LEMMA SafeStays ==
  ASSUME [MigrationsNext]_migrationVars
  PROVE  origin' = origin /\ (Safe => Safe')
<1>1. origin' = origin
  BY DEF MigrationsNext, Boot, Start, CreateMissing, SafetyBackup, Stamp, BeginMigration, RunStatement,
         CopyLinks, Record, NormalizeLegacyData, Crash, Serve, migrationVars
<1>2. \/ UNCHANGED bakFiles
      \/ /\ backups' \in {backups, backups \cup newest}
         /\ lost' = (lost \/ ~(newest \subseteq backups' \cup newest'))
  BY DEF MigrationsNext, Boot, Start, CreateMissing, SafetyBackup, Stamp, BeginMigration, RunStatement,
         CopyLinks, Record, NormalizeLegacyData, Crash, Serve, migrationVars, bakFiles, Written
<1>3. CASE UNCHANGED bakFiles
  BY <1>1, <1>3 DEF Safe, BackedUp, bakFiles
<1>4. CASE /\ backups' \in {backups, backups \cup newest}
           /\ lost' = (lost \/ ~(newest \subseteq backups' \cup newest'))
  <2>1. lost' \/ backups \cup newest \subseteq backups' \cup newest'
    BY <1>4
  <2> QED
    BY <1>1, <1>4, <2>1 DEF Safe, BackedUp
<1> QED
  BY <1>1, <1>2, <1>3, <1>4

LEMMA BackupStep == Ledger /\ Backup /\ [MigrationsNext]_migrationVars => Backup'
<1> SUFFICES ASSUME Ledger, Backup, [MigrationsNext]_migrationVars PROVE Backup'
  OBVIOUS
<1>0. ASSUME Safe PROVE Backup'
  BY <1>0, SafeStays DEF Backup
<1> SUFFICES ASSUME ~Safe PROVE Backup'
  BY <1>0
<1>a. Kept /\ origin' = origin
  BY SafeStays DEF Backup
<1>b. ASSUME link' = link, schema \subseteq schema',
             stage' \notin {"stamp", "upgrade", "statement"}
      PROVE  Backup'
  BY <1>a, <1>b DEF Backup, Kept
<1>c. stage # "statement"
  BY DEF Backup, Ledger
<1>1. CASE Start
  BY <1>b, <1>1 DEF Start, stored
<1>2. CASE CreateMissing
  BY <1>b, <1>2 DEF CreateMissing
<1>3. CASE SafetyBackup
  <2>1. CASE NeedsBackup
    <3>1. newest' = {Current}
      BY <1>3, <2>1 DEF SafetyBackup, Written
    <3>2. Current.link = origin.link /\ origin.schema \subseteq Current.schema
      BY <1>a DEF Kept, Current
    <3>3. Safe'
      BY <1>a, <3>1, <3>2 DEF Safe, BackedUp
    <3> QED
      BY <3>3 DEF Backup
  <2>2. CASE ~NeedsBackup
    <3>1. stage' = "stamp" /\ UNCHANGED <<stored, fresh>>
      BY <1>3 DEF SafetyBackup
    <3>2. ToApply' = {}
      BY <2>2, <3>1 DEF NeedsBackup, ToApply, ToStamp, Pending, stored
    <3> QED
      BY <1>a, <3>1, <3>2 DEF Backup, Kept, stored
  <2> QED
    BY <2>1, <2>2
<1>4. CASE Stamp
  <2>1. ToApply = {}
    BY <1>4 DEF Stamp, Backup
  <2>2. stage' = "upgrade" /\ ledger' = ledger \cup ToStamp /\ UNCHANGED <<schema, link>>
    BY <1>4 DEF Stamp
  <2>3. Pending' = {}
    BY <2>1, <2>2 DEF ToApply, Pending
  <2> QED
    BY <1>a, <2>2, <2>3 DEF Backup, Kept
<1>5. CASE BeginMigration
  <2>1. Pending = {}
    BY <1>5 DEF BeginMigration, Backup
  <2> QED
    BY <1>b, <1>5, <2>1 DEF BeginMigration, stored
<1>6. CASE RunStatement \/ CopyLinks \/ Record
  BY <1>c, <1>6 DEF RunStatement, CopyLinks, Record
<1>7. CASE NormalizeLegacyData
  BY <1>b, <1>7 DEF NormalizeLegacyData
<1>8. CASE Crash
  BY <1>b, <1>8 DEF Crash, Abort, stored
<1>9. CASE Serve \/ UNCHANGED migrationVars
  BY <1>9 DEF Serve, migrationVars, stored, bakFiles, Backup, Kept, Safe, BackedUp, ToApply, ToStamp, Pending
<1> QED
  BY <1>1, <1>2, <1>3, <1>4, <1>5, <1>6, <1>7, <1>8, <1>9 DEF MigrationsNext, Boot

\* Whatever a migration takes from an existing database is in a backup, also when the
\* upgrade took several starts, as long as no start writes its copy over another's of the
\* same second (migrations/runner.py:138-140, 184-186, docs/MIGRATIONS.md:36).
THEOREM ChangesAreBackedUp == MigrationsSpec => []BackupPrecedesChange
<1>1. Backup => BackupPrecedesChange
  BY DEF Backup, Kept, Safe, BackupPrecedesChange
<1> QED
  BY <1>1, LedgerInit, LedgerStep, BackupInit, BackupStep, PTL DEF MigrationsSpec

-----------------------------------------------------------------------------
(* The links.                                                              *)

\* What the migrations make and drop; the accounts are not among it.
Migrated ==
  {"audit_logs.channel", "audit_logs.api_key_id", "ix_audit_logs_api_key_id",
   "machine_set_maps", "ix_maps_machine_id", "ix_maps_tool_set_id",
   "uq_active_map_per_machine", "sets.machine_id", "ix_sets_machine_id", "labels", "ix_labels", "usage_ledger", "ix_usage_ledger", "entries.usage_baseline",
   "tool_usage", "tool_presets", "preset_contributions", "ix_preset_contributions",
   "catalogs", "ix_catalogs", "manufacturer_catalogs"}

\* Statements that leave the accounts there, and those that leave the links too.
Harmless == [adds : SUBSET Migrated, drops : SUBSET Migrated, lax : BOOLEAN, copies : BOOLEAN]
Apart == {q \in Harmless : ~q.copies /\ "sets.machine_id" \notin q.drops}

\* The statements of 0003 that move the links.
Moving == <<[Create({}) EXCEPT !.copies = TRUE], DropIfThere({"ix_sets_machine_id"}),
            Drop({"sets.machine_id"})>>

\* While there are links, only 0003 touches their column, and not before it has
\* copied them.
Walk ==
  stage = "statement" =>
    \/ Linked = {} /\ todo \in Seq(Harmless)
    \/ NextUp # 3 /\ todo \in Seq(Apart)
    \/ NextUp = 3 /\ \E first \in Seq(Apart) : todo = first \o Moving

\* A database that was there stays, and is never taken for a new one.
Found ==
  /\ origin.schema # {} => "users" \in schema /\ ~fresh
  /\ origin.schema = {} => origin.link = NoLink /\ link = NoLink

Links ==
  /\ link \in [Sets -> Machines \cup {NoMachine}] /\ origin.link \in [Sets -> Machines \cup {NoMachine}]
  /\ "sets.machine_id" \notin schema => link = NoLink
  /\ Found /\ Walk /\ LinksBecomeSetups

LEMMA NothingLinked ==
  ASSUME link \in [Sets -> Machines \cup {NoMachine}]
  PROVE  Linked = {} <=> link = NoLink
BY DEF Linked, NoLink

LEMMA EmptySteps == <<>> \in Seq(Apart) /\ <<>> \in Seq(Harmless)
OBVIOUS

LEMMA Creates ==
  ASSUME NEW o \in Migrated
  PROVE  Create({o}) \in Apart /\ CreateIfMissing({o}) \in Apart
BY DEF Create, CreateIfMissing, Harmless, Apart

LEMMA Drops ==
  ASSUME NEW o \in Migrated
  PROVE  /\ Drop({o}) \in Harmless /\ DropIfThere({o}) \in Harmless
         /\ o # "sets.machine_id" => Drop({o}) \in Apart /\ DropIfThere({o}) \in Apart
BY DEF Create, Drop, DropIfThere, Harmless, Apart

LEMMA Copies == [Create({}) EXCEPT !.copies = TRUE] \in Harmless
BY DEF Create, Harmless

LEMMA WhenType ==
  ASSUME NEW S, NEW condition, NEW statements \in Seq(S)
  PROVE  When(condition, statements) \in Seq(S)
BY DEF When

LEMMA Joined ==
  ASSUME NEW S, NEW s \in Seq(S), NEW t \in Seq(S)
  PROVE  s \o t \in Seq(S)
OBVIOUS

LEMMA Singleton == ASSUME NEW S, NEW a \in S PROVE <<a>> \in Seq(S)
OBVIOUS

LEMMA Pair == ASSUME NEW S, NEW a \in S, NEW b \in S PROVE <<a, b>> \in Seq(S)
OBVIOUS

LEMMA Triple ==
  ASSUME NEW S, NEW a \in S, NEW b \in S, NEW c \in S PROVE <<a, b, c>> \in Seq(S)
OBVIOUS

LEMMA ApartIsHarmless == \A t \in Seq(Apart) : t \in Seq(Harmless)
BY DEF Apart

\* No other migration touches the links.
LEMMA OtherUpgrades ==
  ASSUME NEW s, NEW r \in Revisions, r # 3
  PROVE  Upgrade(r, s) \in Seq(Apart)
<1>1. Upgrade0002(s) \in Seq(Apart)
  <2>1. <<Create({"audit_logs.channel"})>> \in Seq(Apart)
    BY Creates, Drops, Singleton DEF Migrated
  <2>2. <<Create({"audit_logs.api_key_id"}), CreateIfMissing({"ix_audit_logs_api_key_id"})>>
          \in Seq(Apart)
    BY Creates, Pair DEF Migrated
  <2> QED
    BY <2>1, <2>2, WhenType, Joined DEF Upgrade0002
<1>2. Upgrade0004(s) \in Seq(Apart)
  <2>1. <<Create({"labels"})>> \in Seq(Apart) /\ <<CreateIfMissing({"ix_labels"})>> \in Seq(Apart)
    BY Creates, Drops, Singleton DEF Migrated
  <2> QED
    BY <2>1, WhenType, Joined DEF Upgrade0004
<1>3. Upgrade0005(s) \in Seq(Apart)
  <2>1. /\ <<Create({"usage_ledger"})>> \in Seq(Apart)
        /\ <<CreateIfMissing({"ix_usage_ledger"})>> \in Seq(Apart)
        /\ <<Create({"entries.usage_baseline"})>> \in Seq(Apart)
    BY Creates, Drops, Singleton DEF Migrated
  <2> QED
    BY <2>1, WhenType, Joined DEF Upgrade0005
<1>4. Upgrade0006(s) \in Seq(Apart)
  BY Drops, Pair DEF Upgrade0006, Migrated
<1>5. Upgrade0007(s) \in Seq(Apart)
  <2>1. /\ <<Create({"preset_contributions"})>> \in Seq(Apart)
        /\ <<CreateIfMissing({"ix_preset_contributions"})>> \in Seq(Apart)
    BY Creates, Drops, Singleton DEF Migrated
  <2> QED
    BY <2>1, WhenType, Joined DEF Upgrade0007
<1>6. Upgrade0008(s) \in Seq(Apart)
  <2>1. /\ <<Create({"catalogs"})>> \in Seq(Apart)
        /\ <<CreateIfMissing({"ix_catalogs"})>> \in Seq(Apart)
        /\ <<Drop({"manufacturer_catalogs"})>> \in Seq(Apart)
    BY Creates, Drops, Singleton DEF Migrated
  <2> QED
    BY <2>1, WhenType, Joined DEF Upgrade0008
<1>7. r \in {1, 2, 4, 5, 6, 7, 8}
  BY DEF Revisions, Latest
<1>8. CASE r = 1
  BY <1>8, EmptySteps DEF Upgrade
<1>9. CASE r = 2
  BY <1>1, <1>9 DEF Upgrade
<1>10. CASE r = 4
  BY <1>2, <1>10 DEF Upgrade
<1>11. CASE r = 5
  BY <1>3, <1>11 DEF Upgrade
<1>12. CASE r = 6
  BY <1>4, <1>12 DEF Upgrade
<1>13. CASE r = 7
  BY <1>5, <1>13 DEF Upgrade
<1>14. CASE r = 8
  BY <1>6, <1>14 DEF Upgrade
<1> QED
  BY <1>7, <1>8, <1>9, <1>10, <1>11, <1>12, <1>13, <1>14

LEMMA MovingType == Moving \in Seq(Harmless)
<1>1. /\ [Create({}) EXCEPT !.copies = TRUE] \in Harmless
      /\ DropIfThere({"ix_sets_machine_id"}) \in Harmless
      /\ Drop({"sets.machine_id"}) \in Harmless
  BY Copies, Drops DEF Migrated
<1> QED
  BY <1>1 DEF Moving

\* 0003 moves the links if there is a column for them.
LEMMA MovingUpgrade ==
  ASSUME NEW s
  PROVE  \E first \in Seq(Apart) :
           Upgrade(3, s) = first \o (IF "sets.machine_id" \in s THEN Moving ELSE <<>>)
<1> DEFINE table == <<Create({"machine_set_maps"}), Create({"ix_maps_machine_id"}),
                      Create({"ix_maps_tool_set_id"})>>
           first == When("machine_set_maps" \notin s, table) \o
                    <<CreateIfMissing({"uq_active_map_per_machine"})>>
<1>1. table \in Seq(Apart) /\ <<CreateIfMissing({"uq_active_map_per_machine"})>> \in Seq(Apart)
  BY Creates, Singleton, Triple DEF Migrated
<1>2. first \in Seq(Apart)
  BY <1>1, WhenType, Joined
<1>3. Upgrade(3, s) = first \o When("sets.machine_id" \in s, Moving)
  BY DEF Upgrade, Upgrade0003, Moving
<1> QED
  BY <1>2, <1>3 DEF When

LEMMA HeadOfJoin ==
  ASSUME NEW S, NEW s \in Seq(S), NEW t \in Seq(S), t # <<>>
  PROVE  /\ s \o t \in Seq(S) /\ s \o t # <<>>
         /\ s = <<>> => Head(s \o t) = Head(t)
         /\ s # <<>> => Head(s \o t) = Head(s)
OBVIOUS

LEMMA TailOfJoin ==
  ASSUME NEW S, NEW s \in Seq(S), NEW t \in Seq(S), s # <<>>
  PROVE  Tail(s \o t) = Tail(s) \o t
<1>1. Len(s) \in Nat \ {0} /\ Len(t) \in Nat
  OBVIOUS
<1>2. /\ Tail(s) \in Seq(S) /\ Len(Tail(s)) = Len(s) - 1
      /\ \A i \in 1..Len(s) - 1 : Tail(s)[i] = s[i + 1]
  BY <1>1, HeadTailProperties
<1>3. /\ s \o t \in Seq(S) /\ Len(s \o t) = Len(s) + Len(t) /\ s \o t # <<>>
      /\ \A i \in 1..Len(s) + Len(t) : (s \o t)[i] = IF i <= Len(s) THEN s[i] ELSE t[i - Len(s)]
  BY <1>1, ConcatProperties
<1>4. /\ Tail(s \o t) \in Seq(S) /\ Len(Tail(s \o t)) = Len(s) + Len(t) - 1
      /\ \A i \in 1..Len(s) + Len(t) - 1 : Tail(s \o t)[i] = (s \o t)[i + 1]
  BY <1>1, <1>3, HeadTailProperties
<1>5. /\ Tail(s) \o t \in Seq(S) /\ Len(Tail(s) \o t) = Len(s) - 1 + Len(t)
      /\ \A i \in 1..Len(s) - 1 + Len(t) : (Tail(s) \o t)[i] =
           IF i <= Len(s) - 1 THEN Tail(s)[i] ELSE t[i - (Len(s) - 1)]
  BY <1>1, <1>2, ConcatProperties
<1>6. ASSUME NEW i \in 1..Len(s) + Len(t) - 1 PROVE Tail(s \o t)[i] = (Tail(s) \o t)[i]
  <2>1. i + 1 \in 1..Len(s) + Len(t) /\ i \in Nat
    BY <1>1, <1>6
  <2>2. Tail(s \o t)[i] = IF i + 1 <= Len(s) THEN s[i + 1] ELSE t[i + 1 - Len(s)]
    BY <1>3, <1>4, <1>6, <2>1
  <2>3. CASE i <= Len(s) - 1
    BY <1>1, <1>2, <1>5, <1>6, <2>1, <2>2, <2>3
  <2>4. CASE ~(i <= Len(s) - 1)
    <3>1. i - (Len(s) - 1) = i + 1 - Len(s)
      BY <1>1, <2>1
    <3> QED
      BY <1>1, <1>5, <1>6, <2>1, <2>2, <2>4, <3>1
  <2> QED
    BY <2>3, <2>4
<1> QED
  BY <1>1, <1>4, <1>5, <1>6, SeqEqual

\* What is left of a walk that still has the links to move.
LEMMA WalkOn ==
  ASSUME NEW first \in Seq(Apart), NEW steps, steps = first \o Moving
  PROVE  /\ steps \in Seq(Harmless) /\ steps # <<>>
         /\ \/ Head(steps).copies
            \/ /\ Head(steps) \in Apart
               /\ \E rest \in Seq(Apart) : Tail(steps) = rest \o Moving
<1>1. first \in Seq(Harmless) /\ Moving \in Seq(Harmless) /\ Moving # <<>>
  BY ApartIsHarmless, MovingType DEF Moving
<1>2. Head(Moving).copies
  BY DEF Moving, Create
<1> HIDE DEF Moving
<1>3. CASE first = <<>>
  BY <1>1, <1>2, <1>3, HeadOfJoin
<1>4. CASE first # <<>>
  <2>1. Head(first) \in Apart /\ Tail(first) \in Seq(Apart)
    BY <1>4, HeadTailProperties
  <2>2. Tail(steps) = Tail(first) \o Moving
    BY <1>1, <1>4, TailOfJoin
  <2>3. steps \in Seq(Harmless) /\ steps # <<>> /\ Head(steps) = Head(first)
    BY <1>1, <1>4, HeadOfJoin
  <2> QED
    BY <2>1, <2>2, <2>3
<1> QED
  BY <1>3, <1>4

LEMMA NoLinksNoSetups ==
  ASSUME link = NoLink, origin.link = NoLink, maps = {}
  PROVE  LinksBecomeSetups
<1>1. {t \in Sets : origin.link[t] # NoMachine} = {}
  BY DEF NoLink
<1> QED
  BY <1>1 DEF LinksBecomeSetups, NoLink

\* 0003 makes one setup of each link, the last of an account and a machine the active one.
LEMMA LinksAreCopied ==
  ASSUME link \in [Sets -> Machines \cup {NoMachine}], link = origin.link, maps = {},
         link' = NoLink, maps' = maps \cup MapsOfLinks, 3 \in ledger', origin' = origin
  PROVE  LinksBecomeSetups'
<1> DEFINE Setup(t) == [set |-> t, machine |-> link[t],
                      status |-> IF t \in Winners THEN "active" ELSE "ended"]
<1>1. maps' = {Setup(t) : t \in Linked} /\ Linked = {t \in Sets : origin.link[t] # NoMachine}
  BY DEF MapsOfLinks, Linked
<1>2. ASSUME NEW t \in Sets, origin.link[t] # NoMachine
      PROVE  \E s \in maps' :
               /\ s.set = t
               /\ s.machine = origin.link[t]
               /\ s.status = IF \A x \in Sets : Owner(x) = Owner(t) /\
                                  origin.link[x] = origin.link[t] => x <= t
                             THEN "active" ELSE "ended"
  <2>1. t \in Linked /\ Setup(t) \in maps'
    BY <1>1, <1>2
  <2>2. t \in Winners <=> \A x \in Sets : Owner(x) = Owner(t) /\
                           origin.link[x] = origin.link[t] => x <= t
    BY <2>1 DEF Winners, Linked
  <2>3. /\ Setup(t).set = t
        /\ Setup(t).machine = origin.link[t]
        /\ Setup(t).status = IF t \in Winners THEN "active" ELSE "ended"
    OBVIOUS
  <2> HIDE DEF Setup
  <2> QED
    BY <2>1, <2>2, <2>3
<1>3. Cardinality(maps') = Cardinality(Linked)
  <2> DEFINE f == [t \in Linked |-> Setup(t)]
  <2>1. IsFiniteSet(Linked)
    <3>1. IsFiniteSet(Sets) /\ Linked \in SUBSET Sets
      BY SizesAssumption, FS_Interval DEF Sets, Linked
    <3> QED
      BY <3>1, FS_Subset
  <2>2. \A t \in Linked : Setup(t).set = t
    OBVIOUS
  <2> HIDE DEF Setup
  <2>3. /\ f \in [Linked -> maps']
        /\ \A t, u \in Linked : f[t] = f[u] => t = u
        /\ \A s \in maps' : \E t \in Linked : f[t] = s
    BY <1>1, <2>2
  <2> HIDE DEF f
  <2>4. f \in Bijection(Linked, maps')
    BY <2>3, Fun_IsBij
  <2> QED
    BY <2>1, <2>4, FS_Bijection DEF ExistsBijection
<1> QED
  BY <1>1, <1>2, <1>3 DEF LinksBecomeSetups

\* Steps that leave the links and their setups alone.
LEMMA LinksStay ==
  ASSUME LinksBecomeSetups, UNCHANGED <<link, maps, origin>>,
         (3 \in ledger' <=> 3 \in ledger) \/ origin.schema = {}
  PROVE  LinksBecomeSetups'
BY DEF LinksBecomeSetups

\* A start finds a new database, or one with accounts and, before 0003, with links.
LEMMA LinksInit == MigrationsInit => Links
<1> SUFFICES ASSUME MigrationsInit PROVE Links
  OBVIOUS
<1>1. /\ stage = "down" /\ fresh = FALSE /\ maps = {}
      /\ origin.schema = schema /\ origin.ledger = ledger /\ origin.link = link
  BY DEF MigrationsInit, Current
<1>2. CASE schema = {} /\ ledger = {} /\ link = NoLink
  <2>1. link \in [Sets -> Machines \cup {NoMachine}]
    BY <1>2 DEF NoLink
  <2> QED
    BY <1>1, <1>2, <2>1, NoLinksNoSetups DEF Links, Found, Walk
<1>3. CASE schema = BaseSchema /\ ledger = {} /\ link \in [Sets -> Machines \cup {NoMachine}]
  <2>1. "users" \in schema /\ "sets.machine_id" \in schema
    BY <1>3 DEF BaseSchema
  <2> QED
    BY <1>1, <1>3, <2>1 DEF Links, Found, Walk, LinksBecomeSetups
<1>4. CASE \E r \in Revisions :
             /\ schema = SchemaAt(r) /\ ledger = 1..r
             /\ link \in IF r < 3 THEN [Sets -> Machines \cup {NoMachine}] ELSE {NoLink}
  <2>1. PICK r \in Revisions :
               /\ schema = SchemaAt(r) /\ ledger = 1..r
               /\ link \in IF r < 3 THEN [Sets -> Machines \cup {NoMachine}] ELSE {NoLink}
    BY <1>4
  <2>2. r \in 1..8
    BY DEF Revisions, Latest
  <2>3. \A i \in 1..8 : "users" \notin Dropped[i]
    BY DEF Dropped
  <2>4. "users" \in schema
    BY <2>1, <2>2, <2>3 DEF SchemaAt, BaseSchema
  <2>5. CASE r < 3
    <3>1. \A i \in 1..2 : "sets.machine_id" \notin Dropped[i]
      BY DEF Dropped
    <3>2. "sets.machine_id" \in schema
      BY <2>1, <2>2, <2>5, <3>1 DEF SchemaAt, BaseSchema
    <3>3. 3 \notin ledger
      BY <2>1, <2>2, <2>5
    <3> QED
      BY <1>1, <2>1, <2>4, <2>5, <3>2, <3>3 DEF Links, Found, Walk, LinksBecomeSetups
  <2>6. CASE ~(r < 3)
    <3>1. link = NoLink /\ link \in [Sets -> Machines \cup {NoMachine}]
      BY <2>1, <2>6 DEF NoLink
    <3> QED
      BY <1>1, <2>4, <3>1, NoLinksNoSetups DEF Links, Found, Walk
  <2> QED
    BY <2>2, <2>5, <2>6
<1> QED
  BY <1>2, <1>3, <1>4 DEF MigrationsInit

\* The statements a migration begins with are a walk.
LEMMA WalkBegins ==
  ASSUME Ledger, Links, BeginMigration
  PROVE  Walk'
<1> SUFFICES ASSUME stage' = "statement" PROVE Walk'
  BY DEF Walk
<1>1. Pending # {} /\ todo' = Upgrade(NextUp, schema) /\ UNCHANGED <<schema, ledger, link>>
  BY DEF BeginMigration, stored
<1>2. NextUp \in Revisions /\ NextUp' = NextUp /\ Linked' = Linked
  BY <1>1, LeastPending DEF Ledger, Pending, NextUp, Linked
<1>3. CASE NextUp # 3
  BY <1>1, <1>2, <1>3, OtherUpgrades DEF Walk
<1>4. CASE NextUp = 3
  <2>1. PICK first \in Seq(Apart) :
               todo' = first \o (IF "sets.machine_id" \in schema THEN Moving ELSE <<>>)
    BY <1>1, <1>4, MovingUpgrade
  <2>2. CASE "sets.machine_id" \in schema
    BY <1>2, <1>4, <2>1, <2>2 DEF Walk
  <2>3. CASE "sets.machine_id" \notin schema
    <3>1. Linked = {}
      BY <2>3, NothingLinked DEF Links
    <3>2. todo' \in Seq(Harmless)
      BY <2>1, <2>3, ApartIsHarmless, EmptySteps, Joined
    <3> QED
      BY <1>2, <3>1, <3>2 DEF Walk
  <2> QED
    BY <2>2, <2>3
<1> QED
  BY <1>3, <1>4

\* A statement leaves the accounts, and the links while there are some.
LEMMA StatementsKeepLinks ==
  ASSUME Links, RunStatement
  PROVE  /\ Walk' /\ ("users" \in schema => "users" \in schema')
         /\ "sets.machine_id" \notin schema' => link = NoLink
<1>1. /\ stage = "statement" /\ todo # <<>> /\ ~(Head(todo).copies /\ Linked # {})
      /\ UNCHANGED <<ledger, link>> /\ NextUp' = NextUp /\ Linked' = Linked
  BY DEF RunStatement, Pending, NextUp, Linked
<1>2. CASE Fails(Head(todo))
  BY <1>2 DEF RunStatement, Abort, Walk, Links
<1>3. CASE ~Fails(Head(todo))
  <2>1. schema' = (schema \cup Head(todo).adds) \ Head(todo).drops /\ todo' = Tail(todo)
    BY <1>3 DEF RunStatement, Execute
  <2>2. CASE Linked = {} /\ todo \in Seq(Harmless)
    <3>1. Head(todo) \in Harmless /\ Tail(todo) \in Seq(Harmless)
      BY <1>1, <2>2, HeadTailProperties
    <3>2. "users" \notin Head(todo).drops
      BY <3>1 DEF Harmless, Migrated
    <3>3. link = NoLink
      BY <2>2, NothingLinked DEF Links
    <3> QED
      BY <1>1, <2>1, <2>2, <3>1, <3>2, <3>3 DEF Walk
  <2>3. ASSUME Head(todo) \in Apart
        PROVE  /\ ("users" \in schema => "users" \in schema')
               /\ "sets.machine_id" \notin schema' => link = NoLink
    <3>1. "users" \notin Head(todo).drops /\ "sets.machine_id" \notin Head(todo).drops
      BY <2>3 DEF Apart, Harmless, Migrated
    <3> QED
      BY <2>1, <3>1 DEF Links
  <2>4. CASE NextUp # 3 /\ todo \in Seq(Apart)
    <3>1. Head(todo) \in Apart /\ Tail(todo) \in Seq(Apart)
      BY <1>1, <2>4, HeadTailProperties
    <3> QED
      BY <1>1, <2>1, <2>3, <2>4, <3>1 DEF Walk
  <2>5. CASE NextUp = 3 /\ \E first \in Seq(Apart) : todo = first \o Moving
    <3>1. todo \in Seq(Harmless)
      BY <2>5, WalkOn
    <3>2. CASE Head(todo).copies
      BY <1>1, <2>2, <3>1, <3>2
    <3>3. CASE ~Head(todo).copies
      <4>1. Head(todo) \in Apart /\ \E rest \in Seq(Apart) : Tail(todo) = rest \o Moving
        BY <2>5, <3>3, WalkOn
      <4> QED
        BY <1>1, <2>1, <2>3, <2>5, <4>1 DEF Walk
    <3> QED
      BY <3>2, <3>3
  <2> QED
    BY <1>1, <2>2, <2>4, <2>5 DEF Links, Walk
<1> QED
  BY <1>2, <1>3

\* The commit of 0003 makes the setups, in a database that was there and had links.
LEMMA CommitMovesLinks ==
  ASSUME Ledger, Links, CopyLinks, ~(Refused \/ \E i \in DOMAIN todo : Fails(todo[i]))
  PROVE  Links'
<1>1. /\ stage = "statement" /\ Head(todo).copies /\ Linked # {} /\ todo # <<>>
      /\ maps' = maps \cup MapsOfLinks /\ link' = NoLink /\ ledger' = ledger \cup {NextUp}
      /\ schema' = schema \ UNION {todo[i].drops : i \in DOMAIN todo}
      /\ stage' = "upgrade" /\ fresh' = fresh /\ origin' = origin
  BY DEF CopyLinks
<1>2. link \in [Sets -> Machines \cup {NoMachine}] /\ link # NoLink
  BY <1>1, NothingLinked DEF Links
<1>3. ~(todo \in Seq(Apart))
  <2> SUFFICES ASSUME todo \in Seq(Apart) PROVE FALSE
    OBVIOUS
  <2>1. Head(todo) \in Apart
    BY <1>1, HeadTailProperties
  <2> QED
    BY <1>1, <2>1 DEF Apart
<1>4. NextUp = 3 /\ todo \in Seq(Harmless)
  BY <1>1, <1>3, WalkOn DEF Links, Walk
<1>5. NextUp \in Pending
  BY <1>1, LeastPending DEF Ledger
<1>6. origin.schema # {} /\ 3 \notin ledger
  BY <1>2, <1>4, <1>5 DEF Links, Found, Pending
<1>7. link = origin.link /\ maps = {}
  BY <1>6 DEF Links, LinksBecomeSetups
<1>8. LinksBecomeSetups'
  BY <1>1, <1>2, <1>4, <1>7, LinksAreCopied
<1>9. "users" \in schema'
  <2>1. ASSUME NEW i \in DOMAIN todo PROVE "users" \notin todo[i].drops
    <3>1. todo[i] \in Harmless
      BY <1>4, <2>1
    <3> QED
      BY <3>1 DEF Harmless, Migrated
  <2> QED
    BY <1>1, <1>6, <2>1 DEF Links, Found
<1>10. link' \in [Sets -> Machines \cup {NoMachine}]
  BY <1>1 DEF NoLink
<1>11. NoLink' = NoLink
  BY DEF NoLink
<1>12. /\ origin'.schema # {} => "users" \in schema' /\ ~fresh'
       /\ origin'.schema = {} => origin'.link = NoLink /\ link' = NoLink
  BY <1>1, <1>6, <1>9 DEF Links, Found
<1> QED
  BY <1>1, <1>8, <1>10, <1>11, <1>12 DEF Links, Found, Walk

\* The record of 0003 comes by itself only where there was nothing to move.
LEMMA RecordKeepsLinks ==
  ASSUME Ledger, Links, Record
  PROVE  LinksBecomeSetups'
<1>1. /\ stage = "statement" /\ todo = <<>> /\ ledger' = ledger \cup {NextUp}
      /\ UNCHANGED <<link, maps, origin>>
  BY DEF Record
<1>2. NextUp \in Pending
  BY <1>1, LeastPending DEF Ledger
<1>3. CASE NextUp # 3 \/ origin.schema = {}
  BY <1>1, <1>3, LinksStay DEF Links
<1>4. CASE NextUp = 3 /\ origin.schema # {}
  <2>1. Linked = {}
    BY <1>1, <1>4, WalkOn DEF Links, Walk
  <2>2. link = NoLink
    BY <2>1, NothingLinked DEF Links
  <2>3. origin.link = NoLink /\ maps = {}
    BY <1>2, <1>4, <2>2 DEF Links, LinksBecomeSetups, Pending
  <2>4. {t \in Sets : origin.link[t] # NoMachine} = {}
    BY <2>3 DEF NoLink
  <2> QED
    BY <1>1, <2>2, <2>3, <2>4 DEF LinksBecomeSetups, NoLink
<1> QED
  BY <1>3, <1>4

LEMMA LinksStep == Ledger /\ Links /\ [MigrationsNext]_migrationVars => Links'
<1> SUFFICES ASSUME Ledger, Links, [MigrationsNext]_migrationVars PROVE Links'
  OBVIOUS
<1>0. ASSUME UNCHANGED <<ledger, link, maps, origin>>, Walk',
             "users" \in schema => "users" \in schema',
             "sets.machine_id" \notin schema' => link = NoLink,
             origin.schema # {} => ~fresh'
      PROVE  Links'
  BY <1>0, LinksStay DEF Links, Found, NoLink
<1>1. CASE Start
  <2>1. /\ UNCHANGED <<schema, ledger, link, maps, origin>> /\ stage' = "create"
        /\ fresh' = (schema = {})
    BY <1>1 DEF Start, stored
  <2> QED
    BY <1>0, <2>1 DEF Links, Found, Walk
<1>2. CASE CreateMissing
  <2>1. /\ UNCHANGED <<ledger, link, maps, origin, fresh>> /\ stage' # "statement"
        /\ schema \subseteq schema'
    BY <1>2 DEF CreateMissing
  <2> QED
    BY <1>0, <2>1 DEF Links, Found, Walk
<1>3. CASE SafetyBackup
  BY <1>0, <1>3 DEF SafetyBackup, stored, Links, Found, Walk
<1>4. CASE Stamp
  <2>1. /\ UNCHANGED <<schema, link, maps, origin, fresh>> /\ stage' # "statement"
        /\ ledger' = ledger \cup ToStamp
    BY <1>4 DEF Stamp
  <2>2. origin.schema # {} => ToStamp \subseteq {1}
    BY DEF Links, Found, ToStamp, Baseline
  <2>3. LinksBecomeSetups'
    BY <2>1, <2>2, LinksStay DEF Links
  <2> QED
    BY <2>1, <2>3 DEF Links, Found, Walk, NoLink
<1>5. CASE BeginMigration
  <2>1. UNCHANGED <<schema, ledger, link, maps, origin, fresh>>
    BY <1>5 DEF BeginMigration, stored
  <2> QED
    BY <1>0, <1>5, <2>1, WalkBegins DEF Links, Found
<1>6. CASE RunStatement
  <2>1. /\ UNCHANGED <<ledger, link, maps, origin>>
        /\ fresh' = fresh \/ fresh' = FALSE
    BY <1>6 DEF RunStatement, Abort
  <2> QED
    BY <1>0, <1>6, <2>1, StatementsKeepLinks DEF Links, Found
<1>7. CASE CopyLinks
  <2>1. CASE Refused \/ \E i \in DOMAIN todo : Fails(todo[i])
    BY <1>0, <1>7, <2>1 DEF CopyLinks, Abort, stored, Links, Walk
  <2> QED
    BY <1>7, <2>1, CommitMovesLinks
<1>8. CASE Record
  <2>1. UNCHANGED <<schema, link, maps, origin, fresh>> /\ stage' # "statement"
    BY <1>8 DEF Record
  <2> QED
    BY <1>8, <2>1, RecordKeepsLinks DEF Links, Found, Walk, NoLink
<1>9. CASE NormalizeLegacyData
  BY <1>0, <1>9 DEF NormalizeLegacyData, Links, Found, Walk
<1>10. CASE Crash
  BY <1>0, <1>10 DEF Crash, Abort, stored, Links, Walk
<1>11. CASE Serve \/ UNCHANGED migrationVars
  <2>1. UNCHANGED migrationVars
    BY <1>11 DEF Serve
  <2>2. Linked' = Linked /\ NextUp' = NextUp
    BY <2>1 DEF migrationVars, stored, Linked, NextUp, Pending
  <2> QED
    BY <1>0, <2>1, <2>2 DEF migrationVars, stored, bakFiles, Links, Found, Walk
<1> QED
  BY <1>1, <1>2, <1>3, <1>4, <1>5, <1>6, <1>7, <1>8, <1>9, <1>10, <1>11 DEF MigrationsNext, Boot

\* No link of a set to its machine is lost, doubled or made the wrong machine's setup,
\* wherever a start is cut off: it is in its column until 0003 is recorded, and from
\* then on it is one setup, active if it was the last of its account and machine and
\* ended otherwise (migrations/0003_machine_set_maps.py:69-115).
THEOREM LinksAreMoved == MigrationsSpec => []LinksBecomeSetups
<1>1. Links => LinksBecomeSetups
  BY DEF Links
<1> QED
  BY <1>1, LedgerInit, LedgerStep, LinksInit, LinksStep, PTL DEF MigrationsSpec

-----------------------------------------------------------------------------
(* The schema.                                                             *)

Retired == {"sets.machine_id", "ix_sets_machine_id", "tool_usage", "tool_presets",
            "manufacturer_catalogs"}
Basic == {"users", "audit_logs", "tool_set_records", "tool_table_entry_records",
          "machine_set_maps"}

\* Every statement makes what the models have, and drops what they have no more.
Order == [adds : SUBSET HeadSchema, drops : SUBSET Retired, lax : BOOLEAN, copies : BOOLEAN]
AddsOf(t) == UNION {t[i].adds : i \in DOMAIN t}
DropsOf(t) == UNION {t[i].drops : i \in DOMAIN t}

\* A column is in its table.
Columns(s) ==
  /\ ("audit_logs.channel" \in s \/ "audit_logs.api_key_id" \in s) => "audit_logs" \in s
  /\ "entries.usage_baseline" \in s => "tool_table_entry_records" \in s
Columned == {q \in Order : Columns(q.adds)}

LEMMA Heads ==
  /\ HeadSchema = {"users", "ix_users", "audit_logs", "audit_logs.channel",
       "audit_logs.api_key_id", "ix_audit_logs", "ix_audit_logs_api_key_id",
       "tool_set_records", "ix_tool_set_records", "tool_table_entry_records",
       "entries.usage_baseline", "ix_entries", "ix_entries_bound_instance_id",
       "machine_set_maps", "ix_maps_machine_id", "ix_maps_tool_set_id", "ix_maps_user_id",
       "uq_active_map_per_machine", "labels", "ix_labels", "usage_ledger", "ix_usage_ledger",
       "preset_contributions", "ix_preset_contributions", "catalogs", "ix_catalogs"}
  /\ HeadSchema = UNION {ModelTables[i][1] \cup ModelTables[i][2] : i \in 1..9}
<1>1. DOMAIN ModelTables = 1..9
  BY DEF ModelTables
<1>2. 1..9 = {1, 2, 3, 4, 5, 6, 7, 8, 9}
  OBVIOUS
<1>3. /\ ModelTables[1] = <<{"users"}, {"ix_users"}>>
      /\ ModelTables[2] = <<{"audit_logs", "audit_logs.channel", "audit_logs.api_key_id"},
                            {"ix_audit_logs", "ix_audit_logs_api_key_id"}>>
      /\ ModelTables[3] = <<{"tool_set_records"}, {"ix_tool_set_records"}>>
      /\ ModelTables[4] = <<{"tool_table_entry_records", "entries.usage_baseline"},
                            {"ix_entries", "ix_entries_bound_instance_id"}>>
      /\ ModelTables[5] = <<{"machine_set_maps"},
                            {"ix_maps_machine_id", "ix_maps_tool_set_id", "ix_maps_user_id",
                             "uq_active_map_per_machine"}>>
      /\ ModelTables[6] = <<{"labels"}, {"ix_labels"}>>
      /\ ModelTables[7] = <<{"usage_ledger"}, {"ix_usage_ledger"}>>
      /\ ModelTables[8] = <<{"preset_contributions"}, {"ix_preset_contributions"}>>
      /\ ModelTables[9] = <<{"catalogs"}, {"ix_catalogs"}>>
  BY DEF ModelTables
<1>4. HeadSchema = UNION {ModelTables[i][1] \cup ModelTables[i][2] : i \in 1..9}
  BY <1>1 DEF HeadSchema
<1> DEFINE T(i) == ModelTables[i][1] \cup ModelTables[i][2]
<1>5. HeadSchema = T(1) \cup T(2) \cup T(3) \cup T(4) \cup T(5) \cup T(6) \cup T(7) \cup T(8)
                     \cup T(9)
  BY <1>2, <1>4
<1> QED
  BY <1>3, <1>4, <1>5

\* What sequences of statements make and drop.
LEMMA OfNone == AddsOf(<<>>) = {} /\ DropsOf(<<>>) = {}
BY DEF AddsOf, DropsOf

LEMMA Among ==
  ASSUME NEW t, NEW x
  PROVE  /\ x \in AddsOf(t) <=> \E i \in DOMAIN t : x \in t[i].adds
         /\ x \in DropsOf(t) <=> \E i \in DOMAIN t : x \in t[i].drops
BY DEF AddsOf, DropsOf

LEMMA OfOne == ASSUME NEW q PROVE AddsOf(<<q>>) = q.adds /\ DropsOf(<<q>>) = q.drops
<1>1. DOMAIN <<q>> = {1} /\ <<q>>[1] = q
  OBVIOUS
<1> QED
  BY <1>1 DEF AddsOf, DropsOf

LEMMA OfJoin ==
  ASSUME NEW S, NEW t \in Seq(S), NEW u \in Seq(S)
  PROVE  /\ t \o u \in Seq(S)
         /\ AddsOf(t \o u) = AddsOf(t) \cup AddsOf(u)
         /\ DropsOf(t \o u) = DropsOf(t) \cup DropsOf(u)
<1>1. /\ t \o u \in Seq(S) /\ Len(t) \in Nat /\ Len(u) \in Nat
      /\ DOMAIN t = 1..Len(t) /\ DOMAIN u = 1..Len(u) /\ DOMAIN (t \o u) = 1..Len(t) + Len(u)
  BY ConcatProperties
<1>2. \A i \in DOMAIN t : i \in DOMAIN (t \o u) /\ (t \o u)[i] = t[i]
  BY <1>1, ConcatProperties
<1>3. \A i \in DOMAIN u : i + Len(t) \in DOMAIN (t \o u) /\ (t \o u)[i + Len(t)] = u[i]
  <2> TAKE i \in DOMAIN u
  <2>1. i + Len(t) \in 1..Len(t) + Len(u) /\ ~(i + Len(t) <= Len(t)) /\ i + Len(t) - Len(t) = i
    BY <1>1
  <2> QED
    BY <1>1, <2>1, ConcatProperties
<1>4. \A i \in DOMAIN (t \o u) : \/ i \in DOMAIN t /\ (t \o u)[i] = t[i]
                                 \/ \E j \in DOMAIN u : (t \o u)[i] = u[j]
  <2> TAKE i \in DOMAIN (t \o u)
  <2>1. CASE i <= Len(t)
    BY <1>1, <1>2, <2>1
  <2>2. CASE ~(i <= Len(t))
    <3>1. i - Len(t) \in 1..Len(u)
      BY <1>1, <2>2
    <3> QED
      BY <1>1, <2>2, <3>1, ConcatProperties
  <2> QED
    BY <2>1, <2>2
<1> DEFINE v == t \o u
<1> HIDE DEF v
<1>5. ASSUME NEW x PROVE x \in AddsOf(v) <=> x \in AddsOf(t) \cup AddsOf(u)
  <2>1. /\ x \in AddsOf(t) <=> \E i \in DOMAIN t : x \in t[i].adds
        /\ x \in AddsOf(u) <=> \E i \in DOMAIN u : x \in u[i].adds
        /\ x \in AddsOf(v) <=> \E i \in DOMAIN v : x \in v[i].adds
    BY Among
  <2>2. x \in AddsOf(v) => x \in AddsOf(t) \cup AddsOf(u)
    BY <1>4, <2>1 DEF v
  <2>3. x \in AddsOf(t) => x \in AddsOf(v)
    BY <1>2, <2>1 DEF v
  <2>4. x \in AddsOf(u) => x \in AddsOf(v)
    BY <1>3, <2>1 DEF v
  <2> QED
    BY <2>2, <2>3, <2>4
<1>6. ASSUME NEW x PROVE x \in DropsOf(v) <=> x \in DropsOf(t) \cup DropsOf(u)
  <2>1. /\ x \in DropsOf(t) <=> \E i \in DOMAIN t : x \in t[i].drops
        /\ x \in DropsOf(u) <=> \E i \in DOMAIN u : x \in u[i].drops
        /\ x \in DropsOf(v) <=> \E i \in DOMAIN v : x \in v[i].drops
    BY Among
  <2>2. x \in DropsOf(v) => x \in DropsOf(t) \cup DropsOf(u)
    BY <1>4, <2>1 DEF v
  <2>3. x \in DropsOf(t) => x \in DropsOf(v)
    BY <1>2, <2>1 DEF v
  <2>4. x \in DropsOf(u) => x \in DropsOf(v)
    BY <1>3, <2>1 DEF v
  <2> QED
    BY <2>2, <2>3, <2>4
<1> QED
  BY <1>1, <1>5, <1>6 DEF v

LEMMA OfHead ==
  ASSUME NEW S, NEW t \in Seq(S), t # <<>>
  PROVE  /\ Head(t) \in S /\ Tail(t) \in Seq(S)
         /\ AddsOf(t) = Head(t).adds \cup AddsOf(Tail(t))
         /\ DropsOf(t) = Head(t).drops \cup DropsOf(Tail(t))
<1>1. /\ Head(t) \in S /\ Tail(t) \in Seq(S) /\ Len(t) \in Nat \ {0} /\ Head(t) = t[1]
      /\ DOMAIN t = 1..Len(t) /\ Len(Tail(t)) = Len(t) - 1 /\ DOMAIN Tail(t) = 1..Len(t) - 1
      /\ \A i \in 1..Len(t) - 1 : Tail(t)[i] = t[i + 1]
  BY HeadTailProperties
<1>2. \A i \in DOMAIN Tail(t) : i + 1 \in DOMAIN t /\ Tail(t)[i] = t[i + 1]
  BY <1>1
<1>3. \A i \in DOMAIN t : i = 1 \/ (i - 1 \in DOMAIN Tail(t) /\ Tail(t)[i - 1] = t[i])
  BY <1>1
<1>4. 1 \in DOMAIN t /\ Head(t) = t[1]
  BY <1>1
<1>5. ASSUME NEW x PROVE x \in AddsOf(t) <=> x \in Head(t).adds \cup AddsOf(Tail(t))
  <2>1. /\ x \in AddsOf(t) <=> \E i \in DOMAIN t : x \in t[i].adds
        /\ x \in AddsOf(Tail(t)) <=> \E i \in DOMAIN Tail(t) : x \in Tail(t)[i].adds
    BY Among
  <2>2. x \in AddsOf(t) => x \in Head(t).adds \cup AddsOf(Tail(t))
    BY <1>3, <1>4, <2>1
  <2>3. x \in AddsOf(Tail(t)) => x \in AddsOf(t)
    BY <1>2, <2>1
  <2>4. x \in Head(t).adds => x \in AddsOf(t)
    BY <1>4, <2>1
  <2> QED
    BY <2>2, <2>3, <2>4
<1>6. ASSUME NEW x PROVE x \in DropsOf(t) <=> x \in Head(t).drops \cup DropsOf(Tail(t))
  <2>1. /\ x \in DropsOf(t) <=> \E i \in DOMAIN t : x \in t[i].drops
        /\ x \in DropsOf(Tail(t)) <=> \E i \in DOMAIN Tail(t) : x \in Tail(t)[i].drops
    BY Among
  <2>2. x \in DropsOf(t) => x \in Head(t).drops \cup DropsOf(Tail(t))
    BY <1>3, <1>4, <2>1
  <2>3. x \in DropsOf(Tail(t)) => x \in DropsOf(t)
    BY <1>2, <2>1
  <2>4. x \in Head(t).drops => x \in DropsOf(t)
    BY <1>4, <2>1
  <2> QED
    BY <2>2, <2>3, <2>4
<1> QED
  BY <1>1, <1>5, <1>6

LEMMA OfWhen ==
  ASSUME NEW S, NEW t \in Seq(S), NEW condition \in BOOLEAN
  PROVE  /\ When(condition, t) \in Seq(S)
         /\ AddsOf(When(condition, t)) = IF condition THEN AddsOf(t) ELSE {}
         /\ DropsOf(When(condition, t)) = IF condition THEN DropsOf(t) ELSE {}
<1>1. CASE condition
  <2>1. When(condition, t) = t
    BY <1>1 DEF When
  <2> QED
    BY <1>1, <2>1
<1>2. CASE ~condition
  <2>1. When(condition, t) = <<>> /\ <<>> \in Seq(S)
    BY <1>2 DEF When
  <2> QED
    BY <1>2, <2>1, OfNone
<1> QED
  BY <1>1, <1>2

LEMMA TwoJoined == ASSUME NEW a, NEW b PROVE <<a, b>> = <<a>> \o <<b>>
<1> DEFINE S == {a, b}
           t == <<a, b>>
           v == <<a>> \o <<b>>
<1>1. t \in Seq(S) /\ v \in Seq(S) /\ Len(t) = 2 /\ Len(v) = 2
  OBVIOUS
<1>2. t[1] = v[1] /\ t[2] = v[2]
  OBVIOUS
<1> HIDE DEF t, v
<1>3. \A i \in 1..Len(t) : t[i] = v[i]
  <2>1. 1..2 = {1, 2}
    OBVIOUS
  <2> QED
    BY <1>1, <1>2, <2>1
<1>4. t = v
  BY <1>1, <1>3, SeqEqual
<1> QED
  BY <1>4 DEF t, v

\* create_all makes every table that is missing, with its indexes.
LEMMA TableCreated ==
  ASSUME NEW a \in SUBSET HeadSchema, NEW b \in SUBSET HeadSchema, Columns(a), Columns(b), NEW s
  PROVE  /\ CreateTable(<<a, b>>, s) \in Seq(Columned)
         /\ AddsOf(CreateTable(<<a, b>>, s)) = IF a \cap s = {} THEN a \cup b ELSE {}
<1>1. /\ Create(a) \in Columned /\ Create(a).adds = a
      /\ Create(b) \in Columned /\ Create(b).adds = b
  BY DEF Create, Order, Columned
<1>2. <<Create(a)>> \in Seq(Columned) /\ <<Create(b)>> \in Seq(Columned)
  BY <1>1
<1> DEFINE second == <<Create(b)>>
           both == <<Create(a)>> \o second
<1>3. second \in Seq(Columned) /\ AddsOf(second) = b
  BY <1>1, <1>2, OfOne
<1>4. both \in Seq(Columned) /\ AddsOf(both) = a \cup b
  <2>1. AddsOf(<<Create(a)>>) = a
    BY <1>1, OfOne
  <2> DEFINE first == <<Create(a)>>
  <2> HIDE DEF first, second
  <2>2. AddsOf(first \o second) = AddsOf(first) \cup AddsOf(second)
        /\ first \o second \in Seq(Columned)
    <3>1. first \in Seq(Columned)
      BY <1>2 DEF first
    <3> QED
      BY <1>3, <3>1, OfJoin
  <2> QED
    BY <1>3, <2>1, <2>2 DEF first
<1>5. CreateTable(<<a, b>>, s) = When(a \cap s = {}, both)
  <2>1. <<Create(a), Create(b)>> = both
    BY TwoJoined
  <2> QED
    BY <2>1 DEF CreateTable
<1> HIDE DEF both
<1>6. (a \cap s = {}) \in BOOLEAN
  OBVIOUS
<1>7. /\ When(a \cap s = {}, both) \in Seq(Columned)
      /\ AddsOf(When(a \cap s = {}, both)) = IF a \cap s = {} THEN AddsOf(both) ELSE {}
  BY <1>4, <1>6, OfWhen
<1> QED
  BY <1>4, <1>5, <1>7

LEMMA AllCreated ==
  ASSUME NEW s
  PROVE  /\ CreateAll(s) \in Seq(Columned)
         /\ AddsOf(CreateAll(s)) =
              UNION {IF ModelTables[i][1] \cap s = {} THEN ModelTables[i][1] \cup ModelTables[i][2]
                     ELSE {} : i \in 1..9}
<1> DEFINE Q(i) == CreateTable(ModelTables[i], s)
           A(i) == IF ModelTables[i][1] \cap s = {} THEN ModelTables[i][1] \cup ModelTables[i][2]
                   ELSE {}
<1>1. ASSUME NEW i \in 1..9 PROVE Q(i) \in Seq(Columned) /\ AddsOf(Q(i)) = A(i)
  <2>1. /\ ModelTables[i] = <<ModelTables[i][1], ModelTables[i][2]>>
        /\ Columns(ModelTables[i][1]) /\ Columns(ModelTables[i][2])
    BY <1>1 DEF ModelTables, Columns
  <2>2. ModelTables[i][1] \subseteq HeadSchema /\ ModelTables[i][2] \subseteq HeadSchema
    BY <1>1, Heads
  <2> DEFINE a == ModelTables[i][1]
             b == ModelTables[i][2]
  <2>3. CreateTable(ModelTables[i], s) = CreateTable(<<a, b>>, s)
    BY <2>1
  <2> HIDE DEF a, b
  <2>4. Columns(a) /\ Columns(b) /\ a \in SUBSET HeadSchema /\ b \in SUBSET HeadSchema
    BY <2>1, <2>2 DEF a, b
  <2>5. /\ CreateTable(<<a, b>>, s) \in Seq(Columned)
        /\ AddsOf(CreateTable(<<a, b>>, s)) = IF a \cap s = {} THEN a \cup b ELSE {}
    BY <2>4, TableCreated
  <2> QED
    BY <2>3, <2>5 DEF a, b
<1> HIDE DEF Q, A
<1> DEFINE q2 == Q(1) \o Q(2)
           q3 == q2 \o Q(3)
           q4 == q3 \o Q(4)
           q5 == q4 \o Q(5)
           q6 == q5 \o Q(6)
           q7 == q6 \o Q(7)
           q8 == q7 \o Q(8)
           q9 == q8 \o Q(9)
<1>2. q2 \in Seq(Columned) /\ AddsOf(q2) = A(1) \cup A(2)
  BY <1>1, OfJoin
<1>3. q3 \in Seq(Columned) /\ AddsOf(q3) = AddsOf(q2) \cup A(3)
  <2> HIDE DEF q2
  <2> QED
    BY <1>1, <1>2, OfJoin
<1>4. q4 \in Seq(Columned) /\ AddsOf(q4) = AddsOf(q3) \cup A(4)
  <2> HIDE DEF q3
  <2> QED
    BY <1>1, <1>3, OfJoin
<1>5. q5 \in Seq(Columned) /\ AddsOf(q5) = AddsOf(q4) \cup A(5)
  <2> HIDE DEF q4
  <2> QED
    BY <1>1, <1>4, OfJoin
<1>6. q6 \in Seq(Columned) /\ AddsOf(q6) = AddsOf(q5) \cup A(6)
  <2> HIDE DEF q5
  <2> QED
    BY <1>1, <1>5, OfJoin
<1>7. q7 \in Seq(Columned) /\ AddsOf(q7) = AddsOf(q6) \cup A(7)
  <2> HIDE DEF q6
  <2> QED
    BY <1>1, <1>6, OfJoin
<1>8. q8 \in Seq(Columned) /\ AddsOf(q8) = AddsOf(q7) \cup A(8)
  <2> HIDE DEF q7
  <2> QED
    BY <1>1, <1>7, OfJoin
<1>9. q9 \in Seq(Columned) /\ AddsOf(q9) = AddsOf(q8) \cup A(9)
  <2> HIDE DEF q8
  <2> QED
    BY <1>1, <1>8, OfJoin
<1>10. CreateAll(s) = q9
  BY DEF CreateAll, Q
<1> HIDE DEF q2, q3, q4, q5, q6, q7, q8, q9
<1>11. AddsOf(q9) = A(1) \cup A(2) \cup A(3) \cup A(4) \cup A(5) \cup A(6) \cup A(7) \cup A(8)
                      \cup A(9)
  BY <1>2, <1>3, <1>4, <1>5, <1>6, <1>7, <1>8, <1>9
<1>12. UNION {A(i) : i \in 1..9} = AddsOf(q9)
  <2>1. 1..9 = {1, 2, 3, 4, 5, 6, 7, 8, 9}
    OBVIOUS
  <2> QED
    BY <1>11, <2>1
<1> QED
  BY <1>9, <1>10, <1>12 DEF A

\* A sequence of statements that makes these objects and drops those.
Does(t, made, gone) == t \in Seq(Order) /\ AddsOf(t) = made /\ DropsOf(t) = gone

LEMMA DoesJoin ==
  ASSUME NEW t, NEW a, NEW b, Does(t, a, b), NEW u, NEW c, NEW d, Does(u, c, d)
  PROVE  Does(t \o u, a \cup c, b \cup d)
<1>1. t \in Seq(Order) /\ u \in Seq(Order)
  BY DEF Does
<1>2. /\ t \o u \in Seq(Order) /\ AddsOf(t \o u) = AddsOf(t) \cup AddsOf(u)
      /\ DropsOf(t \o u) = DropsOf(t) \cup DropsOf(u)
  BY <1>1, OfJoin
<1> QED
  BY <1>2 DEF Does

LEMMA DoesWhen ==
  ASSUME NEW t, NEW a, NEW b, Does(t, a, b), NEW condition \in BOOLEAN
  PROVE  Does(When(condition, t), IF condition THEN a ELSE {}, IF condition THEN b ELSE {})
<1>1. t \in Seq(Order)
  BY DEF Does
<1>2. /\ When(condition, t) \in Seq(Order)
      /\ AddsOf(When(condition, t)) = IF condition THEN AddsOf(t) ELSE {}
      /\ DropsOf(When(condition, t)) = IF condition THEN DropsOf(t) ELSE {}
  BY <1>1, OfWhen
<1> QED
  BY <1>2 DEF Does

LEMMA DoesMake ==
  ASSUME NEW o \in SUBSET HeadSchema
  PROVE  Does(<<Create(o)>>, o, {}) /\ Does(<<CreateIfMissing(o)>>, o, {})
<1>1. /\ Create(o) \in Order /\ Create(o).adds = o /\ Create(o).drops = {}
      /\ CreateIfMissing(o) \in Order /\ CreateIfMissing(o).adds = o
      /\ CreateIfMissing(o).drops = {}
  BY DEF Create, CreateIfMissing, Order
<1>2. <<Create(o)>> \in Seq(Order) /\ <<CreateIfMissing(o)>> \in Seq(Order)
  BY <1>1
<1>3. AddsOf(<<Create(o)>>) = o /\ DropsOf(<<Create(o)>>) = {}
  BY <1>1, OfOne
<1>4. AddsOf(<<CreateIfMissing(o)>>) = o /\ DropsOf(<<CreateIfMissing(o)>>) = {}
  BY <1>1, OfOne
<1> QED
  BY <1>2, <1>3, <1>4 DEF Does

LEMMA DoesDrop ==
  ASSUME NEW o \in SUBSET Retired
  PROVE  Does(<<Drop(o)>>, {}, o) /\ Does(<<DropIfThere(o)>>, {}, o)
<1>1. /\ Drop(o) \in Order /\ Drop(o).adds = {} /\ Drop(o).drops = o
      /\ DropIfThere(o) \in Order /\ DropIfThere(o).adds = {} /\ DropIfThere(o).drops = o
  BY DEF Create, Drop, DropIfThere, Order
<1>2. <<Drop(o)>> \in Seq(Order) /\ <<DropIfThere(o)>> \in Seq(Order)
  BY <1>1
<1>3. AddsOf(<<Drop(o)>>) = {} /\ DropsOf(<<Drop(o)>>) = o
  BY <1>1, OfOne
<1>4. AddsOf(<<DropIfThere(o)>>) = {} /\ DropsOf(<<DropIfThere(o)>>) = o
  BY <1>1, OfOne
<1> QED
  BY <1>2, <1>3, <1>4 DEF Does

LEMMA ThreeJoined ==
  ASSUME NEW a, NEW b, NEW c
  PROVE  <<a, b, c>> = <<a>> \o (<<b>> \o <<c>>)
<1> DEFINE S == {a, b, c}
<1>1. <<b>> \o <<c>> \in Seq(S) /\ Len(<<b>> \o <<c>>) = 2
      /\ (<<b>> \o <<c>>)[1] = b /\ (<<b>> \o <<c>>)[2] = c
  OBVIOUS
<1> DEFINE u == <<b>> \o <<c>>
<1> HIDE DEF u
<1>2. /\ <<a>> \o u \in Seq(S) /\ Len(<<a>> \o u) = 3
      /\ (<<a>> \o u)[1] = a /\ (<<a>> \o u)[2] = b /\ (<<a>> \o u)[3] = c
  BY <1>1 DEF u
<1>3. <<a, b, c>> \in Seq(S) /\ Len(<<a, b, c>>) = 3
  OBVIOUS
<1> DEFINE v == <<a>> \o u
           t == <<a, b, c>>
<1>4. t[1] = v[1] /\ t[2] = v[2] /\ t[3] = v[3]
  BY <1>2
<1> HIDE DEF v, t
<1>5. \A i \in 1..Len(t) : t[i] = v[i]
  <2>1. Len(t) = 3 /\ 1..3 = {1, 2, 3}
    BY <1>3 DEF t
  <2> QED
    BY <1>4, <2>1
<1>6. t = v
  <2>1. t \in Seq(S) /\ v \in Seq(S) /\ Len(t) = Len(v)
    BY <1>2, <1>3 DEF t, v
  <2> QED
    BY <1>5, <2>1, SeqEqual
<1> QED
  BY <1>6 DEF t, u, v

LEMMA DoesMove == Does(Moving, {}, {"sets.machine_id", "ix_sets_machine_id"})
<1> DEFINE copy == [Create({}) EXCEPT !.copies = TRUE]
           one == <<copy>>
           two == <<DropIfThere({"ix_sets_machine_id"})>>
           three == <<Drop({"sets.machine_id"})>>
<1>1. copy \in Order /\ copy.adds = {} /\ copy.drops = {}
  BY DEF Create, Order
<1>2. Does(one, {}, {})
  <2>1. one \in Seq(Order)
    BY <1>1
  <2> HIDE DEF copy
  <2>2. AddsOf(one) = {} /\ DropsOf(one) = {}
    BY <1>1, OfOne
  <2> QED
    BY <2>1, <2>2 DEF Does
<1>3. /\ Does(two, {}, {"ix_sets_machine_id"})
      /\ Does(three, {}, {"sets.machine_id"})
  BY DoesDrop DEF Retired
<1>4. Moving = one \o (two \o three)
  <2> DEFINE drop == DropIfThere({"ix_sets_machine_id"})
             last == Drop({"sets.machine_id"})
  <2>1. Moving = <<copy, drop, last>>
    BY DEF Moving
  <2> HIDE DEF copy, drop, last
  <2>2. <<copy, drop, last>> = <<copy>> \o (<<drop>> \o <<last>>)
    BY ThreeJoined
  <2> QED
    BY <2>1, <2>2 DEF drop, last
<1> HIDE DEF one, two, three
<1>5. Does(two \o three, {} \cup {}, {"ix_sets_machine_id"} \cup {"sets.machine_id"})
  BY <1>3, DoesJoin
<1>6. Does(one \o (two \o three), {} \cup ({} \cup {}),
           {} \cup ({"ix_sets_machine_id"} \cup {"sets.machine_id"}))
  BY <1>2, <1>5, DoesJoin
<1> QED
  BY <1>4, <1>6 DEF Does

\* What each migration makes and drops of the schema it finds.
Lacks(o, s) == IF o \notin s THEN {o} ELSE {}
Has(o, s) == IF o \in s THEN {o} ELSE {}

LEMMA MakesTable ==
  ASSUME NEW table, NEW index, {table, index} \subseteq HeadSchema, NEW s
  PROVE  Does(When(table \notin s, <<Create({table})>>) \o <<CreateIfMissing({index})>>,
              Lacks(table, s) \cup {index}, {})
<1>1. {table} \in SUBSET HeadSchema /\ {index} \in SUBSET HeadSchema
  OBVIOUS
<1>2. Does(<<Create({table})>>, {table}, {}) /\ Does(<<CreateIfMissing({index})>>, {index}, {})
  BY <1>1, DoesMake
<1>3. (table \notin s) \in BOOLEAN
  OBVIOUS
<1>4. Does(When(table \notin s, <<Create({table})>>),
           IF table \notin s THEN {table} ELSE {}, IF table \notin s THEN {} ELSE {})
  BY <1>2, <1>3, DoesWhen
<1>5. Does(When(table \notin s, <<Create({table})>>), Lacks(table, s), {})
  BY <1>4 DEF Lacks
<1>6. Does(When(table \notin s, <<Create({table})>>) \o <<CreateIfMissing({index})>>,
           Lacks(table, s) \cup {index}, {} \cup {})
  BY <1>2, <1>5, DoesJoin
<1> QED
  BY <1>6

LEMMA MakesColumn ==
  ASSUME NEW o \in HeadSchema, NEW s
  PROVE  Does(When(o \notin s, <<Create({o})>>), Lacks(o, s), {})
<1>1. Does(<<Create({o})>>, {o}, {}) /\ (o \notin s) \in BOOLEAN
  BY DoesMake
<1>2. Does(When(o \notin s, <<Create({o})>>),
           IF o \notin s THEN {o} ELSE {}, IF o \notin s THEN {} ELSE {})
  BY <1>1, DoesWhen
<1> QED
  BY <1>2 DEF Lacks

LEMMA Does0002 ==
  ASSUME NEW s
  PROVE  Does(Upgrade0002(s), Lacks("audit_logs.channel", s) \cup
                IF "audit_logs.api_key_id" \notin s
                  THEN {"audit_logs.api_key_id", "ix_audit_logs_api_key_id"} ELSE {}, {})
<1> DEFINE key == "audit_logs.api_key_id"
           k == <<Create({key})>>
           i == <<CreateIfMissing({"ix_audit_logs_api_key_id"})>>
           c == When("audit_logs.channel" \notin s, <<Create({"audit_logs.channel"})>>)
           ki == <<Create({key}), CreateIfMissing({"ix_audit_logs_api_key_id"})>>
<1>1. Does(k, {key}, {}) /\ Does(i, {"ix_audit_logs_api_key_id"}, {})
  BY DoesMake, Heads
<1>2. ki = k \o i
  OBVIOUS
<1>3. Does(c, Lacks("audit_logs.channel", s), {})
  BY MakesColumn, Heads
<1>4. Upgrade0002(s) = c \o When(key \notin s, ki)
  BY DEF Upgrade0002
<1> HIDE DEF k, i, c
<1>5. Does(k \o i, {key} \cup {"ix_audit_logs_api_key_id"}, {} \cup {})
  BY <1>1, DoesJoin
<1>6. Does(ki, {key, "ix_audit_logs_api_key_id"}, {}) /\ (key \notin s) \in BOOLEAN
  BY <1>2, <1>5 DEF Does
<1> HIDE DEF ki
<1>7. Does(When(key \notin s, ki),
           IF key \notin s THEN {key, "ix_audit_logs_api_key_id"} ELSE {},
           IF key \notin s THEN {} ELSE {})
  BY <1>6, DoesWhen
<1>8. Does(c \o When(key \notin s, ki), Lacks("audit_logs.channel", s) \cup
             (IF key \notin s THEN {key, "ix_audit_logs_api_key_id"} ELSE {}),
             {} \cup IF key \notin s THEN {} ELSE {})
  BY <1>3, <1>7, DoesJoin
<1> QED
  BY <1>4, <1>8 DEF Does

LEMMA Does0003 ==
  ASSUME NEW s
  PROVE  Does(Upgrade0003(s),
              (IF "machine_set_maps" \notin s
                 THEN {"machine_set_maps", "ix_maps_machine_id", "ix_maps_tool_set_id"} ELSE {})
                \cup {"uq_active_map_per_machine"},
              IF "sets.machine_id" \in s THEN {"sets.machine_id", "ix_sets_machine_id"} ELSE {})
<1> DEFINE o1 == "machine_set_maps"
           o2 == "ix_maps_machine_id"
           o3 == "ix_maps_tool_set_id"
           table == <<Create({o1}), Create({o2}), Create({o3})>>
           lacking == o1 \notin s
           uq == <<CreateIfMissing({"uq_active_map_per_machine"})>>
           there == "sets.machine_id" \in s
           made == IF lacking THEN {o1, o2, o3} ELSE {}
           gone == IF there THEN {"sets.machine_id", "ix_sets_machine_id"} ELSE {}
<1>1. /\ Does(<<Create({o1})>>, {o1}, {}) /\ Does(<<Create({o2})>>, {o2}, {})
      /\ Does(<<Create({o3})>>, {o3}, {}) /\ Does(uq, {"uq_active_map_per_machine"}, {})
  BY DoesMake, Heads
<1>2. Does(table, {o1, o2, o3}, {})
  <2> DEFINE q1 == <<Create({o1})>>
             q2 == <<Create({o2})>>
             q3 == <<Create({o3})>>
  <2>1. table = q1 \o (q2 \o q3)
    BY ThreeJoined
  <2> HIDE DEF q1, q2, q3, table, o1, o2, o3
  <2>2. Does(q2 \o q3, {o2} \cup {o3}, {} \cup {})
    BY <1>1, DoesJoin DEF q2, q3
  <2>3. Does(q1 \o (q2 \o q3), {o1} \cup ({o2} \cup {o3}), {} \cup ({} \cup {}))
    BY <1>1, <2>2, DoesJoin DEF q1
  <2> QED
    BY <2>1, <2>3 DEF Does
<1>3. Upgrade0003(s) = (When(lacking, table) \o uq) \o When(there, Moving)
  BY DEF Upgrade0003, Moving
<1>4. lacking \in BOOLEAN /\ there \in BOOLEAN
  OBVIOUS
<1> HIDE DEF table, uq, lacking, there, o1, o2, o3
<1>5. Does(When(lacking, table), made, {})
  <2>1. Does(When(lacking, table), IF lacking THEN {o1, o2, o3} ELSE {}, IF lacking THEN {} ELSE {})
    BY <1>2, <1>4, DoesWhen
  <2> QED
    BY <2>1 DEF Does
<1>6. Does(When(there, Moving), {}, gone)
  <2>1. Does(When(there, Moving), IF there THEN {} ELSE {},
             IF there THEN {"sets.machine_id", "ix_sets_machine_id"} ELSE {})
    BY <1>4, DoesMove, DoesWhen
  <2> QED
    BY <2>1 DEF Does
<1> HIDE DEF made, gone
<1>7. Does(When(lacking, table) \o uq, made \cup {"uq_active_map_per_machine"}, {} \cup {})
  BY <1>1, <1>5, DoesJoin
<1>8. Does((When(lacking, table) \o uq) \o When(there, Moving),
           (made \cup {"uq_active_map_per_machine"}) \cup {}, ({} \cup {}) \cup gone)
  BY <1>6, <1>7, DoesJoin
<1> QED
  BY <1>3, <1>8 DEF Does, made, gone, lacking, there, o1, o2, o3

LEMMA Does0005 ==
  ASSUME NEW s
  PROVE  Does(Upgrade0005(s), Lacks("usage_ledger", s) \cup {"ix_usage_ledger"} \cup
                                Lacks("entries.usage_baseline", s), {})
<1> DEFINE new == When("usage_ledger" \notin s, <<Create({"usage_ledger"})>>) \o
                    <<CreateIfMissing({"ix_usage_ledger"})>>
           column == When("entries.usage_baseline" \notin s,
                          <<Create({"entries.usage_baseline"})>>)
<1>1. Does(new, Lacks("usage_ledger", s) \cup {"ix_usage_ledger"}, {})
  BY MakesTable, Heads
<1>2. Does(column, Lacks("entries.usage_baseline", s), {})
  BY MakesColumn, Heads
<1>3. Upgrade0005(s) = new \o column
  BY DEF Upgrade0005
<1> HIDE DEF new, column
<1>4. Does(new \o column, Lacks("usage_ledger", s) \cup {"ix_usage_ledger"} \cup
                            Lacks("entries.usage_baseline", s), {} \cup {})
  BY <1>1, <1>2, DoesJoin
<1> QED
  BY <1>3, <1>4

LEMMA Does0006 == ASSUME NEW s PROVE Does(Upgrade0006(s), {}, {"tool_usage", "tool_presets"})
<1> DEFINE one == <<DropIfThere({"tool_usage"})>>
           two == <<DropIfThere({"tool_presets"})>>
<1>1. Does(one, {}, {"tool_usage"}) /\ Does(two, {}, {"tool_presets"})
  BY DoesDrop DEF Retired
<1>2. Upgrade0006(s) = one \o two
  BY DEF Upgrade0006
<1> HIDE DEF one, two
<1>3. Does(one \o two, {} \cup {}, {"tool_usage"} \cup {"tool_presets"})
  BY <1>1, DoesJoin
<1> QED
  BY <1>2, <1>3 DEF Does

LEMMA Does0008 ==
  ASSUME NEW s
  PROVE  Does(Upgrade0008(s), Lacks("catalogs", s) \cup {"ix_catalogs"},
              Has("manufacturer_catalogs", s))
<1> DEFINE new == When("catalogs" \notin s, <<Create({"catalogs"})>>) \o
                    <<CreateIfMissing({"ix_catalogs"})>>
           old == <<Drop({"manufacturer_catalogs"})>>
           there == "manufacturer_catalogs" \in s
<1>1. Does(new, Lacks("catalogs", s) \cup {"ix_catalogs"}, {})
  BY MakesTable, Heads
<1>2. Does(old, {}, {"manufacturer_catalogs"})
  BY DoesDrop DEF Retired
<1>3. Upgrade0008(s) = new \o When(there, old) /\ there \in BOOLEAN
  BY DEF Upgrade0008
<1> HIDE DEF new, old, there
<1>4. Does(When(there, old), IF there THEN {} ELSE {},
           IF there THEN {"manufacturer_catalogs"} ELSE {})
  BY <1>2, <1>3, DoesWhen
<1>5. Does(new \o When(there, old),
           Lacks("catalogs", s) \cup {"ix_catalogs"} \cup (IF there THEN {} ELSE {}),
           {} \cup (IF there THEN {"manufacturer_catalogs"} ELSE {}))
  BY <1>1, <1>4, DoesJoin
<1> QED
  BY <1>3, <1>5 DEF Does, Has, there

LEMMA Releases ==
  /\ Added[1] = {} /\ Dropped[1] = {}
  /\ Added[2] = {"audit_logs.channel", "audit_logs.api_key_id", "ix_audit_logs_api_key_id"}
  /\ Dropped[2] = {}
  /\ Added[3] = {"machine_set_maps", "ix_maps_machine_id", "ix_maps_tool_set_id",
                 "ix_maps_user_id", "uq_active_map_per_machine"}
  /\ Dropped[3] = {"sets.machine_id", "ix_sets_machine_id"}
  /\ Added[4] = {"labels", "ix_labels"} /\ Dropped[4] = {}
  /\ Added[5] = {"usage_ledger", "ix_usage_ledger", "entries.usage_baseline"} /\ Dropped[5] = {}
  /\ Added[6] = {} /\ Dropped[6] = {"tool_usage", "tool_presets"}
  /\ Added[7] = {"preset_contributions", "ix_preset_contributions"} /\ Dropped[7] = {}
  /\ Added[8] = {"catalogs", "ix_catalogs"} /\ Dropped[8] = {"manufacturer_catalogs"}
BY DEF Added, Dropped

LEMMA EachRevision == Revisions = {1, 2, 3, 4, 5, 6, 7, 8}
BY DEF Revisions, Latest

\* An index is on a column.
Paired(s) == "ix_sets_machine_id" \in s => "sets.machine_id" \in s

\* The tables and the column whose indexes no migration makes again.
Carriers == Basic \cup {"audit_logs.api_key_id"}

\* A migration makes what its release has added and drops what it has dropped, but for an
\* index that a cut has kept from being made; only 0002 adds to what was there before.
LEMMA UpgradesFollow ==
  ASSUME NEW s, Paired(s), NEW r \in Revisions
  PROVE  /\ Upgrade(r, s) \in Seq(Order)
         /\ Added[r] \ Fragile \subseteq s \cup AddsOf(Upgrade(r, s))
         /\ Dropped[r] \cap s \subseteq DropsOf(Upgrade(r, s))
         /\ r # 2 /\ Basic \subseteq s => Carriers \cap AddsOf(Upgrade(r, s)) = {}
<1>1. CASE r = 1
  <2>1. Upgrade(1, s) = <<>> /\ <<>> \in Seq(Order)
    BY DEF Upgrade
  <2> QED
    BY <1>1, <2>1, OfNone, Releases
<1>2. CASE r = 2
  <2>1. Upgrade(2, s) = Upgrade0002(s)
    BY DEF Upgrade
  <2> QED
    BY <1>2, <2>1, Does0002, Releases DEF Does, Lacks, Fragile
<1>3. CASE r = 3
  <2>1. Upgrade(3, s) = Upgrade0003(s)
    BY DEF Upgrade
  <2> QED
    BY <1>3, <2>1, Does0003, Releases DEF Does, Lacks, Paired, Fragile, Carriers, Basic
<1>4. CASE r = 4
  <2>1. Upgrade(4, s) = Upgrade0004(s)
    BY DEF Upgrade
  <2>2. Does(Upgrade0004(s), Lacks("labels", s) \cup {"ix_labels"}, {})
    BY MakesTable, Heads DEF Upgrade0004
  <2> QED
    BY <1>4, <2>1, <2>2, Releases DEF Does, Lacks, Carriers, Basic
<1>5. CASE r = 5
  <2>1. Upgrade(5, s) = Upgrade0005(s)
    BY DEF Upgrade
  <2> QED
    BY <1>5, <2>1, Does0005, Releases DEF Does, Lacks, Carriers, Basic
<1>6. CASE r = 6
  <2>1. Upgrade(6, s) = Upgrade0006(s)
    BY DEF Upgrade
  <2> QED
    BY <1>6, <2>1, Does0006, Releases DEF Does, Carriers, Basic
<1>7. CASE r = 7
  <2>1. Upgrade(7, s) = Upgrade0007(s)
    BY DEF Upgrade
  <2>2. Does(Upgrade0007(s), Lacks("preset_contributions", s) \cup {"ix_preset_contributions"}, {})
    BY MakesTable, Heads DEF Upgrade0007
  <2> QED
    BY <1>7, <2>1, <2>2, Releases DEF Does, Lacks, Carriers, Basic
<1>8. CASE r = 8
  <2>1. Upgrade(8, s) = Upgrade0008(s)
    BY DEF Upgrade
  <2> QED
    BY <1>8, <2>1, Does0008, Releases DEF Does, Lacks, Has, Carriers, Basic
<1> QED
  BY <1>1, <1>2, <1>3, <1>4, <1>5, <1>6, <1>7, <1>8, EachRevision

\* The objects of the models: what was there at the baseline, what releases have added,
\* and nothing that they have dropped.
LEMMA ObjectsOfReleases ==
  /\ HeadSchema \cap Retired = {} /\ Basic \subseteq HeadSchema \ Fragile
  /\ Fragile \subseteq HeadSchema
  /\ \A r \in Revisions : Added[r] \subseteq HeadSchema /\ Dropped[r] \subseteq Retired
  /\ \A x \in HeadSchema : x \in Basic \cup Fragile \/ \E r \in Revisions : x \in Added[r] \ Fragile
  /\ \A x \in Retired : \E r \in Revisions : x \in Dropped[r]
<1>1. HeadSchema \cap Retired = {} /\ Basic \subseteq HeadSchema \ Fragile
      /\ Fragile \subseteq HeadSchema
  BY Heads DEF Retired, Basic, Fragile
<1>2. \A r \in Revisions : Added[r] \subseteq HeadSchema /\ Dropped[r] \subseteq Retired
  <2> TAKE r \in Revisions
  <2>1. CASE r \in {1, 2, 3, 4}
    BY <2>1, Heads, Releases DEF Retired
  <2>2. CASE r \in {5, 6, 7, 8}
    BY <2>2, Heads, Releases DEF Retired
  <2> QED
    BY <2>1, <2>2, EachRevision
<1>3. ASSUME NEW x \in HeadSchema, x \notin Basic \cup Fragile
      PROVE  \E r \in Revisions : x \in Added[r] \ Fragile
  <2>1. \/ x \in Added[2] \/ x \in Added[3] \/ x \in Added[4] \/ x \in Added[5]
        \/ x \in Added[7] \/ x \in Added[8]
    BY <1>3, Heads, Releases DEF Basic, Fragile
  <2> QED
    BY <1>3, <2>1, EachRevision
<1>4. ASSUME NEW x \in Retired PROVE \E r \in Revisions : x \in Dropped[r]
  <2>1. x \in Dropped[3] \/ x \in Dropped[6] \/ x \in Dropped[8]
    BY Releases DEF Retired
  <2> QED
    BY <2>1, EachRevision
<1> QED
  BY <1>1, <1>2, <1>3, <1>4

\* The indexes that come with their table or column.
Companions(s) ==
  /\ "users" \in s => "ix_users" \in s
  /\ "audit_logs" \in s => "ix_audit_logs" \in s
  /\ "tool_set_records" \in s => "ix_tool_set_records" \in s
  /\ "tool_table_entry_records" \in s => {"ix_entries", "ix_entries_bound_instance_id"} \subseteq s
  /\ "machine_set_maps" \in s =>
       {"ix_maps_machine_id", "ix_maps_tool_set_id", "ix_maps_user_id"} \subseteq s
Indexed(s) ==
  /\ Companions(s)
  /\ "audit_logs.api_key_id" \in s => "ix_audit_logs_api_key_id" \in s

\* create_all completes what it finds.
LEMMA CreatesWhatLacks ==
  ASSUME NEW s, Columns(s)
  PROVE  /\ Basic \subseteq s \cup AddsOf(CreateAll(s))
         /\ s = {} => HeadSchema \subseteq AddsOf(CreateAll(s))
         /\ Indexed(s) => Indexed(s \cup AddsOf(CreateAll(s)))
<1> DEFINE made == AddsOf(CreateAll(s))
           T(i) == ModelTables[i][1]
           X(i) == ModelTables[i][2]
<1>1. made = UNION {IF T(i) \cap s = {} THEN T(i) \cup X(i) ELSE {} : i \in 1..9}
  BY AllCreated
<1> HIDE DEF made
<1>2. \A i \in 1..9 : T(i) \cap s = {} => T(i) \cup X(i) \subseteq made
  BY <1>1
<1>3. \A x \in made : \E i \in 1..9 : T(i) \cap s = {} /\ x \in T(i) \cup X(i)
  BY <1>1
<1>4. /\ T(1) = {"users"} /\ X(1) = {"ix_users"}
      /\ T(2) = {"audit_logs", "audit_logs.channel", "audit_logs.api_key_id"}
      /\ X(2) = {"ix_audit_logs", "ix_audit_logs_api_key_id"}
      /\ T(3) = {"tool_set_records"} /\ X(3) = {"ix_tool_set_records"}
      /\ T(4) = {"tool_table_entry_records", "entries.usage_baseline"}
      /\ X(4) = {"ix_entries", "ix_entries_bound_instance_id"}
      /\ T(5) = {"machine_set_maps"}
      /\ X(5) = {"ix_maps_machine_id", "ix_maps_tool_set_id", "ix_maps_user_id",
                 "uq_active_map_per_machine"}
  BY DEF ModelTables
<1>5. \A i \in 1..9 : "audit_logs.api_key_id" \in T(i) \cup X(i) => i = 2
  BY DEF ModelTables
<1>6. /\ "users" \notin s => T(1) \cap s = {}
      /\ "audit_logs" \notin s => T(2) \cap s = {}
      /\ "tool_set_records" \notin s => T(3) \cap s = {}
      /\ "tool_table_entry_records" \notin s => T(4) \cap s = {}
      /\ "machine_set_maps" \notin s => T(5) \cap s = {}
  BY <1>4 DEF Columns
<1>7. HeadSchema = UNION {T(i) \cup X(i) : i \in 1..9}
  BY Heads
<1> HIDE DEF T, X
<1>8. {1, 2, 3, 4, 5} \subseteq 1..9
  OBVIOUS
<1>9. Basic \subseteq s \cup made
  BY <1>2, <1>4, <1>6, <1>8 DEF Basic
<1>10. s = {} => HeadSchema \subseteq made
  BY <1>2, <1>7
<1>11. ASSUME Indexed(s) PROVE Indexed(s \cup made)
  <2>1. /\ "users" \in s \/ "ix_users" \in made
        /\ "audit_logs" \in s \/ "ix_audit_logs" \in made
        /\ "tool_set_records" \in s \/ "ix_tool_set_records" \in made
    BY <1>2, <1>4, <1>6, <1>8
  <2>2. /\ "tool_table_entry_records" \in s \/ {"ix_entries", "ix_entries_bound_instance_id"} \subseteq made
        /\ "machine_set_maps" \in s \/
             {"ix_maps_machine_id", "ix_maps_tool_set_id", "ix_maps_user_id"} \subseteq made
    BY <1>2, <1>4, <1>6, <1>8
  <2>3. "audit_logs.api_key_id" \in made => "ix_audit_logs_api_key_id" \in made
    BY <1>2, <1>3, <1>4, <1>5, <1>8
  <2> QED
    BY <1>11, <2>1, <2>2, <2>3 DEF Indexed, Companions
<1> QED
  BY <1>9, <1>10, <1>11 DEF made

\* What is left of the statements that clear the links away: the index goes before its
\* column.
Clearing(t, s) ==
  \/ t \in Seq(Apart)
  \/ \E first \in Seq(Apart) : t = first \o Moving
  \/ t = <<DropIfThere({"ix_sets_machine_id"}), Drop({"sets.machine_id"})>>
  \/ t = <<Drop({"sets.machine_id"})>> /\ "ix_sets_machine_id" \notin s

LEMMA ClearingBegins == ASSUME NEW s, NEW r \in Revisions PROVE Clearing(Upgrade(r, s), s)
<1>1. CASE r # 3
  BY <1>1, OtherUpgrades DEF Clearing
<1>2. CASE r = 3
  <2>1. PICK first \in Seq(Apart) :
               Upgrade(3, s) = first \o (IF "sets.machine_id" \in s THEN Moving ELSE <<>>)
    BY MovingUpgrade
  <2>2. first \o <<>> = first
    OBVIOUS
  <2> QED
    BY <1>2, <2>1, <2>2 DEF Clearing
<1> QED
  BY <1>1, <1>2

LEMMA ClearingGoesOn ==
  ASSUME NEW s, Paired(s), NEW t \in Seq(Order), t # <<>>, Clearing(t, s),
         NEW z, z = (s \cup Head(t).adds) \ Head(t).drops
  PROVE  Clearing(Tail(t), z) /\ Paired(z)
<1> DEFINE drop == DropIfThere({"ix_sets_machine_id"})
           last == Drop({"sets.machine_id"})
           copy == [Create({}) EXCEPT !.copies = TRUE]
<1>0. "ix_sets_machine_id" \notin Head(t).adds
  <2>1. Head(t) \in Order
    BY OfHead
  <2> QED
    BY <2>1, ObjectsOfReleases DEF Order, Retired
<1>1. /\ drop.drops = {"ix_sets_machine_id"} /\ last.drops = {"sets.machine_id"}
      /\ copy.drops = {}
  BY DEF Create, Drop, DropIfThere
<1>2. Moving = <<copy, drop, last>>
  BY DEF Moving
<1>3. CASE t \in Seq(Apart)
  <2>1. Head(t) \in Apart /\ Tail(t) \in Seq(Apart)
    BY <1>3, OfHead
  <2>2. "sets.machine_id" \notin Head(t).drops
    BY <2>1 DEF Apart
  <2> QED
    BY <1>0, <2>1, <2>2 DEF Clearing, Paired
<1>4. ASSUME NEW first \in Seq(Apart), t = first \o Moving PROVE Clearing(Tail(t), z) /\ Paired(z)
  <2>0. Moving \in Seq(Harmless) /\ Moving # <<>> /\ first \in Seq(Harmless)
    BY MovingType, ApartIsHarmless DEF Moving
  <2>1. CASE first = <<>>
    <3>1. t = Moving
      BY <1>4, <2>0, <2>1
    <3> HIDE DEF drop, last, copy
    <3>2. Tail(t) = <<drop, last>> /\ Head(t) = copy
      BY <1>2, <3>1
    <3> QED
      BY <1>0, <1>1, <3>2 DEF Clearing, Paired, drop, last
  <2>2. CASE first # <<>>
    <3>1. Tail(t) = Tail(first) \o Moving /\ Head(t) = Head(first)
      BY <1>4, <2>0, <2>2, HeadOfJoin, TailOfJoin
    <3>2. Head(first) \in Apart /\ Tail(first) \in Seq(Apart)
      BY <2>2, OfHead
    <3>3. "sets.machine_id" \notin Head(t).drops
      BY <3>1, <3>2 DEF Apart
    <3> QED
      BY <1>0, <3>1, <3>2, <3>3 DEF Clearing, Paired
  <2> QED
    BY <2>1, <2>2
<1>5. CASE t = <<drop, last>>
  <2> HIDE DEF drop, last
  <2>1. Tail(t) = <<last>> /\ Head(t) = drop
    BY <1>5
  <2> QED
    BY <1>0, <1>1, <2>1 DEF Clearing, Paired, last
<1>6. CASE t = <<last>> /\ "ix_sets_machine_id" \notin s
  <2> HIDE DEF drop, last
  <2>1. Tail(t) = <<>> /\ Head(t) = last /\ <<>> \in Seq(Apart)
    BY <1>6
  <2> QED
    BY <1>0, <1>1, <1>6, <2>1 DEF Clearing, Paired
<1> QED
  BY <1>3, <1>4, <1>5, <1>6 DEF Clearing

\* What is left of 0002: while the column of the keys is still to be made, so is its
\* index, and only after the column.
Channel == Create({"audit_logs.channel"})
Key == Create({"audit_logs.api_key_id"})
KeyIndex == CreateIfMissing({"ix_audit_logs_api_key_id"})
Credentials(t, s) ==
  \/ t \in {<<>>, <<Channel>>} /\ Indexed(s)
  \/ t \in {<<Channel, Key, KeyIndex>>, <<Key, KeyIndex>>} /\ Indexed(s)
       /\ "audit_logs.api_key_id" \notin s
  \/ t = <<KeyIndex>> /\ Companions(s)

LEMMA CredentialsBegin ==
  ASSUME NEW s, Indexed(s) PROVE Credentials(Upgrade(2, s), s)
<1> DEFINE u == Upgrade(2, s)
<1>1. u = When("audit_logs.channel" \notin s, <<Channel>>) \o
            When("audit_logs.api_key_id" \notin s, <<Key, KeyIndex>>)
  BY DEF Upgrade, Upgrade0002, Channel, Key, KeyIndex
<1> HIDE DEF u
<1>2. /\ <<Channel>> \o <<Key, KeyIndex>> = <<Channel, Key, KeyIndex>>
  <2>1. <<Key>> \o <<KeyIndex>> = <<Key, KeyIndex>>
    BY TwoJoined
  <2> QED
    BY <2>1, ThreeJoined
<1>3. /\ <<Channel>> \o <<>> = <<Channel>> /\ <<>> \o <<Key, KeyIndex>> = <<Key, KeyIndex>>
      /\ <<>> \o <<>> = <<>>
  OBVIOUS
<1>4. CASE "audit_logs.api_key_id" \in s
  <2>1. u \in {<<>>, <<Channel>>}
    BY <1>1, <1>3, <1>4 DEF When
  <2> QED
    BY <2>1 DEF Credentials, u
<1>5. CASE "audit_logs.api_key_id" \notin s
  <2>1. u \in {<<Channel, Key, KeyIndex>>, <<Key, KeyIndex>>}
    BY <1>1, <1>2, <1>3, <1>5 DEF When
  <2> QED
    BY <1>5, <2>1 DEF Credentials, u
<1> QED
  BY <1>4, <1>5

LEMMA CredentialsGoOn ==
  ASSUME NEW s, NEW t, Credentials(t, s), t # <<>>, NEW z,
         z = (s \cup Head(t).adds) \ Head(t).drops
  PROVE  Credentials(Tail(t), z) /\ ~Head(t).copies
<1>1. /\ Channel.adds = {"audit_logs.channel"} /\ Channel.drops = {} /\ ~Channel.copies
      /\ Key.adds = {"audit_logs.api_key_id"} /\ Key.drops = {} /\ ~Key.copies
      /\ KeyIndex.adds = {"ix_audit_logs_api_key_id"} /\ KeyIndex.drops = {} /\ ~KeyIndex.copies
  BY DEF Channel, Key, KeyIndex, Create, CreateIfMissing
<1>2. CASE t = <<Channel>> /\ Indexed(s)
  <2>1. Head(t) = Channel /\ Tail(t) = <<>>
    BY <1>2
  <2> QED
    BY <1>1, <1>2, <2>1 DEF Credentials, Indexed, Companions
<1>3. CASE t = <<Channel, Key, KeyIndex>> /\ Indexed(s) /\ "audit_logs.api_key_id" \notin s
  <2>1. Head(t) = Channel /\ Tail(t) = <<Key, KeyIndex>>
    BY <1>3
  <2> QED
    BY <1>1, <1>3, <2>1 DEF Credentials, Indexed, Companions
<1>4. CASE t = <<Key, KeyIndex>> /\ Indexed(s)
  <2>1. Head(t) = Key /\ Tail(t) = <<KeyIndex>>
    BY <1>4
  <2> QED
    BY <1>1, <1>4, <2>1 DEF Credentials, Indexed, Companions
<1>5. CASE t = <<KeyIndex>> /\ Companions(s)
  <2>1. Head(t) = KeyIndex /\ Tail(t) = <<>>
    BY <1>5
  <2> QED
    BY <1>1, <1>5, <2>1 DEF Credentials, Indexed, Companions
<1> QED
  BY <1>2, <1>3, <1>4, <1>5 DEF Credentials

\* Where 0002 gives up, both indexes are there.
LEMMA CredentialsFail ==
  ASSUME NEW t, Credentials(t, schema), t = <<>> \/ Fails(Head(t))
  PROVE  Indexed(schema)
<1>1. CASE t = <<KeyIndex>>
  <2>1. Head(t) = KeyIndex /\ t # <<>>
    BY <1>1
  <2>2. KeyIndex.lax
    BY DEF KeyIndex, Create, CreateIfMissing
  <2> QED
    BY <2>1, <2>2 DEF Fails
<1> QED
  BY <1>1 DEF Credentials

\* The schema keeps what the ledger records, and while something is under way what is
\* missing is still among the statements to come.
Schemas ==
  /\ schema \subseteq HeadSchema \cup Retired /\ Columns(schema) /\ Paired(schema)
  /\ todo \in Seq(Order)
  /\ \A i \in ledger : Added[i] \ Fragile \subseteq schema /\ Dropped[i] \cap schema = {}
  /\ stage = "create" =>
       /\ todo \in Seq(Columned) /\ Basic \subseteq schema \cup AddsOf(todo)
       /\ fresh => schema \subseteq HeadSchema /\ HeadSchema \subseteq schema \cup AddsOf(todo)
  /\ stage \notin {"down", "create"} => Basic \subseteq schema
  /\ fresh /\ stage \in {"backup", "stamp"} => schema = HeadSchema
  /\ stage = "statement" =>
       /\ Added[NextUp] \ Fragile \subseteq schema \cup AddsOf(todo)
       /\ Dropped[NextUp] \cap schema \subseteq DropsOf(todo)
       /\ Clearing(todo, schema)
  /\ stage \in {"normalize", "serving"} => Pending = {}
  /\ stage = "serving" => ~library

\* As long as nothing was cut off, the indexes that no migration makes again are there.
Intact ==
  /\ crashes \in Nat
  /\ crashes = 0 =>
       /\ stage = "create" => Indexed(schema \cup AddsOf(todo))
       /\ stage = "statement" /\ NextUp = 2 => Credentials(todo, schema)
       /\ stage = "statement" /\ NextUp # 2 => Carriers \cap AddsOf(todo) = {}
       /\ stage # "create" /\ ~(stage = "statement" /\ NextUp = 2) => Indexed(schema)

LEMMA SchemasSuffice == Ledger /\ Schemas /\ Intact => ServesHeadSchema
<1> SUFFICES ASSUME Ledger, Schemas, Intact, stage = "serving"
             PROVE  /\ HeadSchema \ Fragile \subseteq schema /\ schema \subseteq HeadSchema
                    /\ crashes = 0 => schema = HeadSchema
                    /\ ~library
  BY DEF ServesHeadSchema
<1>1. Revisions \subseteq ledger /\ Basic \subseteq schema /\ ~library
  BY DEF Schemas, Pending
<1>2. HeadSchema \ Fragile \subseteq schema
  BY <1>1, ObjectsOfReleases DEF Schemas
<1>3. schema \subseteq HeadSchema
  <2> SUFFICES ASSUME NEW x \in schema, x \in Retired PROVE FALSE
    BY DEF Schemas
  <2>1. PICK r \in Revisions : x \in Dropped[r]
    BY ObjectsOfReleases
  <2> QED
    BY <1>1, <2>1 DEF Schemas
<1>4. ASSUME crashes = 0 PROVE schema = HeadSchema
  <2>1. Carriers \subseteq schema
    BY <1>2, Heads DEF Fragile, Carriers, Basic
  <2>2. Indexed(schema)
    BY <1>4 DEF Intact
  <2> QED
    BY <1>2, <1>3, <2>1, <2>2 DEF Indexed, Companions, Carriers, Basic, Fragile
<1> QED
  BY <1>1, <1>2, <1>3, <1>4

LEMMA SchemasInit == MigrationsInit => Schemas /\ Intact
<1> SUFFICES ASSUME MigrationsInit PROVE Schemas /\ Intact
  OBVIOUS
<1>1. stage = "down" /\ fresh = FALSE /\ todo = <<>> /\ crashes = 0 /\ <<>> \in Seq(Order)
  BY DEF MigrationsInit
<1> DEFINE Sane ==
      /\ schema \subseteq HeadSchema \cup Retired /\ Columns(schema) /\ Paired(schema)
      /\ Indexed(schema)
      /\ \A i \in ledger : Added[i] \ Fragile \subseteq schema /\ Dropped[i] \cap schema = {}
<1>2. ASSUME schema = {}, ledger = {} PROVE Sane
  BY <1>2 DEF Columns, Paired, Indexed, Companions
<1>3. BaseSchema = {"users", "ix_users", "audit_logs", "ix_audit_logs", "tool_set_records",
                    "ix_tool_set_records", "sets.machine_id", "ix_sets_machine_id",
                    "tool_table_entry_records", "ix_entries", "ix_entries_bound_instance_id",
                    "tool_usage", "tool_presets", "manufacturer_catalogs"}
  BY DEF BaseSchema
<1>4. BaseSchema \subseteq HeadSchema \cup Retired
  BY <1>3, Heads DEF Retired
<1>5. ASSUME schema = BaseSchema, ledger = {} PROVE Sane
  <2>1. Columns(schema) /\ Paired(schema) /\ Indexed(schema)
    BY <1>3, <1>5 DEF Columns, Paired, Indexed, Companions
  <2> QED
    BY <1>4, <1>5, <2>1
<1>6. ASSUME NEW r \in Revisions, schema = SchemaAt(r), ledger = 1..r
      PROVE  Sane
  <2>1. 1..r \subseteq Revisions /\ r \in Nat /\ \A i \in Revisions : i \in 1..r <=> i <= r
    BY <1>6 DEF Revisions, Latest
  <2>2. /\ schema \subseteq BaseSchema \cup UNION {Added[i] : i \in 1..r}
        /\ \A x \in BaseSchema \cup UNION {Added[i] : i \in 1..r} :
             x \in schema \/ \E i \in 1..r : x \in Dropped[i]
        /\ \A i \in 1..r : Dropped[i] \cap schema = {}
    BY <1>6 DEF SchemaAt
  <2>3. schema \subseteq HeadSchema \cup Retired
    BY <1>4, <2>1, <2>2, ObjectsOfReleases
  <2>4. \A x \in HeadSchema : x \in schema <=> (x \in BaseSchema \/ \E i \in 1..r : x \in Added[i])
    BY <2>1, <2>2, ObjectsOfReleases
  <2>5. \A i \in ledger : Added[i] \ Fragile \subseteq schema /\ Dropped[i] \cap schema = {}
    BY <1>6, <2>1, <2>2, <2>4, ObjectsOfReleases
  <2>6. {"users", "ix_users", "audit_logs", "ix_audit_logs", "ix_tool_set_records",
         "tool_table_entry_records", "ix_entries", "ix_entries_bound_instance_id"} \subseteq schema
    BY <1>3, <2>4, Heads
  <2>7. "audit_logs.api_key_id" \in schema => "ix_audit_logs_api_key_id" \in schema
    <3>1. \A i \in Revisions : "audit_logs.api_key_id" \in Added[i] => i = 2
      BY EachRevision, Releases
    <3>2. "ix_audit_logs_api_key_id" \in Added[2] /\ "audit_logs.api_key_id" \notin BaseSchema
      BY <1>3, Releases
    <3> QED
      BY <2>1, <2>4, <3>1, <3>2, Heads
  <2>9. "machine_set_maps" \in schema =>
          {"ix_maps_machine_id", "ix_maps_tool_set_id", "ix_maps_user_id"} \subseteq schema
    <3>1. \A i \in Revisions : "machine_set_maps" \in Added[i] => i = 3
      BY EachRevision, Releases
    <3>2. /\ {"ix_maps_machine_id", "ix_maps_tool_set_id", "ix_maps_user_id"} \subseteq Added[3]
          /\ "machine_set_maps" \notin BaseSchema
      BY <1>3, Releases
    <3> QED
      BY <2>1, <2>4, <3>1, <3>2, Heads
  <2>8. Paired(schema)
    <3>1. \A i \in Revisions : "ix_sets_machine_id" \notin Added[i]
                              /\ ("sets.machine_id" \in Dropped[i] => i = 3)
      BY EachRevision, Releases
    <3>2. "ix_sets_machine_id" \in Dropped[3] /\ "sets.machine_id" \in BaseSchema
      BY <1>3, Releases
    <3> QED
      BY <2>1, <2>2, <3>1, <3>2 DEF Paired
  <2> QED
    BY <2>3, <2>5, <2>6, <2>7, <2>8, <2>9 DEF Columns, Indexed, Companions
<1>7. Sane
  <2> HIDE DEF Sane
  <2>1. \/ schema = {} /\ ledger = {}
        \/ schema = BaseSchema /\ ledger = {}
        \/ \E r \in Revisions : schema = SchemaAt(r) /\ ledger = 1..r
    BY DEF MigrationsInit
  <2> QED
    BY <1>2, <1>5, <1>6, <2>1
<1> QED
  BY <1>1, <1>7 DEF Schemas, Intact

\* What a schema and a ledger promise each other.
Upheld(s, l) ==
  /\ s \subseteq HeadSchema \cup Retired /\ Columns(s) /\ Paired(s)
  /\ \A i \in l : Added[i] \ Fragile \subseteq s /\ Dropped[i] \cap s = {}

\* A statement breaks no promise: what the models have is not dropped, and what they
\* have no more is not made.
LEMMA PromisesKept ==
  ASSUME NEW s, NEW l \in SUBSET Revisions, Upheld(s, l),
         NEW a \in SUBSET HeadSchema, NEW d \in SUBSET Retired,
         NEW z, z = (s \cup a) \ d, Columns(a) \/ Basic \subseteq s, Paired(z)
  PROVE  Upheld(z, l)
<1>1. z \subseteq HeadSchema \cup Retired
  BY DEF Upheld
<1>2. Columns(z)
  <2>1. Columns(s) /\ {"audit_logs", "tool_table_entry_records"} \cap d = {}
    BY DEF Upheld, Retired
  <2> QED
    BY <2>1 DEF Columns, Basic
<1>3. ASSUME NEW i \in l PROVE Added[i] \ Fragile \subseteq z /\ Dropped[i] \cap z = {}
  <2>1. Added[i] \subseteq HeadSchema /\ Dropped[i] \subseteq Retired /\ HeadSchema \cap Retired = {}
    BY <1>3, ObjectsOfReleases
  <2> QED
    BY <1>3, <2>1 DEF Upheld
<1> QED
  BY <1>1, <1>2, <1>3 DEF Upheld

LEMMA StartKeepsSchemas ==
  ASSUME Ledger, Schemas, Intact, Start
  PROVE  Schemas' /\ Intact'
<1>1. /\ stage = "down" /\ stage' = "create" /\ fresh' = (schema = {})
      /\ todo' = CreateAll(schema)
      /\ UNCHANGED <<schema, ledger, library, crashes>>
  BY DEF Start, stored
<1>2. todo' \in Seq(Columned) /\ todo' \in Seq(Order)
  <2>1. CreateAll(schema) \in Seq(Columned) /\ Columned \subseteq Order
    BY AllCreated DEF Columned
  <2> QED
    BY <1>1, <2>1
<1>3. /\ Basic \subseteq schema \cup AddsOf(todo')
      /\ schema = {} => HeadSchema \subseteq AddsOf(todo')
      /\ Indexed(schema) => Indexed(schema \cup AddsOf(todo'))
  BY <1>1, CreatesWhatLacks DEF Schemas
<1>4. Schemas'
  BY <1>1, <1>2, <1>3 DEF Schemas
<1>5. Intact'
  BY <1>1, <1>3 DEF Intact
<1> QED
  BY <1>4, <1>5

LEMMA IndexesAreNoColumns == \A t \in SUBSET Indexes : Columns(t)
<1> DEFINE X(i) == ModelTables[i][2]
           C == {"audit_logs.channel", "audit_logs.api_key_id", "entries.usage_baseline"}
<1>1. \A i \in 1..9 : X(i) \cap C = {}
  <2> TAKE i \in 1..9
  <2>1. CASE i \in {1, 2, 3, 4, 5}
    BY <2>1 DEF ModelTables
  <2>2. CASE i \in {6, 7, 8, 9}
    BY <2>2 DEF ModelTables
  <2> QED
    BY <2>1, <2>2
<1>2. DOMAIN ModelTables = 1..9
  BY DEF ModelTables
<1> HIDE DEF X
<1>3. Indexes \cap C = {}
  BY <1>1, <1>2 DEF Indexes, X
<1> QED
  BY <1>3 DEF Columns

LEMMA CreateKeepsSchemas ==
  ASSUME Ledger, Schemas, Intact, CreateMissing
  PROVE  Schemas' /\ Intact'
<1>1. stage = "create" /\ UNCHANGED <<ledger, library, fresh, crashes>>
  BY DEF CreateMissing
<1>2. CASE todo = <<>>
  <2>1. stage' = "backup" /\ UNCHANGED <<schema, todo>>
    BY <1>2 DEF CreateMissing
  <2>2. AddsOf(todo) = {}
    BY <1>2, OfNone
  <2>3. Basic \subseteq schema /\ (fresh => schema = HeadSchema)
    BY <1>1, <2>2 DEF Schemas
  <2>4. Schemas'
    BY <1>1, <2>1, <2>3 DEF Schemas
  <2>5. crashes = 0 => Indexed(schema)
    BY <1>1, <2>2 DEF Intact
  <2> QED
    BY <1>1, <2>1, <2>4, <2>5 DEF Intact
<1>3. CASE todo # <<>>
  <2>0. PICK a \in AtOnce(Head(todo).adds) :
               /\ schema' = schema \cup a /\ stage' = stage
               /\ todo' = When(a # Head(todo).adds, <<Create(Head(todo).adds \ a)>>) \o Tail(todo)
    BY <1>3 DEF CreateMissing
  <2> DEFINE rest == Head(todo).adds \ a
             first == When(a # Head(todo).adds, <<Create(rest)>>)
  <2>1. schema' = schema \cup a /\ todo' = first \o Tail(todo) /\ stage' = stage
    BY <2>0
  <2>2. todo \in Seq(Columned)
    BY <1>1 DEF Schemas
  <2>3. /\ Head(todo) \in Columned /\ Tail(todo) \in Seq(Columned)
        /\ AddsOf(todo) = Head(todo).adds \cup AddsOf(Tail(todo))
    BY <1>3, <2>2, OfHead
  <2>4. a \subseteq Head(todo).adds /\ (a # Head(todo).adds => Head(todo).adds \subseteq Indexes)
    BY <2>0 DEF AtOnce
  <2>5. a \in SUBSET HeadSchema /\ Columns(a) /\ rest \in SUBSET HeadSchema /\ Columns(rest)
    <3>1. Head(todo).adds \in SUBSET HeadSchema /\ Columns(Head(todo).adds)
      BY <2>3 DEF Columned, Order
    <3>2. \A t \in SUBSET Indexes : Columns(t)
      BY IndexesAreNoColumns
    <3>3. CASE a = Head(todo).adds
      <4>1. rest = {}
        BY <3>3
      <4> QED
        BY <3>1, <3>3, <4>1 DEF Columns
    <3>4. CASE a # Head(todo).adds
      BY <2>4, <3>1, <3>2, <3>4
    <3> QED
      BY <3>3, <3>4
  <2>6. /\ first \in Seq(Columned)
        /\ AddsOf(first) = IF a # Head(todo).adds THEN rest ELSE {}
    <3> HIDE DEF rest
    <3>1. Create(rest) \in Columned /\ Create(rest).adds = rest
      BY <2>5 DEF Create, Order, Columned
    <3>2. <<Create(rest)>> \in Seq(Columned) /\ AddsOf(<<Create(rest)>>) = rest
      BY <3>1, OfOne
    <3>3. (a # Head(todo).adds) \in BOOLEAN
      OBVIOUS
    <3> QED
      BY <3>2, <3>3, OfWhen
  <2>7. /\ todo' \in Seq(Columned)
        /\ AddsOf(todo') = (IF a # Head(todo).adds THEN rest ELSE {}) \cup AddsOf(Tail(todo))
    <3> DEFINE u == Tail(todo)
    <3>1. u \in Seq(Columned) /\ first \in Seq(Columned)
      BY <2>3, <2>6
    <3> HIDE DEF first, u
    <3>2. first \o u \in Seq(Columned) /\ AddsOf(first \o u) = AddsOf(first) \cup AddsOf(u)
      BY <3>1, OfJoin
    <3> QED
      BY <2>1, <2>6, <3>2 DEF u
  <2>8. todo' \in Seq(Order)
    BY <2>7 DEF Columned
  <2>9. schema' \cup AddsOf(todo') = schema \cup AddsOf(todo)
    BY <2>1, <2>3, <2>4, <2>7
  <2> HIDE DEF rest, first
  <2>10. Upheld(schema', ledger')
    <3>1. Upheld(schema, ledger) /\ ledger \in SUBSET Revisions /\ {} \in SUBSET Retired
      BY DEF Schemas, Upheld, Ledger
    <3>2. Paired(schema')
      <4>1. "ix_sets_machine_id" \notin a
        BY <2>5, ObjectsOfReleases DEF Retired
      <4> QED
        BY <2>1, <3>1, <4>1 DEF Upheld, Paired
    <3>3. schema' = (schema \cup a) \ {}
      BY <2>1
    <3> QED
      BY <1>1, <2>5, <3>1, <3>2, <3>3, PromisesKept
  <2>11. /\ Basic \subseteq schema' \cup AddsOf(todo')
         /\ fresh' => schema' \subseteq HeadSchema /\ HeadSchema \subseteq schema' \cup AddsOf(todo')
    BY <1>1, <2>1, <2>5, <2>9 DEF Schemas
  <2>12. Schemas'
    BY <1>1, <2>1, <2>7, <2>8, <2>10, <2>11 DEF Schemas, Upheld
  <2>13. Intact'
    BY <1>1, <2>1, <2>9 DEF Intact
  <2> QED
    BY <2>12, <2>13
<1> QED
  BY <1>2, <1>3

LEMMA StampKeepsSchemas ==
  ASSUME Ledger, Schemas, Intact, Stamp
  PROVE  Schemas' /\ Intact'
<1>1. /\ stage = "stamp" /\ stage' = "upgrade" /\ ledger' = ledger \cup ToStamp
      /\ UNCHANGED <<schema, library, fresh, todo, crashes>>
  BY DEF Stamp
<1>2. ASSUME NEW i \in ToStamp PROVE Added[i] \ Fragile \subseteq schema /\ Dropped[i] \cap schema = {}
  <2>1. CASE ledger = {} /\ fresh
    <3>1. schema = HeadSchema /\ i \in Revisions
      BY <1>1, <1>2, <2>1 DEF Schemas, ToStamp, Pending
    <3> QED
      BY <3>1, ObjectsOfReleases
  <2>2. CASE ~(ledger = {} /\ fresh)
    <3>1. i = 1
      BY <1>2, <2>2 DEF ToStamp, Baseline
    <3> QED
      BY <3>1, Releases
  <2> QED
    BY <2>1, <2>2
<1>3. Schemas'
  BY <1>1, <1>2 DEF Schemas
<1>4. Intact'
  BY <1>1 DEF Intact
<1> QED
  BY <1>3, <1>4

LEMMA BeginKeepsSchemas ==
  ASSUME Ledger, Schemas, Intact, BeginMigration
  PROVE  Schemas' /\ Intact'
<1>1. /\ stage = "upgrade" /\ UNCHANGED <<schema, ledger, library, fresh, crashes>>
      /\ Pending' = Pending /\ NextUp' = NextUp
  BY DEF BeginMigration, stored, Pending, NextUp
<1>2. CASE Pending = {}
  <2>1. stage' = "normalize" /\ todo' = todo
    BY <1>2 DEF BeginMigration
  <2> QED
    BY <1>1, <1>2, <2>1 DEF Schemas, Intact
<1>3. CASE Pending # {}
  <2>1. stage' = "statement" /\ todo' = Upgrade(NextUp, schema)
    BY <1>3 DEF BeginMigration
  <2>2. NextUp \in Revisions
    BY <1>3, LeastPending DEF Ledger, Pending
  <2>3. /\ todo' \in Seq(Order)
        /\ Added[NextUp] \ Fragile \subseteq schema \cup AddsOf(todo')
        /\ Dropped[NextUp] \cap schema \subseteq DropsOf(todo')
        /\ NextUp # 2 => Carriers \cap AddsOf(todo') = {}
    <3>1. Basic \subseteq schema /\ Paired(schema)
      BY <1>1 DEF Schemas
    <3> QED
      BY <2>1, <2>2, <3>1, UpgradesFollow
  <2>4. Clearing(todo', schema)
    BY <2>1, <2>2, ClearingBegins
  <2>5. Schemas'
    BY <1>1, <2>1, <2>3, <2>4 DEF Schemas
  <2>6. crashes = 0 => Indexed(schema)
    BY <1>1 DEF Intact
  <2>7. NextUp = 2 /\ Indexed(schema) => Credentials(todo', schema)
    BY <2>1, CredentialsBegin
  <2> QED
    BY <1>1, <2>1, <2>3, <2>5, <2>6, <2>7 DEF Intact
<1> QED
  BY <1>2, <1>3


\* A start that gives up keeps what it has done.
LEMMA AbortKeepsSchemas ==
  ASSUME Ledger, Schemas, Abort, UNCHANGED <<schema, ledger, library>>,
         crashes' \in Nat, crashes' = 0 => Indexed(schema)
  PROVE  Schemas' /\ Intact'
<1>1. stage' = "down" /\ todo' = <<>> /\ <<>> \in Seq(Order)
  BY DEF Abort
<1> QED
  BY <1>1 DEF Schemas, Intact

LEMMA StatementKeepsSchemas ==
  ASSUME Ledger, Schemas, Intact, RunStatement
  PROVE  Schemas' /\ Intact'
<1>1. /\ stage = "statement" /\ todo # <<>> /\ UNCHANGED <<ledger, library, crashes>>
      /\ NextUp' = NextUp
  BY DEF RunStatement, Pending, NextUp
<1>2. CASE Fails(Head(todo))
  <2>1. Abort /\ UNCHANGED schema
    BY <1>2 DEF RunStatement
  <2>2. ASSUME crashes = 0 PROVE Indexed(schema)
    <3>1. CASE NextUp = 2
      BY <1>1, <1>2, <2>2, <3>1, CredentialsFail DEF Intact
    <3>2. CASE NextUp # 2
      BY <1>1, <2>2, <3>2 DEF Intact
    <3> QED
      BY <3>1, <3>2
  <2>3. crashes' \in Nat
    BY <1>1 DEF Intact
  <2> QED
    BY <1>1, <2>1, <2>2, <2>3, AbortKeepsSchemas
<1>3. CASE ~Fails(Head(todo))
  <2> DEFINE a == Head(todo).adds
             d == Head(todo).drops
  <2>1. /\ schema' = (schema \cup a) \ d /\ todo' = Tail(todo)
        /\ UNCHANGED <<stage, fresh>>
    BY <1>3 DEF RunStatement, Execute
  <2>2. /\ Head(todo) \in Order /\ todo \in Seq(Order) /\ todo' \in Seq(Order)
        /\ AddsOf(todo) = a \cup AddsOf(todo') /\ DropsOf(todo) = d \cup DropsOf(todo')
    BY <1>1, <2>1, OfHead DEF Schemas
  <2>3. a \in SUBSET HeadSchema /\ d \in SUBSET Retired
    BY <2>2 DEF Order
  <2>4. Clearing(todo', schema') /\ Paired(schema')
    BY <1>1, <2>1, <2>2, ClearingGoesOn DEF Schemas
  <2>5. Credentials(todo, schema) => Credentials(todo', schema')
    BY <1>1, <2>1, CredentialsGoOn
  <2> HIDE DEF a, d
  <2>6. Basic \subseteq schema /\ Upheld(schema, ledger) /\ ledger \in SUBSET Revisions
    BY <1>1 DEF Schemas, Upheld, Ledger
  <2>7. Upheld(schema', ledger)
    BY <2>1, <2>3, <2>4, <2>6, PromisesKept
  <2>8. NextUp \in Revisions
    BY <1>1, LeastPending DEF Ledger, Pending
  <2>9. /\ HeadSchema \cap Retired = {} /\ Basic \subseteq HeadSchema
        /\ Added[NextUp] \subseteq HeadSchema /\ Dropped[NextUp] \subseteq Retired
    BY <2>8, ObjectsOfReleases
  <2>10. Basic \subseteq schema'
    BY <2>1, <2>3, <2>6, <2>9
  <2>11. Added[NextUp] \ Fragile \subseteq schema' \cup AddsOf(todo')
    <3>1. Added[NextUp] \ Fragile \subseteq schema \cup AddsOf(todo)
      BY <1>1 DEF Schemas
    <3> QED
      BY <2>1, <2>2, <2>3, <2>9, <3>1
  <2>12. Dropped[NextUp] \cap schema' \subseteq DropsOf(todo')
    <3>1. Dropped[NextUp] \cap schema \subseteq DropsOf(todo)
      BY <1>1 DEF Schemas
    <3> QED
      BY <2>1, <2>2, <2>3, <2>9, <3>1
  <2>13. Schemas'
    BY <1>1, <2>1, <2>2, <2>4, <2>7, <2>10, <2>11, <2>12 DEF Schemas, Upheld
  <2>14. ASSUME crashes = 0, NextUp # 2
         PROVE  Carriers \cap AddsOf(todo') = {} /\ Indexed(schema')
    <3>1. Carriers \cap AddsOf(todo) = {} /\ Indexed(schema)
      BY <1>1, <2>14 DEF Intact
    <3>2. Fragile \cap d = {}
      BY <2>3, ObjectsOfReleases
    <3> QED
      BY <2>1, <2>2, <3>1, <3>2 DEF Indexed, Companions, Carriers, Basic, Fragile
  <2>15. Intact'
    BY <1>1, <2>1, <2>5, <2>14 DEF Intact
  <2> QED
    BY <2>13, <2>15
<1> QED
  BY <1>2, <1>3

\* The commit of 0003 begins where the links are still to be copied, so that only the
\* index and the column are left to be dropped.
LEMMA CopyKeepsSchemas ==
  ASSUME Ledger, Links, Schemas, Intact, CopyLinks
  PROVE  Schemas' /\ Intact'
<1>1. /\ stage = "statement" /\ todo # <<>> /\ Head(todo).copies /\ Linked # {}
      /\ UNCHANGED <<library, crashes>>
  BY DEF CopyLinks, stored
<1>2. NextUp = 3 /\ \E first \in Seq(Apart) : todo = first \o Moving
  <2>1. ~(todo \in Seq(Apart))
    <3> SUFFICES ASSUME todo \in Seq(Apart) PROVE FALSE
      OBVIOUS
    <3>1. Head(todo) \in Apart
      BY <1>1, OfHead
    <3> QED
      BY <1>1, <3>1 DEF Apart
  <2> QED
    BY <1>1, <2>1 DEF Links, Walk
<1>3. todo = Moving
  <2>1. PICK first \in Seq(Apart) : todo = first \o Moving
    BY <1>2
  <2>2. first \in Seq(Harmless) /\ Moving \in Seq(Harmless) /\ Moving # <<>>
    BY ApartIsHarmless, MovingType DEF Moving
  <2>3. first = <<>>
    <3> SUFFICES ASSUME first # <<>> PROVE FALSE
      OBVIOUS
    <3>1. Head(todo) = Head(first)
      BY <2>1, <2>2, HeadOfJoin
    <3>2. Head(first) \in Apart
      BY OfHead
    <3> QED
      BY <1>1, <3>1, <3>2 DEF Apart
  <2> QED
    BY <2>1, <2>2, <2>3
<1>4. AddsOf(todo) = {} /\ DropsOf(todo) = {"sets.machine_id", "ix_sets_machine_id"}
  BY <1>3, DoesMove DEF Does
<1>5. crashes \in Nat /\ (crashes = 0 => Indexed(schema))
  BY <1>1, <1>2 DEF Intact
<1>6. CASE Refused \/ \E i \in DOMAIN todo : Fails(todo[i])
  <2>1. Abort /\ UNCHANGED <<schema, ledger, library>>
    BY <1>6 DEF CopyLinks, stored
  <2> QED
    BY <1>1, <1>5, <2>1, AbortKeepsSchemas
<1>7. CASE ~(Refused \/ \E i \in DOMAIN todo : Fails(todo[i]))
  <2>1. /\ schema' = schema \ DropsOf(todo) /\ ledger' = ledger \cup {3}
        /\ stage' = "upgrade" /\ todo' = <<>> /\ fresh' = fresh
    BY <1>2, <1>7 DEF CopyLinks, DropsOf
  <2>2. Basic \subseteq schema /\ Upheld(schema, ledger) /\ ledger \in SUBSET Revisions
    BY <1>1 DEF Schemas, Upheld, Ledger
  <2>3. /\ schema' = (schema \cup {}) \ {"sets.machine_id", "ix_sets_machine_id"}
        /\ {} \in SUBSET HeadSchema /\ {"sets.machine_id", "ix_sets_machine_id"} \in SUBSET Retired
    BY <1>4, <2>1 DEF Retired
  <2>4. Paired(schema')
    BY <2>3 DEF Paired
  <2>5. Upheld(schema', ledger)
    BY <2>2, <2>3, <2>4, PromisesKept
  <2>6. Added[3] \ Fragile \subseteq schema' /\ Dropped[3] \cap schema' = {}
    <3>1. Added[3] \ Fragile \subseteq schema
      BY <1>1, <1>2, <1>4 DEF Schemas
    <3> QED
      BY <2>3, <3>1, Releases
  <2>7. Basic \subseteq schema'
    BY <2>2, <2>3 DEF Basic
  <2>8. Schemas'
    BY <2>1, <2>5, <2>6, <2>7 DEF Schemas, Upheld
  <2>9. Indexed(schema) => Indexed(schema')
    BY <2>3 DEF Indexed, Companions
  <2> QED
    BY <1>1, <1>5, <2>1, <2>8, <2>9 DEF Intact
<1> QED
  BY <1>6, <1>7

LEMMA RecordKeepsSchemas ==
  ASSUME Ledger, Schemas, Intact, Record
  PROVE  Schemas' /\ Intact'
<1>1. /\ stage = "statement" /\ todo = <<>> /\ stage' = "upgrade"
      /\ ledger' = ledger \cup {NextUp} /\ UNCHANGED <<schema, library, fresh, todo, crashes>>
  BY DEF Record
<1>2. Added[NextUp] \ Fragile \subseteq schema /\ Dropped[NextUp] \cap schema = {}
  BY <1>1, OfNone DEF Schemas
<1>3. Schemas'
  BY <1>1, <1>2 DEF Schemas
<1>4. crashes = 0 => Indexed(schema)
  <2>1. CASE NextUp = 2
    BY <1>1, <2>1, CredentialsFail DEF Intact
  <2>2. CASE NextUp # 2
    BY <1>1, <2>2 DEF Intact
  <2> QED
    BY <2>1, <2>2
<1> QED
  BY <1>1, <1>3, <1>4 DEF Intact

LEMMA SchemasStep ==
  Ledger /\ Links /\ Schemas /\ Intact /\ [MigrationsNext]_migrationVars => Schemas' /\ Intact'
<1> SUFFICES ASSUME Ledger, Links, Schemas, Intact, [MigrationsNext]_migrationVars
             PROVE  Schemas' /\ Intact'
  OBVIOUS
<1>1. CASE SafetyBackup
  BY <1>1 DEF SafetyBackup, stored, Schemas, Intact
<1>2. CASE NormalizeLegacyData
  <2>1. /\ stage = "normalize" /\ stage' = "serving" /\ library' = FALSE
        /\ UNCHANGED <<schema, ledger, fresh, todo, crashes>> /\ Pending' = Pending
    BY <1>2 DEF NormalizeLegacyData, Pending
  <2> QED
    BY <2>1 DEF Schemas, Intact
<1>3. CASE Crash
  <2>1. /\ Abort /\ UNCHANGED <<schema, ledger, library>> /\ crashes' = crashes + 1
        /\ crashes \in Nat
    BY <1>3 DEF Crash, stored, Intact
  <2>2. crashes' \in Nat /\ crashes' # 0
    BY <2>1
  <2> QED
    BY <2>1, <2>2, AbortKeepsSchemas
<1>4. CASE Serve \/ UNCHANGED migrationVars
  <2>1. UNCHANGED <<schema, ledger, library, stage, fresh, todo, crashes>>
        /\ Pending' = Pending /\ NextUp' = NextUp
    BY <1>4 DEF Serve, migrationVars, stored, Pending, NextUp
  <2> QED
    BY <2>1 DEF Schemas, Intact
<1> QED
  BY <1>1, <1>2, <1>3, <1>4, StartKeepsSchemas, CreateKeepsSchemas, StampKeepsSchemas,
     BeginKeepsSchemas, StatementKeepsSchemas, CopyKeepsSchemas, RecordKeepsSchemas
     DEF MigrationsNext, Boot

\* A server that serves has the schema of the models, from whatever release its database
\* comes and however often its upgrade was cut off, but for the indexes that only
\* create_all makes, or 0002 and 0003 with their column or table: those a cut can lose
\* (database/session.py:64-78, migrations/runner.py:97-168).
THEOREM ServesTheHead == MigrationsSpec => []ServesHeadSchema
<1>1. Ledger /\ Schemas /\ Intact => ServesHeadSchema
  BY SchemasSuffice
<1> QED
  BY <1>1, LedgerInit, LedgerStep, LinksInit, LinksStep, SchemasInit, SchemasStep, PTL
     DEF MigrationsSpec
=============================================================================
