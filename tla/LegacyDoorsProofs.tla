-------------------------- MODULE LegacyDoorsProofs --------------------------
(***************************************************************************)
(* For any tables, callers, keys, tags and bodies of requests of any       *)
(* length: the types, versions that count updates, updates that replace    *)
(* the version they name, deletes that are final, and lists whose rows can *)
(* be read.                                                                *)
(***************************************************************************)
EXTENDS LegacyDoors, SequenceTheorems, FiniteSetTheorems, WellFoundedInduction, TLAPS

Ops == {"create", "update", "delete"}

\* A row and its history, as the tables or a transaction have them.
SoundRow(r, x, p) ==
  /\ x.state = "unborn" => p = NoPast
  /\ x.state = "gone" => x = Gone /\ p = NoPast
  /\ x.state = "live" /\ ~p.contended => x.version = 1 + p.updates
  /\ r \in Assemblies => ~p.contended
  /\ r \notin Assemblies /\ ~p.contended => ~p.blind

Sound(R, P) ==
  /\ R \in [Resources -> Row] /\ P \in [Resources -> Past]
  /\ \A r \in Resources : SoundRow(r, R[r], P[r])

\* A transaction brings nothing back and takes nothing to before it was made.
Ahead(R, P) ==
  \A r \in Resources :
    /\ row[r].state = "gone" => R[r] = row[r] /\ P[r] = past[r]
    /\ row[r].state = "live" => R[r].state # "unborn"

\* An entry that passed its checks, for a session that sees the rows R.
Ready(q, e, R) ==
  /\ q.op = "create" => q.hand.state = "live" /\ q.hand.version = 1
  /\ q.op = "update" => e.version \in {None, q.hand.version}
  /\ q.op # "create" => R[e.id].state # "unborn"

Session(q, R) ==
  /\ q.held \in Resources => q.hand \in Row
  /\ q.stage = "idle" => q.draft = None /\ q.op = "none"
  /\ q.stage # "idle" => q.op \in Ops
  /\ \A n \in DOMAIN q.todo : /\ q.todo[n].id \notin Assemblies
                              /\ q.op = "create" => q.todo[n].tags \in SUBSET Tags
  /\ q.stage = "flush" => q.todo # <<>> /\ q.hand \in Row /\ Ready(q, Head(q.todo), R)

\* The ids that a request is about to insert: each its own, and nobody has a row of it.
Makes(q) == IF q.op = "create" THEN {q.todo[n].id : n \in DOMAIN q.todo} ELSE {}
Once(q) ==
  q.op = "create" => \A n, m \in DOMAIN q.todo : q.todo[n].id = q.todo[m].id => n = m
New(id) ==
  row[id].state = "unborn" /\ \A v \in Callers : View(v).row[id].state = "unborn"

NamesInv ==
  /\ \A c \in Callers : Once(request[c]) /\ \A id \in Makes(request[c]) : New(id)
  /\ \A c, d \in Callers : c # d => Makes(request[c]) \cap Makes(request[d]) = {}

\* The inductive invariant.
Inv ==
  /\ request \in [Callers -> Request]
  /\ Sound(row, past)
  /\ \A c \in Callers : Sound(View(c).row, View(c).past) /\ Ahead(View(c).row, View(c).past)
  /\ \A c, d \in Callers : HasLock(c) /\ HasLock(d) => c = d
  /\ \A c \in Callers : Session(request[c], View(c).row)
  /\ NamesInv

-----------------------------------------------------------------------------

LEMMA RowsTyped ==
  /\ Unborn \in Row /\ Gone \in Row /\ Gone.state = "gone" /\ Unborn.state = "unborn"
  /\ NoPast \in Past /\ NoPast.updates = 0 /\ ~NoPast.contended /\ ~NoPast.blind
  /\ Idle \in Request /\ Idle.stage = "idle" /\ Idle.op = "none" /\ Idle.todo = <<>>
  /\ Idle.hand = None /\ Idle.held = None /\ Idle.draft = None
<1>1. Unborn \in Row /\ Unborn.state = "unborn"
  BY DEF Unborn, Row
<1>2. Gone \in Row /\ Gone.state = "gone"
  BY DEF Unborn, Gone, Row
<1>3. NoPast \in Past /\ NoPast.updates = 0 /\ ~NoPast.contended /\ ~NoPast.blind
  BY DEF NoPast, Past
<1>4. /\ Idle \in Request /\ Idle.stage = "idle" /\ Idle.op = "none" /\ Idle.todo = <<>>
      /\ Idle.hand = None /\ Idle.held = None /\ Idle.draft = None
  BY DEF Idle, Request
<1> QED
  BY <1>1, <1>2, <1>3, <1>4

\* What a session sees, by what its transaction has.
LEMMA Views ==
  ASSUME NEW c
  PROVE  /\ request[c].draft = None => View(c).row = row /\ View(c).past = past
         /\ request[c].draft # None => View(c) = request[c].draft
BY DEF View

\* The invariant after a step of one session that commits nothing: it holds q, and sees R
\* and P.
LEMMA Moves ==
  ASSUME Inv, NEW c \in Callers, NEW q \in Request, request' = [request EXCEPT ![c] = q],
         UNCHANGED <<row, past>>, NEW R, NEW P,
         q.draft = None => R = row /\ P = past,
         q.draft # None => R = q.draft.row /\ P = q.draft.past /\ LockFree(c),
         Sound(R, P), Ahead(R, P), Session(q, R), Once(q),
         \A id \in Makes(q) : /\ New(id) /\ R[id].state = "unborn"
                              /\ \A v \in Callers \ {c} : id \notin Makes(request[v]),
         \A v \in Callers \ {c} : \A id \in Makes(request[v]) : R[id].state = "unborn"
  PROVE  Inv'
<1>1. request' \in [Callers -> Request] /\ request'[c] = q
      /\ \A v \in Callers \ {c} : request'[v] = request[v]
  BY DEF Inv
<1>2. View(c).row' = R /\ View(c).past' = P
  BY <1>1 DEF View
<1>3. ASSUME NEW v \in Callers \ {c} PROVE View(v).row' = View(v).row /\ View(v).past' = View(v).past
  BY <1>1 DEF View
<1>4. \A v \in Callers :
        /\ Sound(View(v).row', View(v).past') /\ Ahead(View(v).row', View(v).past')
        /\ Session(request'[v], View(v).row')
  BY <1>1, <1>2, <1>3 DEF Inv
<1>5. \A v, d \in Callers : HasLock(v)' /\ HasLock(d)' => v = d
  BY <1>1 DEF Inv, HasLock, LockFree
<1>6. Sound(row', past')
  BY DEF Inv
<1>7. ASSUME NEW v \in Callers, NEW id \in Makes(request'[v]) PROVE New(id)'
  <2>1. row[id].state = "unborn" /\ \A d \in Callers \ {c} : View(d).row[id].state = "unborn"
    BY <1>1, <1>7 DEF Inv, NamesInv, New
  <2>2. R[id].state = "unborn"
    BY <1>1, <1>7
  <2>3. \A d \in Callers : View(d).row'[id].state = "unborn"
    BY <1>2, <1>3, <2>1, <2>2
  <2> QED
    BY <2>1, <2>3 DEF New
<1>8. \A v \in Callers : Once(request'[v])
  BY <1>1 DEF Inv, NamesInv
<1>9. \A v, d \in Callers : v # d => Makes(request'[v]) \cap Makes(request'[d]) = {}
  BY <1>1 DEF Inv, NamesInv
<1>10. NamesInv'
  <2>1. \A v \in Callers : Makes(request[v])' = Makes(request'[v])
    BY DEF Makes
  <2>2. \A v \in Callers : Once(request[v])' = Once(request'[v])
    BY DEF Once
  <2> QED
    BY <1>7, <1>8, <1>9, <2>1, <2>2 DEF NamesInv
<1> QED
  BY <1>1, <1>4, <1>5, <1>6, <1>10 DEF Inv, Ahead

\* What is left of the entries after the first.
LEMMA Rest ==
  ASSUME NEW S, NEW s \in Seq(S), s # <<>>
  PROVE  /\ Tail(s) \in Seq(S) /\ Head(s) = s[1] /\ 1 \in DOMAIN s /\ Head(s) \in S
         /\ \A n \in DOMAIN Tail(s) : n + 1 \in DOMAIN s /\ Tail(s)[n] = s[n + 1] /\ n + 1 # 1
                                      /\ n \in Nat
OBVIOUS

LEMMA TodoIds == ASSUME NEW s \in Seq(Entry) PROVE \A n \in DOMAIN s : s[n].id \in Resources
<1> SUFFICES ASSUME NEW n \in DOMAIN s PROVE s[n].id \in Resources
  OBVIOUS
<1>1. s[n] \in Entry
  OBVIOUS
<1> QED
  BY <1>1 DEF Entry

LEMMA RestMakes ==
  ASSUME NEW q \in Request, NEW p, q.todo # <<>>, p.op = q.op, p.todo = Tail(q.todo), Once(q)
  PROVE  /\ Makes(p) \subseteq Makes(q) /\ Once(p)
         /\ q.op = "create" => Head(q.todo).id \in Makes(q) \ Makes(p)
<1>1. q.todo \in Seq(Entry)
  BY DEF Request
<1>2. /\ Head(q.todo) = q.todo[1] /\ 1 \in DOMAIN q.todo
      /\ \A n \in DOMAIN p.todo : n + 1 \in DOMAIN q.todo /\ p.todo[n] = q.todo[n + 1] /\ n + 1 # 1
                                  /\ n \in Nat
  BY <1>1, Rest
<1>3. \A n, m \in DOMAIN p.todo : n + 1 = m + 1 => n = m
  BY <1>2
<1>4. CASE q.op = "create"
  <2>1. Makes(p) \subseteq Makes(q) /\ Head(q.todo).id \in Makes(q)
    BY <1>2, <1>4 DEF Makes
  <2>2. Head(q.todo).id \notin Makes(p)
    BY <1>2, <1>4 DEF Makes, Once
  <2>3. Once(p)
    BY <1>2, <1>3, <1>4 DEF Once
  <2> QED
    BY <2>1, <2>2, <2>3
<1>5. CASE q.op # "create"
  BY <1>5 DEF Makes, Once
<1> QED
  BY <1>4, <1>5

LEMMA RestSession ==
  ASSUME NEW q \in Request, q.todo # <<>>,
         \A n \in DOMAIN q.todo : /\ q.todo[n].id \notin Assemblies
                                  /\ q.op = "create" => q.todo[n].tags \in SUBSET Tags
  PROVE  /\ Tail(q.todo) \in Seq(Entry) /\ Head(q.todo) \in Entry
         /\ Head(q.todo).id \in Resources /\ Head(q.todo).id \notin Assemblies
         /\ q.op = "create" => Head(q.todo).tags \in SUBSET Tags
         /\ \A n \in DOMAIN Tail(q.todo) :
              /\ Tail(q.todo)[n].id \notin Assemblies
              /\ q.op = "create" => Tail(q.todo)[n].tags \in SUBSET Tags
<1>1. q.todo \in Seq(Entry)
  BY DEF Request
<1>2. /\ Head(q.todo) = q.todo[1] /\ 1 \in DOMAIN q.todo /\ Head(q.todo) \in Entry
      /\ Tail(q.todo) \in Seq(Entry)
      /\ \A n \in DOMAIN Tail(q.todo) : n + 1 \in DOMAIN q.todo /\ Tail(q.todo)[n] = q.todo[n + 1]
  BY <1>1, Rest
<1>3. Head(q.todo).id \in Resources
  BY <1>2 DEF Entry
<1> QED
  BY <1>2, <1>3

LEMMA OwnerTyped == ASSUME NEW c \in Callers PROVE OwnerFor(c) \in Users
BY KeysAssumption DEF OwnerFor, Callers

\* The rows a session loads are rows.
LEMMA LoadsRows ==
  ASSUME Inv, NEW c \in Callers, request[c].todo # <<>>, At(c, "load")
  PROVE  LET e == Head(request[c].todo) IN
         /\ Loaded(c, e.id) \in Row
         /\ request[c].op = "create" /\ ~ParentMissing(c, e) =>
              /\ NewItem(c, e) \in Row /\ NewItem(c, e).state = "live" /\ NewItem(c, e).version = 1
<1> DEFINE q == request[c]
           e == Head(q.todo)
<1>1. q \in Request /\ Session(q, View(c).row) /\ View(c).row \in [Resources -> Row]
  BY DEF Inv, Sound
<1>2. e \in Entry /\ e.id \in Resources /\ (q.op = "create" => e.tags \in SUBSET Tags)
  BY <1>1, RestSession DEF Session
<1>3. Loaded(c, e.id) \in Row
  BY <1>1, <1>2 DEF Loaded, Session
<1>4. ASSUME q.op = "create"
      PROVE  /\ NewItem(c, e) \in Row /\ NewItem(c, e).state = "live" /\ NewItem(c, e).version = 1
  <2>1. e.parent \in Items \cup {None}
    BY <1>2 DEF Entry
  <2>2. e.parent # None => View(c).row[e.parent].tags \in SUBSET Tags
    BY <1>1, <2>1 DEF Resources, Row
  <2>3. OwnerFor(c) \in Users
    BY OwnerTyped
  <2> QED
    BY <1>2, <1>4, <2>2, <2>3 DEF NewItem, Row
<1> QED
  BY <1>3, <1>4

LEMMA LoadMoves ==
  ASSUME Inv, NEW c \in Callers, LoadEntry(c)
  PROVE  Inv'
<1> DEFINE r == request[c]
           e == Head(r.todo)
           o == IF r.op = "create" THEN NewItem(c, e) ELSE Loaded(c, e.id)
           live == View(c).row[e.id].state = "live"
           seen == [r EXCEPT !.hand = IF live THEN o ELSE None, !.held = IF live THEN e.id ELSE None]
           next == [seen EXCEPT !.stage = "flush", !.hand = o, !.held = e.id]
           skip == [seen EXCEPT !.todo = Tail(@)]
           q == IF Passes(c, e) THEN next ELSE skip
<1>1. /\ At(c, "load") /\ r.todo # <<>> /\ request' = [request EXCEPT ![c] = q]
      /\ UNCHANGED <<row, past>>
  BY DEF LoadEntry, Continue
<1>2. r \in Request /\ Session(r, View(c).row) /\ r.stage = "load" /\ r.op \in Ops
  BY <1>1 DEF Inv, Session, At
<1>3. /\ Tail(r.todo) \in Seq(Entry) /\ e \in Entry /\ e.id \in Resources /\ e.id \notin Assemblies
      /\ r.op = "create" => e.tags \in SUBSET Tags
      /\ \A n \in DOMAIN Tail(r.todo) : /\ Tail(r.todo)[n].id \notin Assemblies
                                        /\ r.op = "create" => Tail(r.todo)[n].tags \in SUBSET Tags
  BY <1>1, <1>2, RestSession DEF Session
<1>4. Loaded(c, e.id) \in Row
  BY <1>1, LoadsRows
<1>5. live => r.op # "create"
  <2>1. r.todo \in Seq(Entry)
    BY <1>2 DEF Request
  <2>2. e = r.todo[1] /\ 1 \in DOMAIN r.todo
    BY <1>1, <2>1, Rest
  <2>3. r.op = "create" => New(e.id)
    BY <2>2 DEF Inv, NamesInv, Makes
  <2> QED
    BY <2>3 DEF New
<1>6. Passes(c, e) => o \in Row
  BY <1>1, <1>4, LoadsRows DEF Passes
<1>7. /\ Passes(c, e) /\ r.op = "create" => o.state = "live" /\ o.version = 1
      /\ Passes(c, e) /\ r.op = "update" => e.version \in {None, o.version} /\ live
      /\ Passes(c, e) /\ r.op = "delete" => live
  <2>1. Passes(c, e) /\ r.op = "create" => ~ParentMissing(c, e)
    BY DEF Passes
  <2>2. Passes(c, e) /\ r.op = "update" =>
          live /\ (ItemAccepts(c, o, e) \/ InstanceAccepts(c, o, e))
    BY DEF Passes
  <2>3. Passes(c, e) /\ r.op = "delete" => live
    BY DEF Passes
  <2> QED
    BY <1>1, <2>1, <2>2, <2>3, LoadsRows DEF ItemAccepts, InstanceAccepts
<1> HIDE DEF o
<1>8. live => o \in Row
  BY <1>4, <1>5 DEF o
<1> HIDE DEF live
<1> DEFINE Good == /\ q \in Request /\ q.draft = r.draft /\ Session(q, View(c).row)
                   /\ Makes(q) \subseteq Makes(r) /\ Once(q)
<1>9. ASSUME Passes(c, e) PROVE Good
  <2>1. /\ q \in Request /\ q.stage = "flush" /\ q.op = r.op /\ q.todo = r.todo /\ q.hand = o
        /\ q.draft = r.draft
    BY <1>2, <1>3, <1>6, <1>9 DEF Request
  <2>2. Session(q, View(c).row)
    <3>1. Ready(q, e, View(c).row)
      BY <1>2, <1>7, <1>9, <2>1 DEF Ready, Ops, live
    <3> HIDE DEF q
    <3> QED
      BY <1>1, <1>2, <1>6, <1>9, <2>1, <3>1 DEF Session
  <2>3. Makes(q) \subseteq Makes(r) /\ Once(q)
    <3>1. Once(r)
      BY DEF Inv, NamesInv
    <3> HIDE DEF q
    <3> QED
      BY <2>1, <3>1 DEF Makes, Once
  <2> HIDE DEF q
  <2> QED
    BY <2>1, <2>2, <2>3
<1>10. ASSUME ~Passes(c, e) PROVE Good
  <2>1. /\ q \in Request /\ q.stage = "load" /\ q.op = r.op /\ q.todo = Tail(r.todo)
        /\ q.hand \in {o, None} /\ q.draft = r.draft
        /\ live => q.hand = o
        /\ ~live => q.held = None
    BY <1>2, <1>3, <1>8, <1>10 DEF Request
  <2> HIDE DEF q
  <2>2. Session(q, View(c).row)
    BY <1>2, <1>3, <1>8, <2>1, TablesAssumption DEF Session
  <2>3. Makes(q) \subseteq Makes(r) /\ Once(q)
    BY <1>1, <1>2, <2>1, RestMakes DEF Inv, NamesInv
  <2> QED
    BY <1>1, <2>1, <2>2, <2>3
<1>11. Good
  BY <1>9, <1>10
<1> HIDE DEF q
<1>12. /\ q.draft = None => View(c).row = row /\ View(c).past = past
       /\ q.draft # None => View(c).row = q.draft.row /\ View(c).past = q.draft.past /\ LockFree(c)
  BY <1>11, Views DEF Inv, HasLock, LockFree
<1>13. Sound(View(c).row, View(c).past) /\ Ahead(View(c).row, View(c).past)
  BY DEF Inv
<1>14. \A id \in Makes(q) : /\ New(id) /\ View(c).row[id].state = "unborn"
                            /\ \A v \in Callers \ {c} : id \notin Makes(request[v])
  BY <1>11 DEF Inv, NamesInv, New
<1>15. \A v \in Callers \ {c} : \A id \in Makes(request[v]) : View(c).row[id].state = "unborn"
  BY DEF Inv, NamesInv, New
<1> QED
  BY <1>1, <1>11, <1>12, <1>13, <1>14, <1>15, Moves

\* A request that begins, or that is over, sees the tables as they are.
LEMMA IdleMoves ==
  ASSUME Inv, NEW c \in Callers, NEW q \in Request, request' = [request EXCEPT ![c] = q],
         UNCHANGED <<row, past>>, q.draft = None, Session(q, row), Once(q),
         \A id \in Makes(q) : New(id) /\ \A v \in Callers \ {c} : id \notin Makes(request[v])
  PROVE  Inv'
<1>1. Sound(row, past) /\ Ahead(row, past)
  BY DEF Inv, Ahead, Sound
<1>2. \A id : New(id) => row[id].state = "unborn"
  BY DEF New
<1>3. \A v \in Callers \ {c} : \A id \in Makes(request[v]) : row[id].state = "unborn"
  BY <1>2 DEF Inv, NamesInv
<1> QED
  BY <1>1, <1>2, <1>3, Moves

\* The entries of a body, as a request holds them.
LEMMA BodyEntries ==
  ASSUME NEW S, NEW s \in Seq(S), NEW f, DOMAIN f = DOMAIN s, f = [n \in DOMAIN s |-> f[n]],
         \A n \in DOMAIN s : f[n] \in Entry
  PROVE  f \in Seq(Entry)
<1>1. Len(s) \in Nat /\ DOMAIN s = 1..Len(s)
  OBVIOUS
<1> QED
  BY <1>1

LEMMA StartMoves ==
  ASSUME Inv, NEW c \in Callers, NEW op \in Ops, NEW entries \in Seq(Entry),
         Start(c, op, entries),
         \A n \in DOMAIN entries : /\ entries[n].id \notin Assemblies
                                   /\ op = "create" => /\ entries[n].tags \in SUBSET Tags
                                                       /\ Fresh(entries[n].id),
         op = "create" => \A n, m \in DOMAIN entries : entries[n].id = entries[m].id => n = m
  PROVE  Inv'
<1> DEFINE q == [Idle EXCEPT !.stage = "load", !.op = op, !.todo = entries]
<1>1. /\ q \in Request /\ q.stage = "load" /\ q.op = op /\ q.todo = entries
      /\ q.held = None /\ q.draft = None
  BY RowsTyped DEF Request, Ops
<1>2. At(c, "idle") /\ request' = [request EXCEPT ![c] = q] /\ UNCHANGED <<row, past>>
  BY DEF Start, Continue
<1> HIDE DEF q
<1>3. Session(q, row) /\ Once(q)
  BY <1>1, TablesAssumption DEF Session, Once
<1>4. row = View(c).row
  BY <1>2 DEF Inv, Session, At, View
<1>5. ASSUME NEW id \in Makes(q)
      PROVE  New(id) /\ \A v \in Callers \ {c} : id \notin Makes(request[v])
  <2>1. PICK n \in DOMAIN entries : id = entries[n].id /\ op = "create"
    BY <1>1 DEF Makes
  <2>2. Fresh(id)
    BY <2>1
  <2> QED
    BY <1>4, <2>2 DEF Fresh, New, Makes
<1> QED
  BY <1>1, <1>2, <1>3, <1>5, IdleMoves

LEMMA NamedEntries ==
  ASSUME NEW d \in Drafts, NEW Table \in {Items, Instances, Assemblies},
         NEW entries \in Named(d, Table)
  PROVE  /\ entries \in Seq(Entry)
         /\ \A n \in DOMAIN entries : /\ entries[n].id \in Table /\ Fresh(entries[n].id)
                                      /\ entries[n].tags \in SUBSET Tags
         /\ \A n, m \in DOMAIN entries : entries[n].id = entries[m].id => n = m
<1>1. d \in Seq(ItemDraft) /\ \A n \in DOMAIN d : d[n] \in ItemDraft
  BY BodiesAssumption
<1>2. PICK ids \in [DOMAIN d -> {id \in Table : Fresh(id)}] :
        /\ IsInjective(ids)
        /\ entries = [n \in DOMAIN d |-> [id |-> ids[n], version |-> None, tags |-> d[n].tags,
                                          parent |-> d[n].parent]]
  BY DEF Named
<1>3. Table \subseteq Resources
  BY DEF Resources
<1>4. DOMAIN entries = DOMAIN d /\ entries = [n \in DOMAIN d |-> entries[n]]
  BY <1>2
<1>5. ASSUME NEW n \in DOMAIN d
      PROVE  /\ entries[n] \in Entry /\ entries[n].id = ids[n]
             /\ entries[n].tags \in SUBSET Tags
  <2>1. ids[n] \in Resources
    BY <1>2, <1>3
  <2>2. d[n].tags \in SUBSET Tags /\ d[n].parent \in Items \cup {None}
    BY <1>1 DEF ItemDraft
  <2> QED
    BY <1>2, <2>1, <2>2 DEF Entry
<1>6. entries \in Seq(Entry)
  BY <1>1, <1>4, <1>5, BodyEntries
<1>7. \A n, m \in DOMAIN d : ids[n] = ids[m] => n = m
  BY <1>2 DEF IsInjective
<1> QED
  BY <1>2, <1>4, <1>5, <1>6, <1>7

LEMMA ChangeTyped ==
  ASSUME NEW S \in {ItemChange, InstanceChange, AssemblyChange}, NEW x \in S
  PROVE  /\ x.id \in Resources /\ x.version \in Nat \cup {None}
         /\ x.tags \in {None} \cup SUBSET Tags
<1>1. CASE x \in ItemChange
  BY <1>1 DEF ItemChange, Resources
<1>2. CASE x \in InstanceChange
  BY <1>2 DEF InstanceChange, Resources
<1>3. CASE x \in AssemblyChange
  BY <1>3 DEF AssemblyChange, Resources
<1> QED
  BY <1>1, <1>2, <1>3

LEMMA AcceptMoves ==
  ASSUME Inv, NEW c \in Callers, Accept(c)
  PROVE  Inv'
<1>1. ASSUME NEW d \in Drafts, CreateItems(c, d) \/ CreateInstances(c, d) PROVE Inv'
  <2>1. PICK Table \in {Items, Instances} :
          \E entries \in Named(d, Table) : Start(c, "create", entries)
    BY <1>1 DEF CreateItems, CreateInstances
  <2>2. PICK entries \in Named(d, Table) : Start(c, "create", entries)
    BY <2>1
  <2>3. Table \cap Assemblies = {}
    BY TablesAssumption
  <2>4. "create" \in Ops
    BY DEF Ops
  <2> QED
    BY <2>2, <2>3, <2>4, NamedEntries, StartMoves
<1>2. ASSUME NEW b \in Changes, UpdateItems(c, b) \/ UpdateInstances(c, b) PROVE Inv'
  <2> DEFINE f == [n \in DOMAIN b |-> [id |-> b[n].id, version |-> b[n].version,
                                       tags |-> b[n].tags, parent |-> None]]
  <2>1. Start(c, "update", f) /\ \A n \in DOMAIN b : b[n].id \in Items \cup Instances
    BY <1>2 DEF UpdateItems, UpdateInstances, UpdateRows
  <2>2. PICK S \in {ItemChange, InstanceChange, AssemblyChange} : b \in Seq(S)
    BY BodiesAssumption
  <2>3. ASSUME NEW n \in DOMAIN b PROVE f[n] \in Entry /\ f[n].id = b[n].id
    <3>1. b[n] \in S
      BY <2>2
    <3>2. /\ b[n].id \in Resources /\ b[n].version \in Nat \cup {None}
          /\ b[n].tags \in {None} \cup SUBSET Tags
      BY <3>1, ChangeTyped
    <3> QED
      BY <3>2 DEF Entry
  <2>4. DOMAIN f = DOMAIN b /\ f = [n \in DOMAIN b |-> f[n]]
    OBVIOUS
  <2> HIDE DEF f
  <2>5. f \in Seq(Entry)
    BY <2>2, <2>3, <2>4, BodyEntries
  <2>6. \A n \in DOMAIN f : f[n].id \notin Assemblies
    BY <2>1, <2>3, <2>4, TablesAssumption
  <2>7. "update" \in Ops /\ "update" # "create"
    BY DEF Ops
  <2> QED
    BY <2>1, <2>5, <2>6, <2>7, StartMoves
<1>3. ASSUME NEW d \in Doomed, DeleteItems(c, d) \/ DeleteInstances(c, d) PROVE Inv'
  <2> DEFINE f == [n \in DOMAIN d |-> [id |-> d[n], version |-> None, tags |-> None,
                                       parent |-> None]]
  <2>1. Start(c, "delete", f) /\ \A n \in DOMAIN d : d[n] \in Items \cup Instances
    BY <1>3 DEF DeleteItems, DeleteInstances, DeleteRows
  <2>2. PICK S \in {Items, Instances, Assemblies} : d \in Seq(S)
    BY BodiesAssumption
  <2>3. ASSUME NEW n \in DOMAIN d PROVE f[n] \in Entry /\ f[n].id = d[n]
    <3>1. d[n] \in Resources
      BY <2>1 DEF Resources
    <3> QED
      BY <3>1 DEF Entry
  <2>4. DOMAIN f = DOMAIN d /\ f = [n \in DOMAIN d |-> f[n]]
    OBVIOUS
  <2> HIDE DEF f
  <2>5. f \in Seq(Entry)
    BY <2>2, <2>3, <2>4, BodyEntries
  <2>6. \A n \in DOMAIN f : f[n].id \notin Assemblies
    BY <2>1, <2>3, <2>4, TablesAssumption
  <2>7. "delete" \in Ops /\ "delete" # "create"
    BY DEF Ops
  <2> QED
    BY <2>1, <2>5, <2>6, <2>7, StartMoves
<1> QED
  BY <1>1, <1>2, <1>3 DEF Accept

\* What the flush of an update makes of a row.
LEMMA ChangedTyped ==
  ASSUME NEW r \in Row, NEW loaded \in Row, NEW e \in Entry
  PROVE  /\ Changed(r, loaded, e) \in Row /\ Changed(r, loaded, e).state = r.state
         /\ Changed(r, loaded, e).version = loaded.version + 1
<1>1. loaded.version + 1 \in Nat /\ (e.tags # None => e.tags \in SUBSET Tags)
  BY DEF Row, Entry
<1> QED
  BY <1>1 DEF Changed, Row

LEMMA AcknowledgedTyped ==
  ASSUME NEW p \in Past, NEW r, NEW loaded, NEW e, NEW a, a = Acknowledged(p, r, loaded, e)
  PROVE  /\ a \in Past /\ a.updates = p.updates + 1
         /\ a.contended <=> (p.contended \/ r # loaded)
         /\ a.blind <=> (p.blind \/ e.version \notin {None, r.version})
<1>1. p.updates + 1 \in Nat /\ p.contended \in BOOLEAN /\ p.blind \in BOOLEAN
  BY DEF Past
<1> QED
  BY <1>1 DEF Acknowledged, Past

\* A view, and what a flush makes of it.
LEMMA ViewPair ==
  ASSUME Inv, NEW c \in Callers PROVE View(c) = [row |-> View(c).row, past |-> View(c).past]
<1>1. CASE request[c].draft = None
  BY <1>1 DEF View
<1>2. CASE request[c].draft # None
  <2>1. request[c].draft \in Draft
    BY <1>2 DEF Inv, Request
  <2> QED
    BY <1>2, <2>1 DEF View, Draft
<1> QED
  BY <1>1, <1>2

\* A table and its history after one of its rows changed.
LEMMA OneRow ==
  ASSUME NEW R, NEW P, Sound(R, P), NEW id \in Resources, NEW x \in Row, NEW p \in Past,
         SoundRow(id, x, p)
  PROVE  Sound([R EXCEPT ![id] = x], [P EXCEPT ![id] = p])
<1> DEFINE S == [R EXCEPT ![id] = x]
           Q == [P EXCEPT ![id] = p]
<1>1. S \in [Resources -> Row] /\ Q \in [Resources -> Past]
  BY DEF Sound
<1>2. \A r \in Resources : SoundRow(r, S[r], Q[r])
  BY DEF Sound
<1> QED
  BY <1>1, <1>2 DEF Sound

\* A transaction whose next flush writes one row.
LEMMA FlushMoves ==
  ASSUME Inv, NEW c \in Callers, At(c, "flush"), LockFree(c), UNCHANGED <<row, past>>,
         NEW x \in Row, NEW p \in Past, NEW hand \in Row,
         LET id == Head(request[c].todo).id IN
           /\ SoundRow(id, x, p) /\ x.state # "unborn"
           /\ row[id].state = "gone" => x = row[id] /\ p = past[id]
           /\ request' = [request EXCEPT ![c] =
                [request[c] EXCEPT !.stage = "load", !.todo = Tail(@), !.hand = hand,
                   !.draft = [row |-> [View(c).row EXCEPT ![id] = x],
                              past |-> [View(c).past EXCEPT ![id] = p]]]]
  PROVE  Inv'
<1> DEFINE r == request[c]
           id == Head(r.todo).id
           R == [View(c).row EXCEPT ![id] = x]
           P == [View(c).past EXCEPT ![id] = p]
           d == [row |-> R, past |-> P]
           q == [r EXCEPT !.stage = "load", !.todo = Tail(@), !.hand = hand, !.draft = d]
<1>1. r \in Request /\ r.todo # <<>> /\ r.op \in Ops /\ Session(r, View(c).row)
      /\ Ready(r, Head(r.todo), View(c).row)
  BY DEF Inv, Session, At
<1>2. /\ Tail(r.todo) \in Seq(Entry) /\ id \in Resources /\ id \notin Assemblies
      /\ \A n \in DOMAIN Tail(r.todo) : /\ Tail(r.todo)[n].id \notin Assemblies
                                        /\ r.op = "create" => Tail(r.todo)[n].tags \in SUBSET Tags
  BY <1>1, RestSession DEF Session
<1>3. Sound(R, P)
  BY <1>2, OneRow DEF Inv
<1>4. /\ R \in [Resources -> Row] /\ P \in [Resources -> Past]
      /\ R[id] = x /\ P[id] = p
      /\ \A i \in Resources \ {id} : R[i] = View(c).row[i] /\ P[i] = View(c).past[i]
  BY <1>2, <1>3 DEF Inv, Sound
<1> HIDE DEF R, P
<1>5. Ahead(R, P)
  BY <1>2, <1>4 DEF Inv, Ahead
<1>6. d \in Draft /\ d.row = R /\ d.past = P
  BY <1>4 DEF Draft
<1> HIDE DEF d
<1>7. /\ q \in Request /\ q.stage = "load" /\ q.op = r.op /\ q.todo = Tail(r.todo)
      /\ q.hand = hand /\ q.draft = d
  BY <1>1, <1>2, <1>6 DEF Request
<1>8. request' = [request EXCEPT ![c] = q]
  BY DEF d, R, P
<1> HIDE DEF q
<1>9. Session(q, R)
  BY <1>1, <1>2, <1>7 DEF Session
<1>10. Makes(q) \subseteq Makes(r) /\ Once(q) /\ (r.op = "create" => id \in Makes(r) \ Makes(q))
  BY <1>1, <1>7, RestMakes DEF Inv, NamesInv
<1>11. q.draft # None /\ q.draft.row = R /\ q.draft.past = P
  BY <1>6, <1>7, NoneAssumption
<1>12. \A i : New(i) => row[i].state = "unborn" /\ View(c).row[i].state = "unborn"
  BY DEF New
<1>13. \A i \in Makes(q) : i # id
  <2>1. r.op # "create" => Makes(q) = {}
    BY <1>7 DEF Makes
  <2> QED
    BY <1>10, <2>1
<1>14. \A i \in Makes(q) : i \in Resources
  <2>1. \A n \in DOMAIN q.todo : q.todo[n].id \in Resources
    BY <1>2, <1>7, TodoIds
  <2> QED
    BY <2>1 DEF Makes
<1>15. \A i \in Makes(q) : /\ New(i) /\ R[i].state = "unborn"
                           /\ \A v \in Callers \ {c} : i \notin Makes(request[v])
  BY <1>4, <1>10, <1>12, <1>13, <1>14 DEF Inv, NamesInv
<1>16. ASSUME NEW v \in Callers \ {c}, NEW i \in Makes(request[v]) PROVE R[i].state = "unborn"
  <2>1. New(i) /\ i \in Resources /\ i \notin Makes(r)
    <3>1. request[v].todo \in Seq(Entry)
      BY DEF Inv, Request
    <3>2. \A n \in DOMAIN request[v].todo : request[v].todo[n].id \in Resources
      BY <3>1, TodoIds
    <3>3. i \in Resources
      BY <3>2 DEF Makes
    <3> QED
      BY <3>3 DEF Inv, NamesInv
  <2>2. View(c).row[i].state = "unborn"
    BY <1>12, <2>1
  <2>3. i # id
    BY <1>1, <1>10, <2>1, <2>2 DEF Ready
  <2> QED
    BY <1>4, <2>1, <2>2, <2>3
<1>17. /\ q.draft = None => R = row /\ P = past
       /\ q.draft # None => R = q.draft.row /\ P = q.draft.past /\ LockFree(c)
  BY <1>11
<1>18. UNCHANGED <<row, past>>
  OBVIOUS
<1> HIDE DEF r, id
<1> QED
  BY <1>3, <1>5, <1>7, <1>8, <1>9, <1>10, <1>15, <1>16, <1>17, <1>18, Moves

LEMMA FlushEntryMoves ==
  ASSUME Inv, NEW c \in Callers, FlushEntry(c)
  PROVE  Inv'
<1> DEFINE r == request[c]
           e == Head(r.todo)
           id == e.id
           v == View(c)
<1>1. At(c, "flush") /\ LockFree(c) /\ UNCHANGED <<row, past>>
  BY DEF FlushEntry
<1>2. r \in Request /\ r.todo # <<>> /\ r.op \in Ops /\ r.hand \in Row /\ Ready(r, e, v.row)
  BY <1>1 DEF Inv, Session, At
<1>3. e \in Entry /\ id \in Resources /\ id \notin Assemblies
  BY <1>1, <1>2, RestSession DEF Inv, Session
<1>4. /\ v.row \in [Resources -> Row] /\ v.past \in [Resources -> Past]
      /\ v.row[id] \in Row /\ v.past[id] \in Past /\ SoundRow(id, v.row[id], v.past[id])
      /\ SoundRow(id, row[id], past[id])
      /\ row[id].state = "gone" => v.row[id] = row[id] /\ v.past[id] = past[id]
  BY <1>3 DEF Inv, Sound, Ahead
<1>5. CASE r.op = "create"
  <2> DEFINE x == r.hand
             p == v.past[id]
  <2>1. id \in Makes(r)
    <3>1. r.todo \in Seq(Entry)
      BY <1>2 DEF Request
    <3>2. e = r.todo[1] /\ 1 \in DOMAIN r.todo
      BY <1>2, <3>1, Rest
    <3> QED
      BY <1>5, <3>2 DEF Makes
  <2>2. row[id].state = "unborn" /\ v.row[id].state = "unborn"
    BY <2>1 DEF Inv, NamesInv, New
  <2>3. p = NoPast /\ x.state = "live" /\ x.version = 1
    BY <1>2, <1>4, <1>5, <2>2 DEF SoundRow, Ready
  <2>4. SoundRow(id, x, p)
    BY <2>3, RowsTyped DEF SoundRow
  <2>5. [v EXCEPT !.row[id] = r.hand] = [row |-> [v.row EXCEPT ![id] = x],
                                         past |-> [v.past EXCEPT ![id] = p]]
    <3>1. [v.past EXCEPT ![id] = p] = v.past
      BY <1>4
    <3>2. v = [row |-> v.row, past |-> v.past]
      BY ViewPair
    <3> QED
      BY <3>1, <3>2
  <2>6. request' = [request EXCEPT ![c] =
          [r EXCEPT !.stage = "load", !.todo = Tail(@), !.hand = r.hand,
             !.draft = [row |-> [v.row EXCEPT ![id] = x], past |-> [v.past EXCEPT ![id] = p]]]]
    BY <1>5, <2>5 DEF FlushEntry, Continue
  <2> QED
    BY <1>1, <1>2, <1>4, <2>2, <2>3, <2>4, <2>6, FlushMoves
<1>6. CASE r.op = "update"
  <2> DEFINE x == Changed(v.row[id], r.hand, e)
             p == Acknowledged(v.past[id], v.row[id], r.hand, e)
             hand == Changed(r.hand, r.hand, e)
  <2>1. v.row[id].state = "live"
    BY <1>6 DEF FlushEntry, RowMissing
  <2>2. x \in Row /\ x.state = "live" /\ x.version = r.hand.version + 1 /\ hand \in Row
    BY <1>2, <1>3, <1>4, <2>1, ChangedTyped
  <2>3. /\ p \in Past /\ p.updates = v.past[id].updates + 1
        /\ p.contended <=> (v.past[id].contended \/ v.row[id] # r.hand)
        /\ p.blind <=> (v.past[id].blind \/ e.version \notin {None, v.row[id].version})
    <3>1. v.past[id] \in Past
      BY <1>4
    <3> HIDE DEF v, id, e, r
    <3> QED
      BY <3>1, AcknowledgedTyped
  <2>4. request' = [request EXCEPT ![c] =
          [r EXCEPT !.stage = "load", !.todo = Tail(@), !.hand = hand,
             !.draft = [row |-> [v.row EXCEPT ![id] = x], past |-> [v.past EXCEPT ![id] = p]]]]
    BY <1>6 DEF FlushEntry, Continue
  <2> HIDE DEF x, p, hand
  <2>5. SoundRow(id, x, p)
    <3>1. v.past[id].updates \in Nat
      BY <1>4 DEF Past
    <3>2. ASSUME ~p.contended PROVE x.version = 1 + p.updates
      <4>1. ~v.past[id].contended /\ v.row[id] = r.hand
        BY <2>3, <3>2
      <4>2. v.row[id].version = 1 + v.past[id].updates
        BY <1>4, <2>1, <4>1 DEF SoundRow
      <4> QED
        BY <2>2, <2>3, <3>1, <4>1, <4>2
    <3>3. ~p.contended => ~p.blind
      BY <1>2, <1>3, <1>4, <1>6, <2>3 DEF SoundRow, Ready
    <3> QED
      BY <1>3, <2>2, <3>2, <3>3 DEF SoundRow
  <2>6. row[id].state # "gone"
    BY <1>4, <2>1
  <2> QED
    BY <1>1, <2>2, <2>3, <2>4, <2>5, <2>6, FlushMoves
<1>7. CASE r.op = "delete"
  <2>1. SoundRow(id, Gone, NoPast) /\ Gone \in Row /\ NoPast \in Past /\ Gone.state = "gone"
    BY <1>3, RowsTyped DEF SoundRow
  <2>2. row[id].state = "gone" => Gone = row[id] /\ NoPast = past[id]
    BY <1>4 DEF SoundRow
  <2>4. request' = [request EXCEPT ![c] =
          [r EXCEPT !.stage = "load", !.todo = Tail(@), !.hand = r.hand,
             !.draft = [row |-> [v.row EXCEPT ![id] = Gone],
                        past |-> [v.past EXCEPT ![id] = NoPast]]]]
    BY <1>7 DEF FlushEntry, Continue
  <2> QED
    BY <1>1, <1>2, <2>1, <2>2, <2>4, FlushMoves
<1> QED
  BY <1>2, <1>5, <1>6, <1>7 DEF Ops

LEMMA IdleSession ==
  ASSUME NEW R
  PROVE  Session(Idle, R) /\ Once(Idle) /\ Makes(Idle) = {} /\ Idle \in Request /\ Idle.draft = None
<1>1. Session(Idle, R)
  BY RowsTyped, TablesAssumption DEF Session
<1>2. Once(Idle) /\ Makes(Idle) = {}
  BY RowsTyped DEF Once, Makes
<1> QED
  BY <1>1, <1>2, RowsTyped

LEMMA FailFlushMoves ==
  ASSUME Inv, NEW c \in Callers, FailFlush(c)
  PROVE  Inv'
<1>1. request' = [request EXCEPT ![c] = Idle] /\ UNCHANGED <<row, past>>
  BY DEF FailFlush, Continue
<1> QED
  BY <1>1, IdleSession, IdleMoves

\* The tables change in one step, and no transaction is open after it.
LEMMA Commits ==
  ASSUME Inv, request' \in [Callers -> Request], Sound(row', past'),
         \A v \in Callers : request'[v] \in {request[v], Idle} /\ request'[v].draft = None,
         \A r \in Resources \ Assemblies :
           row[r].state # "unborn" => row'[r].state # "unborn",
         \A v \in Callers : \A id \in Makes(request'[v]) : row'[id].state = "unborn"
  PROVE  Inv'
<1>1. \A v \in Callers : View(v).row' = row' /\ View(v).past' = past'
  BY DEF View
<1>2. \A v \in Callers : Sound(View(v).row', View(v).past')
  BY <1>1
<1>3. \A v, d \in Callers : HasLock(v)' /\ HasLock(d)' => v = d
  BY DEF HasLock
<1>4. ASSUME NEW v \in Callers PROVE Session(request'[v], row') /\ Once(request'[v])
  <2>1. CASE request'[v] = Idle
    BY <2>1, IdleSession
  <2>2. CASE request'[v] = request[v]
    <3>1. Session(request[v], row) /\ Once(request[v])
      BY <2>2 DEF Inv, NamesInv, View
    <3>2. request[v].stage = "flush" =>
            Head(request[v].todo).id \in Resources \ Assemblies
      <4>1. request[v] \in Request
        BY DEF Inv
      <4> QED
        BY <3>1, <4>1, RestSession DEF Session
    <3> QED
      BY <2>2, <3>1, <3>2 DEF Session, Ready
  <2> QED
    BY <2>1, <2>2
<1>5. \A v \in Callers : \A r \in Resources :
        /\ row'[r].state = "gone" => View(v).row'[r] = row'[r] /\ View(v).past'[r] = past'[r]
        /\ row'[r].state = "live" => View(v).row'[r].state # "unborn"
  BY <1>1
<1>6. \A v \in Callers : \A id \in Makes(request'[v]) : New(id)'
  BY <1>1 DEF New
<1>7. \A v \in Callers : Makes(request'[v]) \subseteq Makes(request[v])
  BY IdleSession
<1>8. \A v, d \in Callers : v # d => Makes(request'[v]) \cap Makes(request'[d]) = {}
  BY <1>7 DEF Inv, NamesInv
<1>9. NamesInv'
  <2>1. \A v \in Callers : Makes(request[v])' = Makes(request'[v])
    BY DEF Makes
  <2>2. \A v \in Callers : Once(request[v])' = Once(request'[v])
    BY DEF Once
  <2> QED
    BY <1>4, <1>6, <1>8, <2>1, <2>2 DEF NamesInv
<1>10. \A v \in Callers : Session(request[v], View(v).row)'
  BY <1>1, <1>4 DEF Session, Ready
<1> QED
  BY <1>2, <1>3, <1>5, <1>9, <1>10 DEF Inv, Ahead, Sound

LEMMA AnswerMoves ==
  ASSUME Inv, NEW c \in Callers, Answer(c)
  PROVE  Inv'
<1>1. /\ row' = View(c).row /\ past' = View(c).past
      /\ request' = [request EXCEPT ![c] = Idle]
  BY DEF Answer, Continue
<1>2. CASE request[c].draft = None
  BY <1>1, <1>2, Views, IdleSession, IdleMoves
<1>3. CASE request[c].draft # None
  <2>1. \A v \in Callers \ {c} : request[v].draft = None
    BY <1>3 DEF Inv, HasLock
  <2>2. /\ request' \in [Callers -> Request]
        /\ \A v \in Callers : request'[v] \in {request[v], Idle} /\ request'[v].draft = None
    BY <1>1, <2>1, IdleSession DEF Inv
  <2>3. Sound(row', past')
    BY <1>1 DEF Inv
  <2>4. \A r \in Resources : row[r] \in Row
    BY DEF Inv, Sound
  <2>5. \A r \in Resources \ Assemblies :
          row[r].state # "unborn" => row'[r].state # "unborn"
    BY <1>1, <2>4 DEF Inv, Ahead, Row
  <2>6. ASSUME NEW v \in Callers, NEW id \in Makes(request'[v]) PROVE row'[id].state = "unborn"
    <3>1. v # c
      BY <1>1, <2>6, IdleSession DEF Inv
    <3>2. request'[v] = request[v]
      BY <1>1, <3>1 DEF Inv
    <3> QED
      BY <1>1, <2>6, <3>2 DEF Inv, NamesInv, New
  <2> QED
    BY <2>2, <2>3, <2>5, <2>6, Commits
<1> QED
  BY <1>2, <1>3

GoneStays ==
  \A r \in Resources : row[r].state = "gone" => row'[r] = row[r] /\ past'[r] = past[r]

\* The step of a coroutine: it writes rows of assemblies, between the transactions.
LEMMA LoopCommits ==
  ASSUME Inv, NobodyWrites, UNCHANGED request, Sound(row', past'),
         \A r \in Resources \ Assemblies : row'[r].state = row[r].state
  PROVE  Inv'
<1>1. \A v \in Callers : request'[v].draft = None /\ request'[v] \in {request[v], Idle}
  BY DEF NobodyWrites, HasLock
<1>2. ASSUME NEW v \in Callers, NEW id \in Makes(request'[v]) PROVE row'[id].state = "unborn"
  <2>1. request[v] \in Request /\ Session(request[v], View(v).row)
    BY DEF Inv
  <2>2. \A n \in DOMAIN request[v].todo : request[v].todo[n].id \in Resources \ Assemblies
    BY <2>1, TodoIds DEF Session, Request
  <2>3. id \in Resources \ Assemblies /\ id \in Makes(request[v])
    BY <2>2, <1>2 DEF Makes
  <2> QED
    BY <2>3 DEF Inv, NamesInv, New
<1>3. request' \in [Callers -> Request]
  BY DEF Inv
<1> QED
  BY <1>1, <1>2, <1>3, Commits

LEMMA CreateAssembliesMoves ==
  ASSUME Inv, NEW c \in Callers, NEW d \in Drafts, CreateAssemblies(c, d)
  PROVE  Inv' /\ GoneStays
<1>1. PICK entries \in Named(d, Assemblies) :
        LET made == {e \in ToSet(entries) : MayGive(c, e.tags)}
            new(r) == CHOOSE e \in made : e.id = r IN
        row' = [r \in Resources |->
                  IF \E e \in made : e.id = r
                    THEN [state |-> "live", owner |-> OwnerFor(c), tags |-> new(r).tags, version |-> 1]
                    ELSE row[r]]
  BY DEF CreateAssemblies
<1> DEFINE made == {e \in ToSet(entries) : MayGive(c, e.tags)}
           new(r) == CHOOSE e \in made : e.id = r
<1>2. NobodyWrites /\ UNCHANGED <<past, request>>
  BY DEF CreateAssemblies
<1>3. \A e \in made : e.id \in Assemblies /\ Fresh(e.id) /\ e.tags \in SUBSET Tags
  BY NamedEntries DEF ToSet
<1>4. \A id : Fresh(id) => row[id].state = "unborn"
  BY <1>2 DEF Fresh, NobodyWrites, HasLock, View
<1>5. /\ row \in [Resources -> Row] /\ past \in [Resources -> Past]
      /\ \A r \in Resources : SoundRow(r, row[r], past[r])
  BY DEF Inv, Sound
<1>6. ASSUME NEW r \in Resources
      PROVE  /\ row'[r] \in Row /\ SoundRow(r, row'[r], past'[r])
             /\ r \notin Assemblies \/ row[r].state # "unborn" => row'[r] = row[r]
  <2>1. CASE \E e \in made : e.id = r
    <3>1. new(r) \in made /\ new(r).id = r
      BY <2>1
    <3>2. row'[r] = [state |-> "live", owner |-> OwnerFor(c), tags |-> new(r).tags, version |-> 1]
      BY <1>1, <2>1
    <3>3. row[r].state = "unborn" /\ r \in Assemblies /\ new(r).tags \in SUBSET Tags
      BY <1>3, <1>4, <3>1
    <3> HIDE DEF new, made
    <3>4. row'[r] \in Row /\ row'[r].state = "live" /\ row'[r].version = 1
      BY <3>2, <3>3, OwnerTyped DEF Row
    <3>5. past'[r] = NoPast
      BY <1>2, <1>5, <3>3 DEF SoundRow
    <3> QED
      BY <3>3, <3>4, <3>5, RowsTyped DEF SoundRow
  <2>2. CASE ~ \E e \in made : e.id = r
    <3>1. row'[r] = row[r]
      BY <1>1, <2>2
    <3> QED
      BY <1>2, <1>5, <3>1
  <2> QED
    BY <2>1, <2>2
<1>7. row' = [r \in Resources |-> row'[r]]
  BY <1>1
<1> HIDE DEF made, new
<1>8. Sound(row', past')
  BY <1>2, <1>5, <1>6, <1>7 DEF Sound
<1>9. GoneStays
  BY <1>2, <1>6 DEF GoneStays
<1> QED
  BY <1>2, <1>6, <1>8, <1>9, LoopCommits

LEMMA DeleteAssembliesMoves ==
  ASSUME Inv, NEW c \in Callers, NEW d \in Doomed, DeleteAssemblies(c, d)
  PROVE  Inv' /\ GoneStays
<1> DEFINE dead == {r \in ToSet(d) : AssemblyDeletable(c, row[r])}
<1>1. /\ NobodyWrites /\ UNCHANGED request /\ \A n \in DOMAIN d : d[n] \in Assemblies
      /\ row' = [r \in Resources |-> IF r \in dead THEN Gone ELSE row[r]]
      /\ past' = [r \in Resources |-> IF r \in dead THEN NoPast ELSE past[r]]
  BY DEF DeleteAssemblies
<1>2. dead \subseteq Assemblies /\ \A r \in dead : row[r].state = "live"
  BY <1>1 DEF ToSet, AssemblyDeletable, Found
<1> HIDE DEF dead
<1>3. /\ row \in [Resources -> Row] /\ past \in [Resources -> Past]
      /\ \A r \in Resources : SoundRow(r, row[r], past[r])
  BY DEF Inv, Sound
<1>4. \A r : SoundRow(r, Gone, NoPast)
  BY RowsTyped DEF SoundRow
<1>5. Sound(row', past')
  BY <1>1, <1>3, <1>4, RowsTyped DEF Sound
<1>6. \A r \in Resources \ Assemblies : row'[r].state = row[r].state
  BY <1>1, <1>2
<1>7. GoneStays
  BY <1>1, <1>2 DEF GoneStays
<1> QED
  BY <1>1, <1>5, <1>6, <1>7, LoopCommits

LEMMA Less == IsWellFoundedOn({p \in Nat \X Nat : p[1] < p[2]}, Nat)
BY NatLessThanWellFounded DEF OpToRel

LEMMA Least == ASSUME NEW T, T \subseteq Nat, T # {} PROVE \E x \in T : \A y \in T : x <= y
<1> DEFINE L == {p \in Nat \X Nat : p[1] < p[2]}
<1>1. IsWellFoundedOn(L, Nat)
  BY Less
<1> HIDE DEF L
<1>2. PICK x \in T : \A y \in T : ~ (<<y, x>> \in L)
  BY <1>1, WFMin
<1>3. ASSUME NEW y \in T PROVE x <= y
  <2>1. x \in Nat /\ y \in Nat /\ <<y, x>> \notin L
    BY <1>2
  <2>2. <<y, x>> \in Nat \X Nat /\ <<y, x>>[1] = y /\ <<y, x>>[2] = x
    BY <2>1
  <2>3. ~(y < x)
    BY <2>1, <2>2 DEF L
  <2> QED
    BY <2>1, <2>3
<1> QED
  BY <1>3

\* A set of positions has a last one.
LEMMA Greatest ==
  ASSUME NEW k \in Nat, NEW T, T \subseteq 1..k, T # {} PROVE \E x \in T : \A y \in T : y <= x
<1> DEFINE U == {u \in 1..k : \A y \in T : y <= u}
<1>1. k \in U /\ U \subseteq Nat /\ U # {}
  <2>1. PICK y \in T : y \in 1..k
    OBVIOUS
  <2>2. k \in 1..k /\ \A z \in 1..k : z <= k
    BY <2>1
  <2> QED
    BY <2>2
<1>2. PICK u \in U : \A w \in U : u <= w
  <2> HIDE DEF U
  <2> QED
    BY <1>1, Least
<1>3. CASE u \in T
  BY <1>3
<1>4. CASE u \notin T
  <2>1. \A y \in T : y \in Nat /\ y >= 1 /\ y <= u /\ y # u
    BY <1>2, <1>4
  <2>2. u \in Nat /\ u <= k /\ \A y \in T : y <= u - 1
    BY <1>2, <2>1
  <2>3. PICK y \in T : y \in Nat /\ y >= 1 /\ y <= u - 1
    BY <2>1, <2>2
  <2>4. u - 1 \in 1..k
    BY <2>2, <2>3
  <2>5. u - 1 \in U
    BY <2>2, <2>4
  <2>6. u <= u - 1
    BY <1>2, <2>5
  <2> QED
    BY <2>2, <2>6
<1> QED
  BY <1>3, <1>4

\* A row, and its history, after k updates that were applied one after the other.
LEMMA RowAfter ==
  ASSUME NEW x \in Row, NEW k \in Nat, NEW t \in SUBSET Tags, NEW y,
         y = [state |-> x.state, owner |-> x.owner, tags |-> t, version |-> x.version + k]
  PROVE  /\ y \in Row /\ y.state = x.state /\ y.version = x.version + k
         /\ k = 0 /\ t = x.tags => y = x
<1>1. x.version + k \in Nat /\ (k = 0 => x.version + k = x.version)
  BY DEF Row
<1> QED
  BY <1>1 DEF Row

LEMMA PastAfter ==
  ASSUME NEW x \in Past, NEW k \in Nat, NEW y,
         y = [updates |-> x.updates + k, contended |-> x.contended, blind |-> x.blind \/ k > 1]
  PROVE  /\ y \in Past /\ y.contended = x.contended /\ y.updates = x.updates + k
         /\ k = 0 => y = x
<1>1. x.updates + k \in Nat /\ (k = 0 => x.updates + k = x.updates)
  BY DEF Past
<1>2. PICK b \in BOOLEAN : b = (x.blind \/ k > 1)
  OBVIOUS
<1>3. x.blind \in BOOLEAN
  BY DEF Past
<1>4. k = 0 => b = x.blind
  BY <1>2, <1>3
<1>5. y = [updates |-> x.updates + k, contended |-> x.contended, blind |-> b]
  BY <1>2
<1> QED
  BY <1>1, <1>4, <1>5 DEF Past

LEMMA UpdateAssembliesMoves ==
  ASSUME Inv, NEW c \in Callers, NEW b \in Changes, UpdateAssemblies(c, b)
  PROVE  Inv' /\ GoneStays
<1> DEFINE passed(r) == {n \in DOMAIN b : b[n].id = r /\ AssemblyAccepts(c, row[r], b[n])}
           retags(r) == {n \in passed(r) : b[n].tags # None}
           last(r) == CHOOSE n \in retags(r) : \A m \in retags(r) : m <= n
           count(r) == Cardinality(passed(r))
           tagged(r) == IF retags(r) = {} THEN row[r].tags ELSE b[last(r)].tags
<1>1. /\ NobodyWrites /\ UNCHANGED request
      /\ \A n \in DOMAIN b : b[n].id \in Assemblies
      /\ row' = [r \in Resources |-> [row[r] EXCEPT !.version = @ + count(r), !.tags = tagged(r)]]
      /\ past' = [r \in Resources |-> [past[r] EXCEPT !.updates = @ + count(r),
                                                      !.blind = @ \/ count(r) > 1]]
  BY DEF UpdateAssemblies
<1>2. PICK S \in {ItemChange, InstanceChange, AssemblyChange} : b \in Seq(S)
  BY BodiesAssumption
<1>3. DOMAIN b = 1..Len(b) /\ Len(b) \in Nat /\ \A n \in DOMAIN b : b[n] \in S
  BY <1>2
<1>4. \A r : passed(r) \subseteq 1..Len(b) /\ retags(r) \subseteq passed(r)
  BY <1>3
<1>5. \A r : passed(r) # {} => r \in Assemblies /\ row[r].state = "live"
  BY <1>1 DEF AssemblyAccepts, Found
<1>6. \A r : \A n \in retags(r) : b[n].tags \in SUBSET Tags
  <2>1. \A n \in DOMAIN b : b[n].tags \in {None} \cup SUBSET Tags
    BY <1>3, ChangeTyped
  <2> QED
    BY <2>1
<1> HIDE DEF passed
<1>7. ASSUME NEW r PROVE count(r) \in Nat /\ (count(r) = 0 <=> passed(r) = {})
  <2>1. IsFiniteSet(1..Len(b))
    BY <1>3, FS_Interval
  <2>2. IsFiniteSet(passed(r))
    BY <1>4, <2>1, FS_Subset
  <2> QED
    BY <2>2, FS_CardinalityType, FS_EmptySet
<1>8. ASSUME NEW r \in Resources PROVE tagged(r) \in SUBSET Tags
  <2>1. CASE retags(r) = {}
    BY <2>1 DEF Inv, Sound, Row
  <2>2. CASE retags(r) # {}
    <3>1. \E n \in retags(r) : \A m \in retags(r) : m <= n
      <4>1. retags(r) \subseteq 1..Len(b)
        BY <1>4
      <4> HIDE DEF retags
      <4> QED
        BY <1>3, <2>2, <4>1, Greatest
    <3>2. last(r) \in retags(r)
      BY <3>1
    <3> HIDE DEF last, retags
    <3> QED
      BY <1>6, <2>2, <3>2
  <2> QED
    BY <2>1, <2>2
<1>9. \A r : passed(r) = {} => tagged(r) = row[r].tags
  BY DEF tagged
<1>10. /\ row \in [Resources -> Row] /\ past \in [Resources -> Past]
       /\ \A r \in Resources : SoundRow(r, row[r], past[r])
  BY DEF Inv, Sound
<1> HIDE DEF count, tagged
<1>11. ASSUME NEW r \in Resources
       PROVE  /\ row'[r] \in Row /\ past'[r] \in Past /\ SoundRow(r, row'[r], past'[r])
              /\ row'[r].state = row[r].state
              /\ row[r].state = "gone" => row'[r] = row[r] /\ past'[r] = past[r]
  <2>1. row[r] \in Row /\ past[r] \in Past /\ SoundRow(r, row[r], past[r])
    BY <1>10
  <2>2. /\ row'[r] = [row[r] EXCEPT !.version = @ + count(r), !.tags = tagged(r)]
        /\ past'[r] = [past[r] EXCEPT !.updates = @ + count(r), !.blind = @ \/ count(r) > 1]
    BY <1>1
  <2>3. /\ row'[r] \in Row /\ row'[r].state = row[r].state
        /\ row'[r].version = row[r].version + count(r)
        /\ count(r) = 0 /\ tagged(r) = row[r].tags => row'[r] = row[r]
    <3>1. PICK k : k = count(r)
      OBVIOUS
    <3>2. PICK t : t = tagged(r)
      OBVIOUS
    <3>3. PICK x : x = row[r]
      OBVIOUS
    <3>4. PICK y : y = row'[r]
      OBVIOUS
    <3>5. x \in Row /\ k \in Nat /\ t \in SUBSET Tags
      BY <1>7, <1>8, <2>1, <3>1, <3>2, <3>3
    <3>6. y = [state |-> x.state, owner |-> x.owner, tags |-> t, version |-> x.version + k]
      <4>1. y = [x EXCEPT !.version = @ + k, !.tags = t]
        BY <2>2, <3>1, <3>2, <3>3, <3>4
      <4> QED
        BY <3>5, <4>1 DEF Row
    <3>7. /\ y \in Row /\ y.state = x.state /\ y.version = x.version + k
          /\ k = 0 /\ t = x.tags => y = x
      BY <3>5, <3>6, RowAfter
    <3> QED
      BY <3>1, <3>2, <3>3, <3>4, <3>7
  <2>4. /\ past'[r] \in Past /\ past'[r].contended = past[r].contended
        /\ past'[r].updates = past[r].updates + count(r)
        /\ count(r) = 0 => past'[r] = past[r]
    <3>1. PICK k : k = count(r)
      OBVIOUS
    <3>2. PICK x : x = past[r]
      OBVIOUS
    <3>3. PICK y : y = past'[r]
      OBVIOUS
    <3>4. x \in Past /\ k \in Nat
      BY <1>7, <2>1, <3>1, <3>2
    <3>5. y = [updates |-> x.updates + k, contended |-> x.contended, blind |-> x.blind \/ k > 1]
      <4>1. y = [x EXCEPT !.updates = @ + k, !.blind = @ \/ k > 1]
        BY <2>2, <3>1, <3>2, <3>3
      <4> QED
        BY <3>4, <4>1 DEF Past
    <3>6. /\ y \in Past /\ y.contended = x.contended /\ y.updates = x.updates + k
          /\ k = 0 => y = x
      BY <3>4, <3>5, PastAfter
    <3> QED
      BY <3>1, <3>2, <3>3, <3>6
  <2>5. CASE passed(r) = {}
    BY <1>7, <1>9, <2>1, <2>3, <2>4, <2>5
  <2>6. CASE passed(r) # {}
    <3>1. r \in Assemblies /\ row[r].state = "live" /\ ~past[r].contended
      BY <1>5, <2>1, <2>6 DEF SoundRow
    <3>2. row[r].version = 1 + past[r].updates /\ past[r].updates \in Nat /\ count(r) \in Nat
      BY <1>7, <2>1, <3>1 DEF SoundRow, Past
    <3>3. row'[r].version = 1 + past'[r].updates
      BY <2>3, <2>4, <3>2
    <3> QED
      BY <2>3, <2>4, <3>1, <3>3 DEF SoundRow
  <2> HIDE DEF passed
  <2> QED
    BY <2>3, <2>4, <2>5, <2>6
<1>12. row' = [r \in Resources |-> row'[r]] /\ past' = [r \in Resources |-> past'[r]]
  BY <1>1
<1>13. Sound(row', past')
  BY <1>11, <1>12 DEF Sound
<1>14. GoneStays
  BY <1>11 DEF GoneStays
<1> QED
  BY <1>1, <1>11, <1>13, <1>14, LoopCommits

LEMMA InitInv == Init => Inv
<1> SUFFICES ASSUME Init PROVE Inv
  OBVIOUS
<1>1. /\ request \in [Callers -> Request] /\ row \in [Resources -> Row]
      /\ past \in [Resources -> Past]
      /\ \A c \in Callers : request[c] = Idle
      /\ \A r \in Resources : row[r] = Unborn /\ past[r] = NoPast
  BY RowsTyped DEF Init
<1>2. \A c \in Callers : request[c].draft = None /\ View(c).row = row /\ View(c).past = past
  BY <1>1, IdleSession, Views
<1>3. Sound(row, past)
  BY <1>1, RowsTyped DEF Sound, SoundRow
<1>4. Ahead(row, past)
  BY <1>1, RowsTyped DEF Ahead
<1>5. \A c \in Callers : Session(request[c], row) /\ Once(request[c]) /\ Makes(request[c]) = {}
  BY <1>1, IdleSession
<1>6. NamesInv
  BY <1>5 DEF NamesInv
<1>7. \A c, d \in Callers : HasLock(c) /\ HasLock(d) => c = d
  BY <1>2 DEF HasLock
<1> QED
  BY <1>1, <1>2, <1>3, <1>4, <1>5, <1>6, <1>7 DEF Inv

\* Of the steps of the thread pool only a commit writes the tables.
LEMMA PoolGone ==
  ASSUME Inv, NEW c \in Callers, Accept(c) \/ Step(c)
  PROVE  GoneStays
<1>1. CASE Accept(c)
  BY <1>1 DEF Accept, CreateItems, CreateInstances, UpdateItems, UpdateInstances, UpdateRows,
              DeleteItems, DeleteInstances, DeleteRows, Start, GoneStays
<1>2. CASE LoadEntry(c) \/ FlushEntry(c) \/ FailFlush(c)
  BY <1>2 DEF LoadEntry, FlushEntry, FailFlush, GoneStays
<1>3. CASE Answer(c)
  BY <1>3 DEF Answer, GoneStays, Inv, Ahead
<1> QED
  BY <1>1, <1>2, <1>3 DEF Step

LEMMA NextInv == Inv /\ [Next]_vars => Inv' /\ GoneStays
<1> SUFFICES ASSUME Inv, [Next]_vars PROVE Inv' /\ GoneStays
  OBVIOUS
<1>1. ASSUME NEW c \in Callers, NEW d \in Drafts, CreateAssemblies(c, d)
      PROVE  Inv' /\ GoneStays
  BY <1>1, CreateAssembliesMoves
<1>2. ASSUME NEW c \in Callers, NEW b \in Changes, UpdateAssemblies(c, b)
      PROVE  Inv' /\ GoneStays
  BY <1>2, UpdateAssembliesMoves
<1>3. ASSUME NEW c \in Callers, NEW d \in Doomed, DeleteAssemblies(c, d)
      PROVE  Inv' /\ GoneStays
  BY <1>3, DeleteAssembliesMoves
<1>4. ASSUME NEW c \in Callers, Accept(c) \/ Step(c) PROVE Inv' /\ GoneStays
  BY <1>4, AcceptMoves, LoadMoves, FlushEntryMoves, FailFlushMoves, AnswerMoves, PoolGone DEF Step
<1>5. CASE UNCHANGED vars
  <2>1. UNCHANGED <<row, past, request>>
    BY <1>5 DEF vars
  <2>2. \A c \in Callers : View(c)' = View(c) /\ HasLock(c)' = HasLock(c)
    BY <2>1 DEF View, HasLock
  <2>3. NamesInv'
    <3>1. \A id : New(id) => New(id)'
      BY <2>1, <2>2 DEF New
    <3>2. \A c \in Callers : Makes(request[c])' = Makes(request[c]) /\ (Once(request[c])' <=> Once(request[c]))
      BY <2>1 DEF Makes, Once
    <3> QED
      BY <3>1, <3>2 DEF Inv, NamesInv
  <2>4. Inv'
    <3>1. Sound(row, past)' <=> Sound(row, past)
      BY <2>1 DEF Sound, SoundRow
    <3>2. \A c \in Callers : /\ Sound(View(c).row, View(c).past)'
                            /\ Ahead(View(c).row, View(c).past)'
      BY <2>1, <2>2 DEF Inv, Sound, SoundRow, Ahead
    <3>3. \A c \in Callers : Session(request[c], View(c).row)'
      BY <2>1, <2>2 DEF Inv, Session, Ready
    <3> QED
      BY <2>1, <2>2, <2>3, <3>1, <3>2, <3>3 DEF Inv
  <2> QED
    BY <2>1, <2>4 DEF GoneStays
<1> QED
  BY <1>1, <1>2, <1>3, <1>4, <1>5 DEF Next, Loop

\* The invariant holds in every state of the bulk doors.
THEOREM Invariance == Spec => []Inv
BY InitInv, NextInv, PTL DEF Spec

\* The rows, their history and the sessions keep their types.
THEOREM TypeCorrect == Spec => []TypeOK
<1>1. Inv => TypeOK
  BY DEF Inv, Sound, TypeOK
<1> QED
  BY <1>1, Invariance, PTL

\* A row's version counts its acknowledged updates unless one of them overwrote a row that
\* had changed under it, and an assembly is never overwritten so.
THEOREM VersionsCount == Spec => []VersionCountsUpdates
<1>1. Inv => VersionCountsUpdates
  BY DEF Inv, Sound, SoundRow, VersionCountsUpdates
<1> QED
  BY <1>1, Invariance, PTL

\* Where no row was overwritten so, no update of an item or an instance replaced a version
\* other than the one it named.
THEOREM ClaimsHold == Spec => []ClaimsAreCurrent
<1>1. Inv => ClaimsAreCurrent
  BY TablesAssumption DEF Inv, Sound, SoundRow, ClaimsAreCurrent, Resources
<1> QED
  BY <1>1, Invariance, PTL

\* No step changes a deleted row or its history: an update that loaded it before the delete
\* is never acknowledged, and a transaction that was open over the delete keeps it.
THEOREM DeletesAreFinal == Spec => DeletedStaysDeleted
<1>1. Inv /\ [Next]_vars => [\A r \in Resources :
         row[r].state = "gone" => row'[r] = row[r] /\ past'[r] = past[r]]_vars
  BY NextInv DEF GoneStays
<1> QED
  BY <1>1, Invariance, PTL DEF Spec, DeletedStaysDeleted

\* A row that a list door shows a caller is one that the get door of its table lets it read.
THEOREM ListedIsReadable == Spec => []ListedCanBeRead
<1>1. ASSUME NEW c \in Callers, NEW r, Shares(c, r) PROVE TagDependency(c, r)
  BY <1>1 DEF Shares, TagDependency, TagAccess
<1>2. ListedCanBeRead
  BY <1>1 DEF ListedCanBeRead, ListedItems, ListedInstances, ListedAssemblies, ReadsItem,
              ReadsInstance, ReadsAssembly
<1> QED
  BY <1>2, PTL
=============================================================================
