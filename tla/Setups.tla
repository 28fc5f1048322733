------------------------------- MODULE Setups -------------------------------
(***************************************************************************)
(* Setups: which tool set is active on which machine                       *)
(* (api/machine_set_maps.py, delete_set of api/tool_set_records.py), for   *)
(* one account and any number of requests at once.                         *)
(*                                                                         *)
(* A handler loads its row, and each audit row it writes commits what it   *)
(* has done so far, so replacing a setup takes two commits.  The proposals *)
(* activate opens at its end are the business of MachineTable.             *)
(***************************************************************************)
EXTENDS Naturals

CONSTANTS
  Maps,      \* ids of machine_set_maps rows
  Machines,  \* machine ids
  ToolSets,  \* ids of tool_set_records rows
  Workers,   \* threads that serve requests
  Nil        \* the SQL NULL

ASSUME NilAssumption == Nil \notin Maps \cup Machines \cup ToolSets

VARIABLES
  setup,    \* machine_set_maps
  toolsets, \* the tool sets that exist
  request   \* what each worker's session holds between two steps

setupVars == <<setup, toolsets, request>>

Unborn == [machine |-> Nil, set |-> Nil, status |-> "unborn"]

SetupRequest ==
  [stage   : {"idle", "switch", "insert", "end"},
   machine : Machines \cup {Nil},
   set     : ToolSets \cup {Nil},
   map     : Maps \cup {Nil}]   \* the active row as it was loaded

Idle == [stage |-> "idle", machine |-> Nil, set |-> Nil, map |-> Nil]

SetupsTypeOK ==
  /\ setup \in [Maps -> [machine : Machines \cup {Nil}, set : ToolSets \cup {Nil},
                         status : {"unborn", "active", "ended"}]]
  /\ toolsets \in SUBSET ToolSets
  /\ request \in [Workers -> SetupRequest]

SetupsInit ==
  /\ setup = [m \in Maps |-> Unborn]
  /\ toolsets = {}
  /\ request = [w \in Workers |-> Idle]

-----------------------------------------------------------------------------

\* active_map_for_machine
ActiveOn(c) == {m \in Maps : setup[m].status = "active" /\ setup[m].machine = c}

\* Mutant of IndexAllows: "one active" as a convention of activate alone.
IndexMissing(c) == TRUE

\* The partial unique index uq_active_map_per_machine.
IndexAllows(c) == ActiveOn(c) = {}

\* _end, for a row loaded while it was active.
Ended(r) == [r EXCEPT !.status = "ended"]

At(w, stage) == request[w].stage = stage
Continue(w, r) == request' = [request EXCEPT ![w] = r]

\* create_set takes a new uuid: one that nothing remembers.
CreateToolSet(w, s) ==
  /\ At(w, "idle")
  /\ s \notin toolsets
  /\ \A m \in Maps : setup[m].set # s
  /\ \A v \in Workers : request[v].set # s
  /\ toolsets' = toolsets \cup {s}
  /\ UNCHANGED <<setup, request>>

\* DELETE of a set looks at no setup, and SQLite enforces no foreign key.
DeleteToolSet(w, s) ==
  /\ At(w, "idle")
  /\ s \in toolsets
  /\ toolsets' = toolsets \ {s}
  /\ UNCHANGED <<setup, request>>

\* activate up to its first write; the set that is active already is a no-op.
StartActivate(w, c, s) ==
  /\ At(w, "idle")
  /\ s \in toolsets
  /\ \/ /\ ActiveOn(c) = {}
        /\ Continue(w, [Idle EXCEPT !.stage = "insert", !.machine = c, !.set = s])
     \/ \E m \in ActiveOn(c) :
          /\ setup[m].set # s
          /\ Continue(w, [stage |-> "switch", machine |-> c, set |-> s, map |-> m])
  /\ UNCHANGED <<setup, toolsets>>

\* The END audit row commits the end of the prior setup.
EndPrior(w) ==
  LET m == request[w].map IN
  /\ At(w, "switch")
  /\ setup' = [setup EXCEPT ![m] = Ended(@)]
  /\ Continue(w, [request[w] EXCEPT !.stage = "insert", !.map = Nil])
  /\ UNCHANGED toolsets

\* The flush inserts the new row or raises; the ACTIVATE audit row commits it.
InsertActive(w) ==
  LET r == request[w] IN
  /\ At(w, "insert")
  /\ IndexAllows(r.machine)
  /\ \E m \in Maps :
       /\ setup[m] = Unborn
       /\ setup' = [setup EXCEPT ![m] = [machine |-> r.machine, set |-> r.set,
                                         status |-> "active"]]
  /\ Continue(w, Idle)
  /\ UNCHANGED toolsets

Endable(m) == setup[m].status = "active"

StartEnd(w, m) ==
  /\ At(w, "idle")
  /\ Endable(m)
  /\ Continue(w, [Idle EXCEPT !.stage = "end", !.map = m])
  /\ UNCHANGED <<setup, toolsets>>

\* The row of an ended setup is returned as it is.
EndAgain(w, m) ==
  /\ At(w, "idle")
  /\ setup[m].status = "ended"
  /\ UNCHANGED setupVars

FinishEnd(w) ==
  LET m == request[w].map IN
  /\ At(w, "end")
  /\ setup' = [setup EXCEPT ![m] = Ended(@)]
  /\ Continue(w, Idle)
  /\ UNCHANGED toolsets

\* The process dies or the handler raises; what was committed stays.
Abandon(w) ==
  /\ ~At(w, "idle")
  /\ Continue(w, Idle)
  /\ UNCHANGED <<setup, toolsets>>

Serve(w) ==
  \/ \E s \in ToolSets : CreateToolSet(w, s) \/ DeleteToolSet(w, s)
  \/ \E c \in Machines, s \in ToolSets : StartActivate(w, c, s)
  \/ \E m \in Maps : StartEnd(w, m) \/ EndAgain(w, m)
  \/ EndPrior(w) \/ InsertActive(w) \/ FinishEnd(w) \/ Abandon(w)

SetupsNext == \E w \in Workers : Serve(w)

SetupsSpec == SetupsInit /\ [][SetupsNext]_setupVars

-----------------------------------------------------------------------------
(* What holds however many requests run at once. *)

\* A machine never has two active setups, whatever activations race with stale
\* knowledge of the current one (database/schema.py:326-328).
OneActive ==
  \A m, n \in Maps :
    setup[m].status = "active" /\ setup[n].status = "active" /\ m # n
      => setup[m].machine # setup[n].machine

\* The setup history is append-only: a row that was ever active never vanishes,
\* never changes its machine or set and, once ended, never revives, however
\* stale the row a request ends (database/schema.py:329-330).
HistoryIsAppendOnly ==
  [][\A m \in Maps : setup[m].status # "unborn" =>
       /\ setup'[m].machine = setup[m].machine
       /\ setup'[m].set = setup[m].set
       /\ setup'[m].status \in {setup[m].status, "ended"}]_setupVars

-----------------------------------------------------------------------------
(* What the repository says and the code does not do. *)

\* "Atomically ends any prior active setup" (api/machine_set_maps.py:88): the
\* step of an activation that ends the prior setup leaves another in its place.
SwitchIsAtomic ==
  [][\A w \in Workers :
       At(w, "switch") /\ setup' # setup => ActiveOn(request[w].machine)' # {}]_setupVars

\* An active setup names a set that exists: tool_set_id is a non-null foreign
\* key (database/schema.py:340-341).
SetupNamesLiveSet ==
  \A m \in Maps : setup[m].status = "active" => setup[m].set \in toolsets
=============================================================================
