----------------------------- MODULE FlowDetails -----------------------------
(***************************************************************************)
(* FlowDetails.tsx: the page of one authentication flow.  It shows the     *)
(* rows of its last fetch; a row that is dragged, deleted or added becomes *)
(* a chain of calls of the admin API, each awaited before the next, and at *)
(* the end of the chain the page fetches the rows again.  Nothing keeps    *)
(* the user from starting a chain while another is under way.              *)
(***************************************************************************)
EXTENDS FlowDiagram

CONSTANTS
  Executions,   \* names of executions, sub-flows included
  SubFlows,     \* those that are sub-flows and have no provider
  Top,          \* the flow itself
  Flows,        \* the flows to start with: what each container holds
  MaxChanges,   \* bound: changes the user makes
  MaxFailures   \* bound: calls that fail on the way

Containers == SubFlows \cup {Top}

\* What each container holds: no execution stands in two places.
IsFlow(ch) ==
  /\ ch \in [Containers -> Seq(Executions)]
  /\ \A c, d \in Containers : \A i \in DOMAIN ch[c], j \in DOMAIN ch[d] :
       ch[c][i] = ch[d][j] => c = d /\ i = j

ASSUME FlowAssumption ==
  /\ SubFlows \subseteq Executions /\ IsFiniteSet(SubFlows)
  /\ Top \notin Executions
  /\ \A f \in Flows : IsFlow(f)
  /\ MaxChanges \in Nat /\ MaxFailures \in Nat

VARIABLES
  children,    \* server: the executions of each container, by priority
  made,        \* server: how often an execution was created, the number in its id
  rows,        \* the list of `executionList', as of the last fetch
  collapsed,   \* the sub-flows whose isCollapsed is set
  fetch,       \* the fetch that is not aborted
  jobs,        \* chains of calls under way
  changes, failures,
  kept,        \* history: the executions that nobody deleted
  alarmed      \* history: a chain has ended in an error since the last refresh

vars == <<children, made, rows, collapsed, fetch, jobs, changes, failures, kept, alarmed>>

Slots == 1..2                      \* two chains may overlap
InFlow == UNION {ToSet(children[c]) : c \in Containers}

Idle == [kind |-> "idle"]
NoFetch == [step |-> "none", rows |-> <<>>]

Deepest == Cardinality(SubFlows)   \* sub-flows in sub-flows: none lies deeper

\* External: the rows that getExecutions answers, with level and index, from those of the
\* containers of the deepest level up.
RowsOf(ch, mk) ==
  LET R[up \in 0..Deepest] ==
        [c \in Containers |->
           FlattenSeq(
             [i \in DOMAIN ch[c] |->
                LET id == ch[c][i]
                IN <<[id |-> id, gen |-> mk[id], level |-> Deepest - up, index |-> i - 1]>> \o
                   (IF up > 0 /\ id \in SubFlows THEN R[up - 1][id] ELSE <<>>)])]
  IN R[Deepest][Top]

ServerRows == RowsOf(children, made)

\* An execution and what is in it.
Below(ch, id) ==
  LET B[n \in 0..Deepest] ==
        IF n = 0 THEN {id}
        ELSE LET above == B[n - 1]
             IN above \cup UNION {ToSet(ch[c]) : c \in above \cap SubFlows}
  IN B[Deepest]

\* The page after its first fetch.
Init ==
  /\ children \in Flows
  /\ made = [n \in Executions |-> 0]
  /\ rows = ServerRows
  /\ collapsed = {} /\ fetch = NoFetch
  /\ jobs = [s \in Slots |-> Idle]
  /\ changes = 0 /\ failures = 0
  /\ kept = InFlow /\ alarmed = FALSE

-----------------------------------------------------------------------------
(* External: what the server does with a call.                              *)

Holder(ch, id) == CHOOSE c \in Containers : id \in ToSet(ch[c])
Place(ch, id)  == CHOOSE i \in DOMAIN ch[Holder(ch, id)] : ch[Holder(ch, id)][i] = id

Cut(ch, id) ==
  [c \in Containers |->
     IF c \in Below(ch, id) THEN <<>>
     ELSE IF c = Holder(ch, id) THEN RemoveAt(ch[c], Place(ch, id))
     ELSE ch[c]]

\* lower-priority and raise-priority exchange two neighbours, or do nothing at an end.
Shift(ch, id, by) ==
  LET c == Holder(ch, id)
      i == Place(ch, id)
      j == i + by
  IN IF j \in DOMAIN ch[c]
     THEN [ch EXCEPT ![c] = [@ EXCEPT ![i] = ch[c][j], ![j] = id]]
     ELSE ch

Exists(id, gen) == id \in InFlow /\ made[id] = gen

-----------------------------------------------------------------------------
(* The page.                                                                *)

\* Mutant of Refresh: the key does not change, nothing is fetched.
Refresh_SameKey == UNCHANGED <<fetch, alarmed>>

\* refresh: a new key, so the fetch under way is aborted and another one begins.
Refresh ==
  /\ fetch' = [step |-> "asked", rows |-> <<>>]
  /\ alarmed' = FALSE

FetchServed ==
  /\ fetch.step = "asked"
  /\ fetch' = [step |-> "answered", rows |-> ServerRows]
  /\ UNCHANGED <<children, made, rows, collapsed, jobs, changes, failures, kept, alarmed>>

FetchArrives ==
  /\ fetch.step = "answered"
  /\ rows' = fetch.rows
  /\ collapsed' = {}
  /\ fetch' = NoFetch
  /\ UNCHANGED <<children, made, jobs, changes, failures, kept, alarmed>>

\* onRowClick, offered for rows with an executionList.  What is collapsed only matters to
\* a drop: the guard on `changes' leaves the clicks out after which none is left.
RowClick(id) ==
  /\ changes < MaxChanges
  /\ \E i \in 1..Len(rows) - 1 : rows[i].id = id /\ rows[i].level < rows[i + 1].level
  /\ collapsed' = IF id \in collapsed THEN collapsed \ {id} ELSE collapsed \cup {id}
  /\ UNCHANGED <<children, made, rows, fetch, jobs, changes, failures, kept, alarmed>>

\* History: what a drop has drawn, until another chain changes the flow under it.
Unknown == [step |-> "unknown"]

Disturb(s) ==
  [t \in Slots |-> IF t # s /\ jobs[t] # Idle THEN [jobs[t] EXCEPT !.drop = Unknown] ELSE jobs[t]]

Start_(s, job) ==
  /\ jobs[s] = Idle /\ \A t \in Slots : t < s => jobs[t] # Idle
  /\ changes < MaxChanges /\ changes' = changes + 1
  /\ jobs' = [jobs EXCEPT ![s] = job]

MoveItem(seq, from, to) == InsertAt(RemoveAt(seq, from), to, seq[from])

\* The drag collapses the row that is dragged; the drop compares the order drawn with
\* the one before and starts the calls.
Drop(s, id) ==
  LET closed == collapsed \cup ({id} \cap SubFlows)
      order  == Order(rows, closed)
      old    == Find(order, id)
  IN /\ changes < MaxChanges
     /\ id \in {order[i].id : i \in DOMAIN order}
     /\ \E place \in DOMAIN order \ {old} :
          LET change == GetChange(rows, closed, id, place)
              moved  == MoveItem(order, old, place)
          IN /\ change.level \/ change.old # change.new
             /\ Start_(s, [kind  |-> "move", id |-> id, gen |-> order[old].gen,
                           step  |-> IF change.level THEN "del" ELSE "shift",
                           into  |-> IF change.parent = NoParent THEN Top ELSE change.parent,
                           shift |-> change.new - change.old,
                           drop  |-> IF rows = ServerRows /\ \A t \in Slots : jobs[t] = Idle
                                     THEN [step |-> "drawn", before |-> children,
                                           on |-> order[place].id, down |-> place > old,
                                           order |-> [i \in DOMAIN moved |-> moved[i].id]]
                                     ELSE Unknown])
     /\ collapsed' = closed
  /\ UNCHANGED <<children, made, rows, fetch, failures, kept, alarmed>>

\* The delete dialog of a row.
Delete(s, i) ==
  /\ Start_(s, [kind |-> "delete", id |-> rows[i].id, gen |-> rows[i].gen, step |-> "del",
                into |-> Top, shift |-> 0, drop |-> Unknown])
  /\ UNCHANGED <<children, made, rows, collapsed, fetch, failures, kept, alarmed>>

\* addExecution and addFlow, into the flow or a sub-flow that is shown.
Add(s, id, c) ==
  /\ id \notin InFlow /\ made[id] = 0 /\ \A t \in Slots : jobs[t] # Idle => jobs[t].id # id
  /\ c # Top => \E i \in DOMAIN rows : rows[i].id = c
  /\ Start_(s, [kind |-> "add", id |-> id, gen |-> 0, step |-> "add", into |-> c, shift |-> 0,
                drop |-> Unknown])
  /\ UNCHANGED <<children, made, rows, collapsed, fetch, failures, kept, alarmed>>

-----------------------------------------------------------------------------
(* A chain of calls.                                                        *)

\* The server refuses a sub-flow that is to be added as an execution: it has no provider.
Accepted(job) ==
  CASE job.step = "add" -> /\ job.into = Top \/ job.into \in InFlow
                           /\ job.kind = "move" => job.id \notin SubFlows
    [] OTHER            -> Exists(job.id, job.gen)

\* Mutant of Effect: a level change adds the execution without having deleted it.
Effect_KeepsOld(job) ==
  IF job.step = "add"
  THEN /\ children' = [children EXCEPT ![job.into] = Append(@, job.id)]
       /\ made' = [made EXCEPT ![job.id] = @ + 1]
       /\ kept' = kept \cup {job.id}
  ELSE UNCHANGED <<children, made, kept>>

\* What a call does on the server.
Effect(job) ==
  CASE job.step = "del" ->
         /\ children' = Cut(children, job.id)
         /\ kept' = IF job.kind = "delete" THEN kept \ Below(children, job.id) ELSE kept
         /\ UNCHANGED made
    [] job.step = "add" ->
         /\ children' = [children EXCEPT ![job.into] = Append(@, job.id)]
         /\ made' = [made EXCEPT ![job.id] = @ + 1]
         /\ kept' = kept \cup {job.id}
    [] job.step = "shift" ->
         /\ children' = Shift(children, job.id, IF job.shift > 0 THEN 1 ELSE -1)
         /\ UNCHANGED <<made, kept>>

\* Mutant of Rest: one call fewer than the places between old and new.
Rest_OneFewer(job) ==
  CASE job.step = "del"   -> [job EXCEPT !.step = "add"]
    [] job.step = "add"   -> [job EXCEPT !.step = "shift", !.gen = made[job.id] + 1]
    [] job.step = "shift" -> [job EXCEPT !.shift = IF @ > 0 THEN (IF @ > 2 THEN @ - 1 ELSE 0)
                                                   ELSE IF @ < -2 THEN @ + 1 ELSE 0]

\* What executeChange has left to do after a call that went well.
Rest(job) ==
  CASE job.step = "del"   -> [job EXCEPT !.step = "add"]
    [] job.step = "add"   -> [job EXCEPT !.step = "shift", !.gen = made[job.id] + 1]
    [] job.step = "shift" -> [job EXCEPT !.shift = IF @ > 0 THEN @ - 1 ELSE @ + 1]

Finished(job) == job.kind # "move" \/ (Rest(job).step = "shift" /\ Rest(job).shift = 0)

CallDone(s) ==
  LET job == jobs[s]
  IN /\ job # Idle /\ Accepted(job)
     /\ Effect(job)
     /\ jobs' = [Disturb(s) EXCEPT ![s] = IF Finished(job) THEN Idle ELSE Rest(job)]
     /\ IF Finished(job) THEN Refresh ELSE UNCHANGED <<fetch, alarmed>>
     /\ UNCHANGED <<rows, collapsed, changes, failures>>

\* A call is refused, or fails before or after it has had its effect: an alert, and
\* the page goes on showing what it had.
CallFailed(s, done) ==
  LET job == jobs[s]
  IN /\ job # Idle
     /\ Accepted(job) => failures < MaxFailures
     /\ done => Accepted(job)
     /\ failures' = IF Accepted(job) THEN failures + 1 ELSE failures
     /\ IF done THEN Effect(job) ELSE UNCHANGED <<children, made, kept>>
     /\ jobs' = [(IF done THEN Disturb(s) ELSE jobs) EXCEPT ![s] = Idle]
     /\ alarmed' = TRUE
     /\ UNCHANGED <<rows, collapsed, fetch, changes>>

-----------------------------------------------------------------------------
UserChanges ==
  \E s \in Slots :
    \/ \E i \in DOMAIN rows : Drop(s, rows[i].id)
    \/ \E i \in DOMAIN rows : Delete(s, i)
    \/ \E id \in Executions, c \in Containers : Add(s, id, c)

Next ==
  \/ UserChanges
  \/ \E id \in SubFlows : RowClick(id)
  \/ FetchServed
  \/ FetchArrives
  \/ \E s \in Slots : CallDone(s)
  \/ \E s \in Slots, done \in BOOLEAN : CallFailed(s, done)

Spec == Init /\ [][Next]_vars
-----------------------------------------------------------------------------
(* Properties.                                                              *)

\* Every variable stays in the range the code gives it, and no execution stands in two
\* places of the flow of the server.
TypeOK ==
  /\ IsFlow(children)
  /\ collapsed \subseteq SubFlows /\ kept \subseteq Executions
  /\ fetch.step \in {"none", "asked", "answered"}

\* The tree built from the rows is the one the rows describe: read from top to bottom
\* it gives them back, and a row hangs below the nearest one above it with a smaller level.
Above(list, i) == {j \in 1..i - 1 : list[j].level < list[i].level}
Nearest(list, i) == IF Above(list, i) = {} THEN 0 ELSE Max(Above(list, i))

Shown == fetch = NoFetch /\ \A s \in Slots : jobs[s] = Idle    \* nothing under way

TreeDescribed(list) ==
  /\ Order(list, {}) = list
  /\ \A p \in 0..Len(list) :
       ToSet(Expandable(list)[p]) = {i \in DOMAIN list : Nearest(list, i) = p}

TreeOfRows == Shown => TreeDescribed(rows)

\* The diagram of the rows is connected, whatever the requirements of its executions.
\* Without any, the page shows no diagram.
DiagramIsConnected ==
  LET ids == {rows[i].id : i \in DOMAIN rows}
  IN (Shown /\ rows # <<>>) =>
       \A alternative \in SUBSET ids : \A disabled \in SUBSET (ids \ alternative) :
         Connected(rows, alternative, disabled)

\* When nothing is under way and the last chain went well, the page shows the flow of
\* the server, however chains and fetches have overlapped.
ViewIsServer ==
  (Shown /\ ~alarmed) => rows = ServerRows

\* A drop whose calls all went well, and which no other change has disturbed, leaves
\* every other execution in its place; within its sub-flow it puts the execution where
\* it was drawn, and a drop to a higher place on the top level puts it before the
\* row it was dropped on.
Without(s, id) == SelectSeq(s, LAMBDA n : n # id)

Lands(id, drop, now) ==
  LET was == Holder(drop.before, id)
      is  == Holder(now, id)
  IN /\ \A c \in Containers : Without(now[c], id) = Without(drop.before[c], id)
     /\ drop.on \in ToSet(drop.before[was]) =>
          now[was] = SelectSeq(drop.order, LAMBDA n : n \in ToSet(drop.before[was]))
     /\ (drop.on \in ToSet(drop.before[Top]) /\ was # Top /\ ~drop.down) =>
          is = Top /\ now[Top][Place(now, id) + 1] = drop.on

DropLands ==
  [][\A s \in Slots :
       (jobs[s] # Idle /\ jobs'[s] = Idle /\ jobs[s].drop # Unknown /\ ~alarmed')
         => Lands(jobs[s].id, jobs[s].drop, children')]_vars

-----------------------------------------------------------------------------
(* What a test of execution-model.ts supposes and the code does not do.      *)

\* ExecutionList.test.ts:107, "Move a parent to the top": a row with rows below it can be
\* moved to another level.  The page deletes it and cannot add it again.
MoveLosesNothing ==
  (failures = 0 /\ \A s \in Slots : jobs[s] = Idle) => kept \subseteq InFlow
=============================================================================
