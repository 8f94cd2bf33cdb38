-------------------------- MODULE FlowDetails_proofs --------------------------
(***************************************************************************)
(* Theorems about FlowDetails, ExecutionList and FlowDiagram, for any      *)
(* flow, with sub-flows in sub-flows to any depth, any number of changes   *)
(* and any number of failures.                                             *)
(*                                                                         *)
(* The operators over the rows are recursive functions.  What they give is *)
(* proved row by row: the rows of which a lemma is not true would have a   *)
(* last or a first one (FromTheEnd, FromTheStart).                         *)
(***************************************************************************)
EXTENDS FlowDetails, SequenceTheorems, FiniteSetTheorems, WellFoundedInduction, TLAPS

-----------------------------------------------------------------------------
(* The flow of the server: no execution ever stands in two places of it.    *)

\* The executions that a flow holds.
Held(ch) == UNION {ToSet(ch[c]) : c \in Containers}

\* Where an execution of the flow stands.
LEMMA Placed ==
  ASSUME NEW ch, IsFlow(ch), NEW id \in Held(ch)
  PROVE  /\ Holder(ch, id) \in Containers
         /\ Place(ch, id) \in DOMAIN ch[Holder(ch, id)]
         /\ ch[Holder(ch, id)][Place(ch, id)] = id
<1>1. \E c \in Containers : id \in ToSet(ch[c])
  BY DEF Held
<1>2. Holder(ch, id) \in Containers /\ id \in ToSet(ch[Holder(ch, id)])
  BY <1>1, Zenon DEF Holder
<1>3. \E i \in DOMAIN ch[Holder(ch, id)] : ch[Holder(ch, id)][i] = id
  BY <1>2 DEF ToSet
<1> QED BY <1>2, <1>3, Zenon DEF Place

\* RemoveAt leaves the others in their order.
LEMMA RemovedAt ==
  ASSUME NEW S, NEW q \in Seq(S), NEW k \in DOMAIN q
  PROVE  /\ RemoveAt(q, k) \in Seq(S)
         /\ Len(RemoveAt(q, k)) = Len(q) - 1
         /\ \A i \in 1..Len(q) - 1 : RemoveAt(q, k)[i] = q[IF i < k THEN i ELSE i + 1]
<1>1. SubSeq(q, 1, k - 1) \in Seq(S) /\ SubSeq(q, k + 1, Len(q)) \in Seq(S)
  OBVIOUS
<1>2. Len(SubSeq(q, 1, k - 1)) = k - 1 /\ Len(SubSeq(q, k + 1, Len(q))) = Len(q) - k
  OBVIOUS
<1>3. \A i \in 1..k - 1 : SubSeq(q, 1, k - 1)[i] = q[i]
  OBVIOUS
<1>4. \A i \in 1..Len(q) - k : SubSeq(q, k + 1, Len(q))[i] = q[k + i]
  OBVIOUS
<1>5. k \in 1..Len(q) /\ Len(q) \in Nat
  OBVIOUS
<1> DEFINE u == SubSeq(q, 1, k - 1)
           v == SubSeq(q, k + 1, Len(q))
<1>6. u \in Seq(S) /\ v \in Seq(S) /\ Len(u) = k - 1 /\ Len(v) = Len(q) - k
  BY <1>1, <1>2
<1>7. \A i \in 1..k - 1 : u[i] = q[i]
  BY <1>3
<1>8. \A i \in 1..Len(q) - k : v[i] = q[k + i]
  BY <1>4
<1> HIDE DEF u, v
<1>9. u \o v \in Seq(S) /\ Len(u \o v) = Len(q) - 1
  BY <1>5, <1>6
<1>10. ASSUME NEW i \in 1..Len(q) - 1 PROVE (u \o v)[i] = q[IF i < k THEN i ELSE i + 1]
  <2>1. CASE i < k
    <3>1. (u \o v)[i] = u[i]
      BY <1>5, <1>6, <2>1
    <3> QED BY <3>1, <1>5, <1>7, <2>1
  <2>2. CASE i >= k
    <3>1. (u \o v)[i] = v[i - (k - 1)]
      BY <1>5, <1>6, <2>2
    <3>2. i - (k - 1) \in 1..Len(q) - k
      BY <1>5, <2>2
    <3>3. v[i - (k - 1)] = q[k + (i - (k - 1))]
      BY <3>2, <1>8
    <3>4. k + (i - (k - 1)) = i + 1
      BY <1>5
    <3> QED BY <3>1, <3>3, <3>4, <1>5, <2>2
  <2>3. i < k \/ i >= k
    BY <1>5
  <2> QED BY <2>1, <2>2, <2>3
<1> QED BY <1>9, <1>10 DEF RemoveAt, u, v

\* Deleting an execution, and what is in it, leaves a flow without it.
LEMMA CutTree ==
  ASSUME NEW ch, IsFlow(ch), NEW id \in Held(ch)
  PROVE  IsFlow(Cut(ch, id)) /\ Held(Cut(ch, id)) \subseteq Held(ch) \ {id}
<1> DEFINE h == Holder(ch, id)
           k == Place(ch, id)
           new == Cut(ch, id)
           old(c, i) == IF c = h /\ i >= k THEN i + 1 ELSE i
<1>1. h \in Containers /\ k \in DOMAIN ch[h] /\ ch[h][k] = id
  BY Placed
<1>2. ch[h] \in Seq(Executions)
  BY <1>1 DEF IsFlow
<1>3. /\ RemoveAt(ch[h], k) \in Seq(Executions)
      /\ Len(RemoveAt(ch[h], k)) = Len(ch[h]) - 1
      /\ \A i \in 1..Len(ch[h]) - 1 : RemoveAt(ch[h], k)[i] = ch[h][IF i < k THEN i ELSE i + 1]
  BY <1>1, <1>2, RemovedAt
<1>4. ASSUME NEW c \in Containers
      PROVE  /\ new[c] \in Seq(Executions)
             /\ new[c] = <<>> \/ (new[c] = RemoveAt(ch[h], k) /\ c = h) \/ (new[c] = ch[c] /\ c # h)
  <2>1. ch[c] \in Seq(Executions) /\ <<>> \in Seq(Executions)
    BY DEF IsFlow
  <2>2. new[c] = IF c \in Below(ch, id) THEN <<>> ELSE IF c = h THEN RemoveAt(ch[c], k) ELSE ch[c]
    BY DEF Cut
  <2> HIDE DEF new, h, k
  <2> QED BY <2>1, <2>2, <1>3
<1>5. new \in [Containers -> Seq(Executions)]
  BY <1>4 DEF Cut
<1>6. ASSUME NEW c \in Containers, NEW i \in DOMAIN new[c]
      PROVE  /\ old(c, i) \in DOMAIN ch[c]
             /\ new[c][i] = ch[c][old(c, i)]
             /\ c = h => old(c, i) # k
  <2>1. ch[c] \in Seq(Executions)
    BY DEF IsFlow
  <2>. HIDE DEF new, h, k
  <2>2. CASE new[c] = <<>>
    BY <2>2
  <2>3. CASE new[c] = RemoveAt(ch[h], k) /\ c = h
    BY <2>3, <1>3, <1>1, <1>2
  <2>4. CASE new[c] = ch[c] /\ c # h
    BY <2>4
  <2> QED BY <2>2, <2>3, <2>4, <1>4
<1>7. \A c, d \in Containers : \A i \in DOMAIN new[c], j \in DOMAIN new[d] :
        new[c][i] = new[d][j] => c = d /\ i = j
  <2> SUFFICES ASSUME NEW c \in Containers, NEW d \in Containers,
                      NEW i \in DOMAIN new[c], NEW j \in DOMAIN new[d], new[c][i] = new[d][j]
               PROVE  c = d /\ i = j
    OBVIOUS
  <2>1. ch[c][old(c, i)] = ch[d][old(d, j)] /\ old(c, i) \in DOMAIN ch[c] /\ old(d, j) \in DOMAIN ch[d]
    BY <1>6
  <2>2. c = d /\ old(c, i) = old(d, j)
    <3> HIDE DEF old, new
    <3> QED BY <2>1 DEF IsFlow
  <2>3. i \in Int /\ j \in Int /\ k \in Int
    <3>1. new[c] \in Seq(Executions) /\ new[d] \in Seq(Executions)
      BY <1>4
    <3> HIDE DEF new, h, k
    <3> QED BY <3>1, <1>1, <1>2
  <2> HIDE DEF h, k, new
  <2> QED BY <2>2, <2>3
<1>8. Held(new) \subseteq Held(ch) \ {id}
  <2> SUFFICES ASSUME NEW c \in Containers, NEW i \in DOMAIN new[c]
               PROVE  new[c][i] \in Held(ch) /\ new[c][i] # id
    BY DEF Held, ToSet
  <2>1. old(c, i) \in DOMAIN ch[c] /\ new[c][i] = ch[c][old(c, i)] /\ (c = h => old(c, i) # k)
    BY <1>6
  <2> HIDE DEF old, new, h, k
  <2>2. ch[c][old(c, i)] \in Held(ch)
    BY <2>1 DEF Held, ToSet
  <2>3. ch[c][old(c, i)] # id
    BY <2>1, <1>1 DEF IsFlow
  <2> QED BY <2>1, <2>2, <2>3
<1> QED BY <1>5, <1>7, <1>8 DEF IsFlow

\* Adding an execution that the flow does not hold adds only that one.
LEMMA AppendTree ==
  ASSUME NEW ch, IsFlow(ch), NEW id \in Executions \ Held(ch), NEW c
  PROVE  /\ IsFlow([ch EXCEPT ![c] = Append(@, id)])
         /\ Held([ch EXCEPT ![c] = Append(@, id)]) \subseteq Held(ch) \cup {id}
<1> DEFINE new == [ch EXCEPT ![c] = Append(@, id)]
<1>1. CASE c \notin Containers
  <2>1. new = ch
    BY <1>1 DEF IsFlow
  <2> QED BY <2>1
<1>2. CASE c \in Containers
  <2>1. ch \in [Containers -> Seq(Executions)] /\ ch[c] \in Seq(Executions)
    BY <1>2 DEF IsFlow
  <2>2. new \in [Containers -> Seq(Executions)]
    BY <2>1, <1>2
  <2>3. ASSUME NEW d \in Containers, NEW i \in DOMAIN new[d]
        PROVE  \/ i \in DOMAIN ch[d] /\ new[d][i] = ch[d][i]
               \/ d = c /\ i = Len(ch[c]) + 1 /\ new[d][i] = id /\ i \notin DOMAIN ch[d]
    <3>1. CASE d = c
      <4>1. new[d] = Append(ch[c], id)
        BY <3>1, <2>1, <1>2
      <4> HIDE DEF new
      <4> QED BY <4>1, <2>1, <3>1
    <3>2. CASE d # c
      BY <3>2, <2>1
    <3> QED BY <3>1, <3>2
  <2>4. \A d \in Containers : \A i \in DOMAIN ch[d] : ch[d][i] \in Held(ch)
    BY DEF Held, ToSet
  <2>5. \A d, e \in Containers : \A i \in DOMAIN new[d], j \in DOMAIN new[e] :
          new[d][i] = new[e][j] => d = e /\ i = j
    <3> SUFFICES ASSUME NEW d \in Containers, NEW e \in Containers,
                        NEW i \in DOMAIN new[d], NEW j \in DOMAIN new[e], new[d][i] = new[e][j]
                 PROVE  d = e /\ i = j
      OBVIOUS
    <3>1. \/ i \in DOMAIN ch[d] /\ new[d][i] = ch[d][i]
          \/ d = c /\ i = Len(ch[c]) + 1 /\ new[d][i] = id
      BY <2>3
    <3>2. \/ j \in DOMAIN ch[e] /\ new[e][j] = ch[e][j]
          \/ e = c /\ j = Len(ch[c]) + 1 /\ new[e][j] = id
      BY <2>3
    <3> HIDE DEF new
    <3> QED BY <3>1, <3>2, <2>4 DEF IsFlow
  <2>6. Held(new) \subseteq Held(ch) \cup {id}
    <3> SUFFICES ASSUME NEW d \in Containers, NEW i \in DOMAIN new[d]
                 PROVE  new[d][i] \in Held(ch) \cup {id}
      BY DEF Held, ToSet
    <3> HIDE DEF new
    <3> QED BY <2>3, <2>4
  <2> QED BY <2>2, <2>5, <2>6 DEF IsFlow
<1> QED BY <1>1, <1>2

\* Exchanging two neighbours keeps what the flow holds.
LEMMA ShiftTree ==
  ASSUME NEW ch, IsFlow(ch), NEW id \in Held(ch), NEW by \in {-1, 1}
  PROVE  IsFlow(Shift(ch, id, by)) /\ Held(Shift(ch, id, by)) \subseteq Held(ch)
<1> DEFINE c == Holder(ch, id)
           i == Place(ch, id)
           j == i + by
           new == Shift(ch, id, by)
           old(d, k) == IF d # c THEN k ELSE IF k = i THEN j ELSE IF k = j THEN i ELSE k
<1>1. c \in Containers /\ i \in DOMAIN ch[c] /\ ch[c][i] = id
  BY Placed
<1>2. ch[c] \in Seq(Executions) /\ ch \in [Containers -> Seq(Executions)]
  BY <1>1 DEF IsFlow
<1>3. CASE j \notin DOMAIN ch[c]
  <2>1. new = ch
    BY <1>3 DEF Shift
  <2> QED BY <2>1
<1>4. CASE j \in DOMAIN ch[c]
  <2>1. new = [ch EXCEPT ![c] = [ch[c] EXCEPT ![i] = ch[c][j], ![j] = id]]
    BY <1>4 DEF Shift
  <2>2. i \in Int /\ j \in Int /\ i # j
    BY <1>1, <1>2
  <2> HIDE DEF c, i, j, new
  <2>3. [ch[c] EXCEPT ![i] = ch[c][j], ![j] = id] \in Seq(Executions)
    <3>1. ch[c][j] \in Executions /\ id \in Executions
      BY <1>1, <1>2, <1>4
    <3>2. \A q \in Seq(Executions) : \A k \in DOMAIN q : \A x \in Executions :
            [q EXCEPT ![k] = x] \in Seq(Executions) /\ DOMAIN [q EXCEPT ![k] = x] = DOMAIN q
      OBVIOUS
    <3>3. [ch[c] EXCEPT ![i] = ch[c][j]] \in Seq(Executions)
          /\ j \in DOMAIN [ch[c] EXCEPT ![i] = ch[c][j]]
      BY <3>1, <3>2, <1>1, <1>2, <1>4
    <3> QED BY <3>1, <3>2, <3>3
  <2>4. new \in [Containers -> Seq(Executions)]
    BY <2>1, <2>3, <1>1, <1>2
  <2>5. ASSUME NEW d \in Containers, NEW k \in DOMAIN new[d]
        PROVE  k \in Int /\ old(d, k) \in DOMAIN ch[d] /\ new[d][k] = ch[d][old(d, k)]
    <3>1. new[d] \in Seq(Executions) /\ ch[d] \in Seq(Executions)
      BY <2>4, <1>2
    <3>2. CASE d = c
      <4>1. new[d] = [ch[c] EXCEPT ![i] = ch[c][j], ![j] = id]
        BY <2>1, <3>2, <1>1, <1>2
      <4> QED BY <4>1, <3>1, <3>2, <1>1, <1>2, <1>4, <2>2
    <3>3. CASE d # c
      BY <2>1, <3>1, <3>3, <1>1, <1>2
    <3> QED BY <3>2, <3>3
  <2>6. \A d, e \in Containers : \A k \in DOMAIN new[d], l \in DOMAIN new[e] :
          new[d][k] = new[e][l] => d = e /\ k = l
    <3> SUFFICES ASSUME NEW d \in Containers, NEW e \in Containers,
                        NEW k \in DOMAIN new[d], NEW l \in DOMAIN new[e], new[d][k] = new[e][l]
                 PROVE  d = e /\ k = l
      OBVIOUS
    <3>1. old(d, k) \in DOMAIN ch[d] /\ old(e, l) \in DOMAIN ch[e] /\ ch[d][old(d, k)] = ch[e][old(e, l)]
      BY <2>5
    <3>2. d = e /\ old(d, k) = old(e, l)
      <4> HIDE DEF old
      <4> QED BY <3>1 DEF IsFlow
    <3> QED BY <3>2, <2>2, <2>5
  <2>7. Held(new) \subseteq Held(ch)
    <3> SUFFICES ASSUME NEW d \in Containers, NEW k \in DOMAIN new[d] PROVE new[d][k] \in Held(ch)
      BY DEF Held, ToSet
    <3>1. old(d, k) \in DOMAIN ch[d] /\ new[d][k] = ch[d][old(d, k)]
      BY <2>5
    <3> HIDE DEF old
    <3> QED BY <3>1 DEF Held, ToSet
  <2> QED BY <2>4, <2>6, <2>7 DEF IsFlow, new
<1> QED BY <1>3, <1>4

\* The fields of a chain.
JobFields == {"kind", "id", "gen", "step", "into", "shift", "drop"}

\* A chain that has deleted an execution, or is to add a new one, and holds it meanwhile.
Holds(job) == job # Idle /\ job.step = "add"

\* What is known of one chain: the execution that it holds is nowhere in the flow.
JobInv(job) ==
  job = Idle \/
  (/\ job = [f \in JobFields |-> job[f]]
   /\ job.kind \in {"move", "delete", "add"}
   /\ job.step \in {"del", "add", "shift"}
   /\ Holds(job) => job.id \in Executions \ InFlow)

\* The inductive invariant: TypeOK, and no two chains hold the same execution.
TypeInv ==
  /\ TypeOK
  /\ jobs = [s \in Slots |-> jobs[s]]
  /\ \A s \in Slots : JobInv(jobs[s])
  /\ \A s, t \in Slots : s # t /\ Holds(jobs[s]) /\ Holds(jobs[t]) => jobs[s].id # jobs[t].id

\* InFlow is what the flow of the server holds.
LEMMA HeldIsInFlow == InFlow = Held(children)
BY DEF InFlow, Held

\* A flow holds executions.
LEMMA InFlowExecutions == ASSUME IsFlow(children) PROVE InFlow \subseteq Executions
BY DEF InFlow, IsFlow, ToSet

\* A call keeps the flow a tree, and changes only the execution it is about.
LEMMA EffectType ==
  ASSUME TypeInv, NEW s \in Slots, jobs[s] # Idle, Accepted(jobs[s]), Effect(jobs[s])
  PROVE  /\ IsFlow(children') /\ kept' \subseteq Executions
         /\ jobs[s].step # "add" => jobs[s].id \in InFlow
         /\ jobs[s].step = "del" => InFlow' \subseteq InFlow \ {jobs[s].id}
         /\ jobs[s].step = "shift" => InFlow' \subseteq InFlow
         /\ jobs[s].step = "add" => InFlow' \subseteq InFlow \cup {jobs[s].id}
<1> DEFINE job == jobs[s]
<1>1. /\ IsFlow(children) /\ kept \subseteq Executions
      /\ job.step \in {"del", "add", "shift"}
      /\ job.step = "add" => job.id \in Executions \ InFlow
  BY DEF TypeInv, TypeOK, JobInv, Holds
<1>2. InFlow = Held(children) /\ InFlow' = Held(children')
  BY DEF InFlow, Held
<1>3. job.step # "add" => job.id \in InFlow
  BY DEF Accepted, Exists
<1> HIDE DEF job
<1>4. Effect(job)
  BY DEF job
<1>5. CASE job.step = "del"
  <2>1. children' = Cut(children, job.id) /\ kept' \subseteq kept
    BY <1>4, <1>5 DEF Effect
  <2>2. IsFlow(children') /\ Held(children') \subseteq Held(children) \ {job.id}
    BY <2>1, <1>1, <1>2, <1>3, <1>5, CutTree
  <2> QED BY <2>1, <2>2, <1>1, <1>2, <1>3, <1>5 DEF job
<1>6. CASE job.step = "add"
  <2>1. children' = [children EXCEPT ![job.into] = Append(@, job.id)] /\ kept' = kept \cup {job.id}
    BY <1>4, <1>6 DEF Effect
  <2>2. job.id \in Executions \ Held(children)
    BY <1>1, <1>2, <1>6
  <2>3. IsFlow(children') /\ Held(children') \subseteq Held(children) \cup {job.id}
    BY <2>1, <2>2, <1>1, AppendTree
  <2> QED BY <2>1, <2>2, <2>3, <1>1, <1>2, <1>6 DEF job
<1>7. CASE job.step = "shift"
  <2> DEFINE by == IF job.shift > 0 THEN 1 ELSE -1
  <2>1. children' = Shift(children, job.id, by) /\ kept' = kept
    BY <1>4, <1>7 DEF Effect
  <2>2. by \in {-1, 1}
    OBVIOUS
  <2> HIDE DEF by
  <2>3. IsFlow(children') /\ Held(children') \subseteq Held(children)
    BY <2>1, <2>2, <1>1, <1>2, <1>3, <1>7, ShiftTree
  <2> QED BY <2>1, <2>3, <1>1, <1>2, <1>3, <1>7 DEF job
<1> QED BY <1>1, <1>5, <1>6, <1>7

\* The jobs after one more call: the one that has made it, and the others.
LEMMA DisturbType ==
  ASSUME TypeInv, NEW s \in Slots, NEW t \in Slots
  PROVE  /\ Disturb(s) = [u \in Slots |-> Disturb(s)[u]]
         /\ (Disturb(s)[t] = Idle) <=> (jobs[t] = Idle)
         /\ jobs[t] # Idle => /\ Disturb(s)[t] = [f \in JobFields |-> Disturb(s)[t][f]]
                              /\ Disturb(s)[t].kind = jobs[t].kind
                              /\ Disturb(s)[t].step = jobs[t].step
                              /\ Disturb(s)[t].id = jobs[t].id
<1>1. jobs[t] # Idle => jobs[t] = [f \in JobFields |-> jobs[t][f]] /\ jobs[t].kind \in {"move", "delete", "add"}
  BY DEF TypeInv, JobInv
<1>2. Disturb(s)[t] = IF t # s /\ jobs[t] # Idle THEN [jobs[t] EXCEPT !.drop = Unknown] ELSE jobs[t]
  BY DEF Disturb
<1>3. Disturb(s) = [u \in Slots |-> Disturb(s)[u]]
  BY DEF Disturb
<1>4. ASSUME jobs[t] # Idle, NEW d, d = [jobs[t] EXCEPT !.drop = Unknown]
      PROVE  /\ d = [f \in JobFields |-> d[f]]
             /\ d.kind = jobs[t].kind /\ d.step = jobs[t].step /\ d.id = jobs[t].id
  BY <1>1, <1>4 DEF JobFields
<1>5. \A d : d.kind \in {"move", "delete", "add"} => d # Idle
  BY DEF Idle
<1> QED BY <1>1, <1>2, <1>3, <1>4, <1>5

\* A chain goes on with the same execution, and only a deletion leaves it holding one.
LEMMA RestType ==
  ASSUME NEW job, job # Idle, job = [f \in JobFields |-> job[f]],
         job.kind \in {"move", "delete", "add"}, job.step \in {"del", "add", "shift"}
  PROVE  /\ Rest(job) # Idle
         /\ Rest(job) = [f \in JobFields |-> Rest(job)[f]]
         /\ Rest(job).kind = job.kind /\ Rest(job).id = job.id
         /\ Rest(job).step = IF job.step = "del" THEN "add" ELSE "shift"
<1>1. /\ Rest(job) = [f \in JobFields |-> Rest(job)[f]]
      /\ Rest(job).kind = job.kind /\ Rest(job).id = job.id
      /\ Rest(job).step = IF job.step = "del" THEN "add" ELSE "shift"
  <2>1. CASE job.step = "del"
    BY <2>1 DEF Rest, JobFields
  <2>2. CASE job.step = "add"
    BY <2>2 DEF Rest, JobFields
  <2>3. CASE job.step = "shift"
    BY <2>3 DEF Rest, JobFields
  <2> QED BY <2>1, <2>2, <2>3
<1>2. Rest(job) # Idle
  BY <1>1 DEF Idle
<1> QED BY <1>1, <1>2

\* A call that leaves the others' executions alone keeps what is known of the chains.
LEMMA JobsAfterCall ==
  ASSUME TypeInv, NEW s \in Slots, jobs[s] # Idle, Accepted(jobs[s]), Effect(jobs[s]),
         NEW after, jobs' = [Disturb(s) EXCEPT ![s] = after],
         after = Idle \/ after = Rest(jobs[s])
  PROVE  /\ jobs' = [t \in Slots |-> jobs'[t]]
         /\ (\A t \in Slots : JobInv(jobs[t]))'
         /\ (\A t, u \in Slots : t # u /\ Holds(jobs[t]) /\ Holds(jobs[u]) => jobs[t].id # jobs[u].id)'
<1> DEFINE job == jobs[s]
<1>1. /\ job # Idle /\ job = [f \in JobFields |-> job[f]]
      /\ job.kind \in {"move", "delete", "add"} /\ job.step \in {"del", "add", "shift"}
  BY DEF TypeInv, JobInv
<1>2. jobs' = [t \in Slots |-> jobs'[t]]
  BY DisturbType
<1>3. jobs'[s] = after
  BY DisturbType
<1>4. \A t \in Slots \ {s} : jobs'[t] = Disturb(s)[t]
  BY DisturbType
<1>5. /\ job.step # "add" => job.id \in InFlow
      /\ job.step = "del" => InFlow' \subseteq InFlow \ {job.id}
      /\ job.step = "shift" => InFlow' \subseteq InFlow
      /\ job.step = "add" => InFlow' \subseteq InFlow \cup {job.id}
      /\ InFlow \subseteq Executions
  BY EffectType, InFlowExecutions DEF TypeInv, TypeOK
<1>6. ASSUME NEW t \in Slots \ {s}, Holds(jobs'[t])
      PROVE  /\ Holds(jobs[t]) /\ jobs'[t].id = jobs[t].id
             /\ jobs[t].id \in Executions \ InFlow
             /\ jobs[t].id # job.id
             /\ jobs[t].id \in Executions \ InFlow'
  <2>1. Holds(jobs[t]) /\ jobs'[t].id = jobs[t].id
    BY <1>4, <1>6, DisturbType DEF Holds
  <2>2. jobs[t].id \in Executions \ InFlow
    BY <2>1 DEF TypeInv, JobInv, Holds
  <2>3. jobs[t].id # job.id
    <3>1. CASE job.step = "add"
      BY <3>1, <2>1, <1>1 DEF TypeInv, Holds
    <3>2. CASE job.step # "add"
      BY <3>2, <2>2, <1>5
    <3> QED BY <3>1, <3>2
  <2> QED BY <2>1, <2>2, <2>3, <1>1, <1>5
<1>7. Holds(after) => after.id = job.id /\ after.id \in Executions \ InFlow'
  <2> SUFFICES ASSUME Holds(after) PROVE after.id = job.id /\ after.id \in Executions \ InFlow'
    OBVIOUS
  <2>1. after = Rest(job)
    BY DEF Holds
  <2>2. after.id = job.id /\ job.step = "del"
    BY <2>1, <1>1, RestType DEF Holds
  <2> QED BY <2>2, <1>5
<1>8. ASSUME NEW t \in Slots PROVE JobInv(jobs[t])'
  <2>1. CASE t = s
    <3>1. CASE after = Idle
      BY <3>1, <2>1, <1>3 DEF JobInv
    <3>2. CASE after = Rest(job)
      <4>1. /\ after = [f \in JobFields |-> after[f]]
            /\ after.kind \in {"move", "delete", "add"} /\ after.step \in {"del", "add", "shift"}
        BY <3>2, <1>1, RestType
      <4> QED BY <4>1, <2>1, <1>3, <1>7 DEF JobInv, Holds
    <3> QED BY <3>1, <3>2
  <2>2. CASE t # s /\ jobs[t] = Idle
    BY <2>2, <1>4, DisturbType DEF JobInv
  <2>3. CASE t # s /\ jobs[t] # Idle
    <3>1. /\ jobs'[t] = [f \in JobFields |-> jobs'[t][f]]
          /\ jobs'[t].kind = jobs[t].kind /\ jobs'[t].step = jobs[t].step
      BY <2>3, <1>4, DisturbType
    <3>2. jobs[t].kind \in {"move", "delete", "add"} /\ jobs[t].step \in {"del", "add", "shift"}
      BY <2>3 DEF TypeInv, JobInv
    <3>3. Holds(jobs'[t]) => jobs'[t].id \in Executions \ InFlow'
      BY <2>3, <1>6
    <3> QED BY <3>1, <3>2, <3>3 DEF JobInv, Holds
  <2> QED BY <2>1, <2>2, <2>3
<1>9. ASSUME NEW t \in Slots, NEW u \in Slots, t # u, Holds(jobs'[t]), Holds(jobs'[u])
      PROVE  jobs'[t].id # jobs'[u].id
  <2>1. CASE t # s /\ u # s
    <3>1. Holds(jobs[t]) /\ Holds(jobs[u]) /\ jobs'[t].id = jobs[t].id /\ jobs'[u].id = jobs[u].id
      BY <2>1, <1>6, <1>9
    <3> QED BY <3>1, <1>9 DEF TypeInv
  <2>2. CASE t = s
    BY <2>2, <1>3, <1>6, <1>7, <1>9
  <2>3. CASE u = s
    BY <2>3, <1>3, <1>6, <1>7, <1>9
  <2> QED BY <2>1, <2>2, <2>3
<1>10. (\A t, u \in Slots : t # u /\ Holds(jobs[t]) /\ Holds(jobs[u]) => jobs[t].id # jobs[u].id)'
  BY <1>9 DEF Holds
<1> QED BY <1>2, <1>8, <1>10

\* A chain that the user starts: only that of an addition holds an execution, one that no
\* other chain has.
LEMMA JobsAfterStart ==
  ASSUME TypeInv, NEW s \in Slots, NEW job, Start_(s, job), UNCHANGED children,
         job = [f \in JobFields |-> job[f]],
         job.kind \in {"move", "delete", "add"}, job.step \in {"del", "add", "shift"},
         job.step = "add" => /\ job.id \in Executions \ InFlow
                             /\ \A t \in Slots : jobs[t] # Idle => jobs[t].id # job.id
  PROVE  /\ jobs' = [t \in Slots |-> jobs'[t]]
         /\ (\A t \in Slots : JobInv(jobs[t]))'
         /\ (\A t, u \in Slots : t # u /\ Holds(jobs[t]) /\ Holds(jobs[u]) => jobs[t].id # jobs[u].id)'
<1>1. jobs' = [jobs EXCEPT ![s] = job] /\ jobs = [t \in Slots |-> jobs[t]]
  BY DEF Start_, TypeInv
<1>2. jobs' = [t \in Slots |-> jobs'[t]] /\ jobs'[s] = job /\ \A t \in Slots \ {s} : jobs'[t] = jobs[t]
  BY <1>1
<1>3. InFlow' = InFlow
  BY DEF InFlow
<1>4. (\A t \in Slots : JobInv(jobs[t]))'
  BY <1>2, <1>3 DEF TypeInv, JobInv, Holds
<1>5. (\A t, u \in Slots : t # u /\ Holds(jobs[t]) /\ Holds(jobs[u]) => jobs[t].id # jobs[u].id)'
  BY <1>2 DEF TypeInv, Holds
<1> QED BY <1>2, <1>4, <1>5

\* A drop starts a chain that moves an execution.
LEMMA DropStarts ==
  ASSUME NEW s \in Slots, NEW id, Drop(s, id)
  PROVE  \E job : /\ Start_(s, job) /\ job = [f \in JobFields |-> job[f]]
                  /\ job.kind = "move" /\ job.step \in {"del", "shift"}
<1> DEFINE closed == collapsed \cup ({id} \cap SubFlows)
           order == Order(rows, closed)
           old == Find(order, id)
           moved(p) == MoveItem(order, old, p)
           ch(p) == GetChange(rows, closed, id, p)
           drop(p) == IF rows = ServerRows /\ \A t \in Slots : jobs[t] = Idle
                      THEN [step |-> "drawn", before |-> children,
                            on |-> order[p].id, down |-> p > old,
                            order |-> [i \in DOMAIN moved(p) |-> moved(p)[i].id]]
                      ELSE Unknown
           job(p) == [kind  |-> "move", id |-> id, gen |-> order[old].gen,
                      step  |-> IF ch(p).level THEN "del" ELSE "shift",
                      into  |-> IF ch(p).parent = NoParent THEN Top ELSE ch(p).parent,
                      shift |-> ch(p).new - ch(p).old,
                      drop  |-> drop(p)]
<1>1. PICK place : Start_(s, job(place))
  BY DEF Drop
<1> HIDE DEF ch, drop, order, old, closed
<1>2. /\ job(place) = [f \in JobFields |-> job(place)[f]]
      /\ job(place).kind = "move" /\ job(place).step \in {"del", "shift"}
  BY DEF JobFields
<1> QED BY <1>1, <1>2

\* The page opens with the invariant.
LEMMA TypeInit == Init => TypeInv
<1> SUFFICES ASSUME Init PROVE TypeInv
  OBVIOUS
<1>1. IsFlow(children)
  BY FlowAssumption DEF Init
<1>2. kept \subseteq Executions
  BY <1>1, InFlowExecutions DEF Init
<1>3. TypeOK
  BY <1>1, <1>2 DEF Init, TypeOK, NoFetch
<1>4. jobs = [s \in Slots |-> Idle]
  BY DEF Init
<1>5. jobs = [s \in Slots |-> jobs[s]] /\ \A s \in Slots : jobs[s] = Idle
  BY <1>4
<1> QED BY <1>3, <1>5 DEF TypeInv, JobInv, Holds

\* Steps that leave the flow and the chains alone.
LEMMA TypeKept ==
  ASSUME TypeInv, UNCHANGED <<children, jobs>>, TypeOK'
  PROVE  TypeInv'
<1>1. InFlow' = InFlow
  BY DEF InFlow
<1> QED BY <1>1 DEF TypeInv, JobInv, Holds

\* Every step of the page and of the server keeps the invariant.
LEMMA TypeStep == TypeInv /\ [Next]_vars => TypeInv'
<1> SUFFICES ASSUME TypeInv, [Next]_vars PROVE TypeInv'
  OBVIOUS
<1> USE DEF TypeOK
<1>1. IsFlow(children) /\ collapsed \subseteq SubFlows /\ kept \subseteq Executions
      /\ fetch.step \in {"none", "asked", "answered"}
  BY DEF TypeInv
<1>2. UNCHANGED children => IsFlow(children')
  BY <1>1
<1>3. ASSUME NEW s \in Slots, NEW id, Drop(s, id) PROVE TypeInv'
  <2> DEFINE closed == collapsed \cup ({id} \cap SubFlows)
  <2>1. collapsed' = closed /\ UNCHANGED <<children, kept, fetch>>
    BY <1>3 DEF Drop
  <2>2. PICK job : /\ Start_(s, job) /\ job = [f \in JobFields |-> job[f]]
                   /\ job.kind = "move" /\ job.step \in {"del", "shift"}
    BY <1>3, DropStarts
  <2> QED BY <1>1, <1>2, <2>1, <2>2, JobsAfterStart DEF TypeInv
<1>4. ASSUME NEW s \in Slots, NEW i \in DOMAIN rows, Delete(s, i) PROVE TypeInv'
  <2> DEFINE job == [kind |-> "delete", id |-> rows[i].id, gen |-> rows[i].gen, step |-> "del",
                     into |-> Top, shift |-> 0, drop |-> Unknown]
  <2>1. Start_(s, job) /\ UNCHANGED <<children, collapsed, kept, fetch>>
    BY <1>4 DEF Delete
  <2>2. job = [f \in JobFields |-> job[f]] /\ job.kind = "delete" /\ job.step = "del"
    BY DEF JobFields
  <2> HIDE DEF job
  <2> QED BY <1>1, <1>2, <2>1, <2>2, JobsAfterStart DEF TypeInv
<1>5. ASSUME NEW s \in Slots, NEW id \in Executions, NEW c \in Containers, Add(s, id, c) PROVE TypeInv'
  <2> DEFINE job == [kind |-> "add", id |-> id, gen |-> 0, step |-> "add", into |-> c, shift |-> 0,
                     drop |-> Unknown]
  <2>1. Start_(s, job) /\ UNCHANGED <<children, collapsed, kept, fetch>>
    BY <1>5 DEF Add
  <2>2. job = [f \in JobFields |-> job[f]] /\ job.kind = "add" /\ job.step = "add" /\ job.id = id
    BY DEF JobFields
  <2>3. id \in Executions \ InFlow /\ \A t \in Slots : jobs[t] # Idle => jobs[t].id # id
    BY <1>5 DEF Add
  <2> HIDE DEF job
  <2> QED BY <1>1, <1>2, <2>1, <2>2, <2>3, JobsAfterStart DEF TypeInv
<1>6. ASSUME NEW id \in SubFlows, RowClick(id) PROVE TypeInv'
  BY <1>1, <1>2, <1>6, TypeKept DEF RowClick
<1>7. CASE FetchServed
  BY <1>1, <1>2, <1>7, TypeKept DEF FetchServed
<1>8. CASE FetchArrives
  BY <1>1, <1>2, <1>8, TypeKept DEF FetchArrives, NoFetch
<1>9. ASSUME NEW s \in Slots, CallDone(s) PROVE TypeInv'
  <2>1. jobs[s] # Idle /\ Accepted(jobs[s]) /\ Effect(jobs[s]) /\ UNCHANGED collapsed
    BY <1>9 DEF CallDone
  <2>2. PICK after : jobs' = [Disturb(s) EXCEPT ![s] = after] /\ (after = Idle \/ after = Rest(jobs[s]))
    BY <1>9 DEF CallDone
  <2>3. fetch'.step \in {"none", "asked", "answered"}
    BY <1>1, <1>9 DEF CallDone, Refresh
  <2>4. IsFlow(children') /\ kept' \subseteq Executions
    BY <2>1, EffectType
  <2> QED BY <1>1, <2>1, <2>2, <2>3, <2>4, JobsAfterCall DEF TypeInv
<1>10. ASSUME NEW s \in Slots, CallFailed(s, TRUE) PROVE TypeInv'
  <2>1. jobs[s] # Idle /\ Accepted(jobs[s]) /\ Effect(jobs[s]) /\ UNCHANGED <<collapsed, fetch>>
        /\ jobs' = [Disturb(s) EXCEPT ![s] = Idle]
    BY <1>10 DEF CallFailed
  <2>2. IsFlow(children') /\ kept' \subseteq Executions
    BY <2>1, EffectType
  <2> QED BY <1>1, <2>1, <2>2, JobsAfterCall DEF TypeInv
<1>11. ASSUME NEW s \in Slots, CallFailed(s, FALSE) PROVE TypeInv'
  <2>1. jobs' = [jobs EXCEPT ![s] = Idle] /\ UNCHANGED <<children, kept, collapsed, fetch>>
    BY <1>11 DEF CallFailed
  <2>2. jobs' = [t \in Slots |-> jobs'[t]] /\ \A t \in Slots : jobs'[t] = Idle \/ jobs'[t] = jobs[t]
    BY <2>1 DEF TypeInv
  <2>3. InFlow' = InFlow
    BY <2>1 DEF InFlow
  <2> QED BY <1>1, <1>2, <2>1, <2>2, <2>3 DEF TypeInv, JobInv, Holds
<1>12. CASE UNCHANGED vars
  BY <1>1, <1>2, <1>12, TypeKept DEF vars
<1> QED BY <1>3, <1>4, <1>5, <1>6, <1>7, <1>8, <1>9, <1>10, <1>11, <1>12 DEF Next, UserChanges

\* FlowDetails.tsx and the calls of executeChange, for any number of executions and
\* changes: however chains, failures and fetches overlap, the flow of the server never
\* holds an execution in two places.
THEOREM TypeCorrect == Spec => []TypeOK
<1>1. TypeInv => TypeOK
  BY DEF TypeInv
<1> QED BY <1>1, TypeInit, TypeStep, PTL DEF Spec

-----------------------------------------------------------------------------
(* What the page shows once everything has come to rest.                    *)

\* With nothing under way after a chain that went well, the rows of the server are
\* asked for, or answered as they still are, or on the page.
ViewInv ==
  (~alarmed /\ \A s \in Slots : jobs[s] = Idle) =>
    \/ fetch.step = "asked"
    \/ fetch.step = "answered" /\ fetch.rows = ServerRows
    \/ fetch.step = "none" /\ rows = ServerRows

\* A chain that begins is under way.
LEMMA StartedIsBusy ==
  ASSUME TypeInv, NEW s \in Slots, NEW job, Start_(s, job), job.kind \in {"move", "delete", "add"}
  PROVE  ~ \A t \in Slots : jobs'[t] = Idle
<1>1. jobs'[s] = job
  BY DEF Start_, TypeInv
<1>2. job # Idle
  BY DEF Idle
<1> QED BY <1>1, <1>2

\* Every step keeps the rows of the server on the page or on their way.
LEMMA ViewStep == TypeInv /\ ViewInv /\ [Next]_vars => ViewInv'
<1> SUFFICES ASSUME TypeInv, ViewInv, [Next]_vars PROVE ViewInv'
  OBVIOUS
<1>1. UNCHANGED <<children, made>> => ServerRows' = ServerRows
  BY DEF ServerRows
<1>2. ASSUME NEW s \in Slots, NEW id, Drop(s, id) PROVE ViewInv'
  <2>1. PICK job : Start_(s, job) /\ job.kind = "move"
    BY <1>2, DropStarts
  <2> QED BY <2>1, StartedIsBusy DEF ViewInv
<1>3. ASSUME NEW s \in Slots, NEW i \in DOMAIN rows, Delete(s, i) PROVE ViewInv'
  <2> DEFINE job == [kind |-> "delete", id |-> rows[i].id, gen |-> rows[i].gen, step |-> "del",
                     into |-> Top, shift |-> 0, drop |-> Unknown]
  <2>1. Start_(s, job) /\ job.kind = "delete"
    BY <1>3 DEF Delete
  <2> HIDE DEF job
  <2> QED BY <2>1, StartedIsBusy DEF ViewInv
<1>4. ASSUME NEW s \in Slots, NEW id \in Executions, NEW c \in Containers, Add(s, id, c) PROVE ViewInv'
  <2> DEFINE job == [kind |-> "add", id |-> id, gen |-> 0, step |-> "add", into |-> c, shift |-> 0,
                     drop |-> Unknown]
  <2>1. Start_(s, job) /\ job.kind = "add"
    BY <1>4 DEF Add
  <2> HIDE DEF job
  <2> QED BY <2>1, StartedIsBusy DEF ViewInv
<1>5. ASSUME NEW id \in SubFlows, RowClick(id) PROVE ViewInv'
  BY <1>1, <1>5 DEF RowClick, ViewInv
<1>6. CASE FetchServed
  BY <1>1, <1>6 DEF FetchServed, ViewInv
<1>7. CASE FetchArrives
  BY <1>1, <1>7 DEF FetchArrives, ViewInv, NoFetch
<1>8. ASSUME NEW s \in Slots, CallDone(s) PROVE ViewInv'
  <2>1. CASE Finished(jobs[s])
    BY <1>8, <2>1 DEF CallDone, Refresh, ViewInv
  <2>2. CASE ~Finished(jobs[s])
    <3>1. jobs[s] # Idle /\ jobs' = [Disturb(s) EXCEPT ![s] = Rest(jobs[s])]
      BY <1>8, <2>2 DEF CallDone
    <3>2. jobs'[s] = Rest(jobs[s])
      BY <3>1, DisturbType
    <3>3. Rest(jobs[s]) # Idle
      BY <3>1, RestType DEF TypeInv, JobInv
    <3> QED BY <3>2, <3>3 DEF ViewInv
  <2> QED BY <2>1, <2>2
<1>9. ASSUME NEW s \in Slots, NEW done \in BOOLEAN, CallFailed(s, done) PROVE ViewInv'
  BY <1>9 DEF CallFailed, ViewInv
<1>10. CASE UNCHANGED vars
  BY <1>1, <1>10 DEF vars, ViewInv
<1> QED BY <1>2, <1>3, <1>4, <1>5, <1>6, <1>7, <1>8, <1>9, <1>10 DEF Next, UserChanges

\* FlowDetails.tsx:58-84, the fetch by `key' and refresh at the end of a chain: once nothing is
\* under way and the last chain ended without an error, the page shows what the server has.
THEOREM ViewIsServerHolds == Spec => []ViewIsServer
<1>1. Init => ViewInv
  BY DEF Init, ViewInv, NoFetch
<1>2. ViewInv => ViewIsServer
  BY DEF ViewInv, ViewIsServer, Shown, NoFetch
<1> QED BY <1>1, <1>2, TypeInit, TypeStep, ViewStep, PTL DEF Spec

-----------------------------------------------------------------------------
(* Induction along the rows, upwards and downwards, and recursion that exists.*)

\* A set of natural numbers has a least element.
LEMMA LeastNat == ASSUME NEW T, T \subseteq Nat, T # {} PROVE \E x \in T: \A y \in T: x <= y
<1> DEFINE R == OpToRel(<, Nat)
<1>1. IsWellFoundedOn(R, Nat)
  BY NatLessThanWellFounded
<1> HIDE DEF R
<1>2. PICK x \in T : \A y \in T : ~ (<<y, x>> \in R)
  BY <1>1, WFMin
<1>3. \A y \in T : y < x => <<y, x>> \in R
  BY DEF R, OpToRel
<1>4. \A y \in T : ~(y < x)
  BY <1>2, <1>3
<1>5. \A y \in T : x <= y
  BY <1>4, SMT
<1> QED BY <1>5

\* Induction from b down to a: what holds of k when it holds of all above it, holds of all.
LEMMA FromTheEnd ==
  ASSUME NEW a \in Int, NEW b \in Int, NEW X,
         \A k \in a..b : (\A j \in k + 1..b : j \in X) => k \in X
  PROVE  \A k \in a..b : k \in X
<1> DEFINE Bad == {m \in Nat : b - m \in a..b /\ b - m \notin X}
<1> SUFFICES ASSUME NEW k \in a..b, k \notin X PROVE FALSE
  OBVIOUS
<1>1. b - k \in Bad
  OBVIOUS
<1>2. PICK m \in Bad : \A y \in Bad : m <= y
  <2> HIDE DEF Bad
  <2>1. Bad \subseteq Nat
    BY DEF Bad
  <2> QED BY <1>1, <2>1, LeastNat
<1>3. m \in Nat /\ b - m \in a..b /\ b - m \notin X
  OBVIOUS
<1>4. ASSUME NEW j \in b - m + 1..b PROVE j \in X
  <2>1. b - j \in Nat /\ b - j < m /\ j \in a..b
    BY <1>3
  <2>2. b - j \notin Bad
    BY <2>1, <1>2, <1>3
  <2>3. b - (b - j) = j
    OBVIOUS
  <2> QED BY <2>1, <2>2, <2>3
<1> QED BY <1>3, <1>4

\* Induction from 0 up to n.
LEMMA FromTheStart ==
  ASSUME NEW n \in Nat, NEW X, \A k \in 0..n : (\A j \in 0..k - 1 : j \in X) => k \in X
  PROVE  \A k \in 0..n : k \in X
<1> DEFINE Bad == {k \in Nat : k \in 0..n /\ k \notin X}
<1>1. Bad = {}
  <2> SUFFICES ASSUME Bad # {} PROVE FALSE
    OBVIOUS
  <2>1. PICK k \in Bad : \A y \in Bad : k <= y
    <3>1. Bad \subseteq Nat
      OBVIOUS
    <3> HIDE DEF Bad
    <3> QED BY <3>1, LeastNat
  <2>2. \A j \in 0..k - 1 : j \in X
    <3> SUFFICES ASSUME NEW j \in 0..k - 1, j \notin X PROVE FALSE
      OBVIOUS
    <3>1. j \in Bad /\ ~(k <= j)
      OBVIOUS
    <3> QED BY <3>1, <2>1
  <2> QED BY <2>2
<1>2. \A k \in 0..n : k \in Nat
  OBVIOUS
<1> QED BY <1>1, <1>2

\* A recursion that steps from 0 to n.
Iterates(g, n, v, step) ==
  g = [i \in 0..n |-> IF i = 0 THEN v ELSE step[<<i, g[i - 1]>>]]

\* Such a recursion has a solution.
LEMMA IterationExists ==
  ASSUME NEW n \in Nat, NEW v, NEW step
  PROVE  \E g : Iterates(g, n, v, step)
<1> DEFINE Val(g, i) == IF i = 0 THEN v ELSE step[<<i, g[i - 1]>>]
           X == {k \in 0..n : \E g : \A i \in 0..k : g[i] = Val(g, i)}
<1>1. ASSUME NEW k \in 0..n, \A j \in 0..k - 1 : j \in X PROVE k \in X
  <2>1. PICK g : \A i \in 0..k - 1 : g[i] = Val(g, i)
    <3>1. CASE k = 0
      BY <3>1
    <3>2. CASE k # 0
      <4>1. k - 1 \in 0..k - 1
        BY <3>2
      <4>2. k - 1 \in X
        BY <4>1, <1>1, Zenon
      <4> QED BY <4>2
    <3> QED BY <3>1, <3>2
  <2> DEFINE h == [i \in 0..k |-> IF i = k THEN Val(g, k) ELSE g[i]]
  <2>2. \A i \in 0..k : h[i] = IF i = k THEN Val(g, k) ELSE g[i]
    OBVIOUS
  <2> HIDE DEF h
  <2>3. ASSUME NEW i \in 0..k PROVE h[i] = Val(h, i)
    <3>1. i # 0 => i - 1 \in 0..k /\ i - 1 # k
      OBVIOUS
    <3>2. i # k => i \in 0..k - 1
      OBVIOUS
    <3>3. Val(h, i) = Val(g, i)
      BY <3>1, <2>2
    <3> HIDE DEF Val
    <3> QED BY <3>2, <3>3, <2>1, <2>2
  <2> QED BY <2>3
<1>2. n \in X
  <2> HIDE DEF X
  <2>1. \A k \in 0..n : (\A j \in 0..k - 1 : j \in X) => k \in X
    BY <1>1
  <2>2. n \in 0..n
    OBVIOUS
  <2> QED BY <2>1, <2>2, FromTheStart
<1>3. PICK g : \A i \in 0..n : g[i] = Val(g, i)
  BY <1>2
<1> DEFINE h == [i \in 0..n |-> g[i]]
<1>4. \A i \in 0..n : h[i] = Val(h, i)
  <2>1. \A i \in 0..n : i # 0 => i - 1 \in 0..n
    OBVIOUS
  <2>2. \A i \in 0..n : h[i] = g[i]
    OBVIOUS
  <2> HIDE DEF h
  <2> QED BY <2>1, <2>2, <1>3
<1>5. h = [i \in 0..n |-> h[i]]
  OBVIOUS
<1> HIDE DEF h
<1>6. h = [i \in 0..n |-> Val(h, i)]
  BY <1>4, <1>5
<1> QED BY <1>6 DEF Iterates

\* Its values stay in every set that the steps stay in.
LEMMA IterationStays ==
  ASSUME NEW n \in Nat, NEW v, NEW step, NEW g, Iterates(g, n, v, step), NEW V,
         v \in V, \A i \in 1..n : \A x \in V : step[<<i, x>>] \in V
  PROVE  \A i \in 0..n : g[i] \in V
<1> DEFINE X == {i \in 0..n : g[i] \in V}
<1>1. ASSUME NEW k \in 0..n, \A j \in 0..k - 1 : j \in X PROVE k \in X
  <2>1. g[k] = IF k = 0 THEN v ELSE step[<<k, g[k - 1]>>]
    BY DEF Iterates
  <2>2. CASE k = 0
    BY <2>1, <2>2
  <2>3. CASE k # 0
    <3>1. k - 1 \in 0..k - 1 /\ k \in 1..n
      BY <2>3
    <3>2. g[k - 1] \in V
      BY <3>1, <1>1
    <3> QED BY <3>1, <3>2, <2>1, <2>3
  <2> QED BY <2>2, <2>3
<1> HIDE DEF X
<1>2. \A k \in 0..n : (\A j \in 0..k - 1 : j \in X) => k \in X
  BY <1>1
<1>3. \A k \in 0..n : k \in X
  BY <1>2, FromTheStart
<1> QED BY <1>3 DEF X

-----------------------------------------------------------------------------
(* The tree of the rows: transformToExpandableList, list by list.           *)

\* Rows as the tree is made of: only their levels count.
Leveled(list) ==
  /\ Len(list) \in Nat /\ DOMAIN list = 1..Len(list)
  /\ \A i \in 1..Len(list) : list[i].level \in Nat

\* The places of transformToExpandableList: a row, or the end, inside a row of some level.
Places(list) == (1..Len(list) + 1) \X Levels(list)

\* One round of transformToExpandableList, with what the others give in g.
Round(list, g, i, l) ==
  IF i > Len(list) \/ list[i].level <= l THEN [list |-> <<>>, next |-> i]
  ELSE LET next == IF HasChild(list, i) THEN g[<<i + 1, list[i].level>>].next ELSE i + 1
           rest == g[<<next, l>>]
       IN [list |-> <<i>> \o rest.list, next |-> rest.next]

\* The levels that rows are compared with.
LEMMA LevelsAre ==
  ASSUME NEW list, Leveled(list)
  PROVE  /\ -1 \in Levels(list) /\ \A i \in 1..Len(list) : list[i].level \in Levels(list)
         /\ \A l \in Levels(list) : l \in Int
BY DEF Levels, Leveled

\* A round looks only at rows further down.
LEMMA RoundLooksDown ==
  ASSUME NEW list, Leveled(list), NEW i \in 1..Len(list) + 1, NEW l \in Levels(list), NEW g, NEW h,
         \A j \in i + 1..Len(list) + 1 : \A m \in Levels(list) :
           g[<<j, m>>] = h[<<j, m>>] /\ g[<<j, m>>].next \in j..Len(list) + 1
  PROVE  /\ Round(list, g, i, l) = Round(list, h, i, l)
         /\ Round(list, g, i, l).next \in i..Len(list) + 1
<1>1. CASE i > Len(list) \/ list[i].level <= l
  <2>1. Round(list, g, i, l) = [list |-> <<>>, next |-> i]
    BY <1>1 DEF Round
  <2>2. Round(list, h, i, l) = [list |-> <<>>, next |-> i]
    BY <1>1 DEF Round
  <2>3. i \in i..Len(list) + 1
    BY DEF Leveled
  <2> QED BY <2>1, <2>2, <2>3
<1>2. CASE ~(i > Len(list) \/ list[i].level <= l)
  <2> DEFINE next(f) == IF HasChild(list, i) THEN f[<<i + 1, list[i].level>>].next ELSE i + 1
  <2>1. i \in 1..Len(list) /\ Len(list) \in Nat /\ list[i].level \in Levels(list)
    BY <1>2, LevelsAre DEF Leveled
  <2>2. next(g) = next(h) /\ next(g) \in i + 1..Len(list) + 1
    BY <2>1
  <2> HIDE DEF next
  <2>3. g[<<next(g), l>>] = h[<<next(g), l>>] /\ g[<<next(g), l>>].next \in i + 1..Len(list) + 1
    BY <2>1, <2>2
  <2>4. /\ Round(list, g, i, l) = [list |-> <<i>> \o g[<<next(g), l>>].list, next |-> g[<<next(g), l>>].next]
        /\ Round(list, h, i, l) = [list |-> <<i>> \o h[<<next(h), l>>].list, next |-> h[<<next(h), l>>].next]
    BY <1>2 DEF Round, next
  <2>5. Round(list, g, i, l) = Round(list, h, i, l)
    BY <2>2, <2>3, <2>4
  <2>6. Round(list, g, i, l).next = g[<<next(g), l>>].next
    BY <2>4
  <2>7. Round(list, g, i, l).next \in i..Len(list) + 1
    BY <2>1, <2>3, <2>6
  <2> QED BY <2>5, <2>7
<1> QED BY <1>1, <1>2

\* The recursion of transformToExpandableList has a solution.
LEMMA TransformExists ==
  ASSUME NEW list, Leveled(list)
  PROVE  \E g : g = [at \in Places(list) |-> Round(list, g, at[1], at[2])]
<1> DEFINE n == Len(list)
           D == Places(list)
           Good(g, k) == \A i \in k..n + 1 : \A l \in Levels(list) :
                           g[<<i, l>>] = Round(list, g, i, l) /\ g[<<i, l>>].next \in i..n + 1
           X == {k \in 1..n + 1 : \E g : Good(g, k)}
<1>1. n \in Nat
  BY DEF Leveled
<1>2. ASSUME NEW k \in 1..n + 1, \A j \in k + 1..n + 1 : j \in X PROVE k \in X
  <2>1. PICK g : \A i \in k + 1..n + 1 : \A l \in Levels(list) :
                   g[<<i, l>>] = Round(list, g, i, l) /\ g[<<i, l>>].next \in i..n + 1
    <3>1. CASE k = n + 1
      BY <3>1, <1>1
    <3>2. CASE k # n + 1
      <4>1. k + 1 \in k + 1..n + 1
        BY <3>2, <1>1
      <4>2. k + 1 \in X
        BY <4>1, <1>2, Zenon
      <4> QED BY <4>2
    <3> QED BY <3>1, <3>2
  <2> DEFINE h == [at \in D |-> IF at[1] > k THEN g[at] ELSE Round(list, g, at[1], at[2])]
  <2>2. \A i \in k..n + 1, l \in Levels(list) :
          h[<<i, l>>] = IF i > k THEN g[<<i, l>>] ELSE Round(list, g, i, l)
    BY <1>1 DEF Places
  <2> HIDE DEF h
  <2>3. ASSUME NEW i \in k..n + 1, NEW l \in Levels(list)
        PROVE  h[<<i, l>>] = Round(list, h, i, l) /\ h[<<i, l>>].next \in i..n + 1
    <3>1. i \in 1..n + 1 /\ i \in Int /\ k \in Int
      BY <1>1
    <3>2. ASSUME NEW j \in i + 1..n + 1, NEW m \in Levels(list)
          PROVE  g[<<j, m>>] = h[<<j, m>>] /\ g[<<j, m>>].next \in j..n + 1
      <4>1. j \in k + 1..n + 1 /\ j > k
        BY <3>1, <1>1
      <4> QED BY <4>1, <2>1, <2>2, <1>1
    <3>3. Round(list, g, i, l) = Round(list, h, i, l) /\ Round(list, g, i, l).next \in i..n + 1
      <4> HIDE DEF n
      <4> QED BY <3>1, <3>2, RoundLooksDown DEF n
    <3>4. CASE i > k
      <4>1. i \in k + 1..n + 1
        BY <3>1, <3>4, <1>1
      <4> QED BY <4>1, <3>3, <3>4, <2>1, <2>2
    <3>5. CASE i = k
      BY <3>5, <3>3, <2>2, <3>1
    <3> QED BY <3>4, <3>5, <3>1
  <2> QED BY <2>3
<1>3. 1 \in X
  <2> HIDE DEF X, n
  <2>1. 1 \in Int /\ n + 1 \in Int /\ 1 \in 1..n + 1
    BY <1>1
  <2>2. \A k \in 1..n + 1 : (\A j \in k + 1..n + 1 : j \in X) => k \in X
    BY <1>2
  <2>3. \A k \in 1..n + 1 : k \in X
    BY <2>1, <2>2, FromTheEnd
  <2> QED BY <2>1, <2>3
<1>4. PICK g : Good(g, 1)
  BY <1>3
<1> DEFINE h == [at \in D |-> g[at]]
<1>5. ASSUME NEW at \in D PROVE h[at] = Round(list, h, at[1], at[2])
  <2>1. at = <<at[1], at[2]>> /\ at[1] \in 1..n + 1 /\ at[2] \in Levels(list)
    BY DEF Places
  <2>2. h[at] = g[at]
    OBVIOUS
  <2>3. \A j \in 1..n + 1, m \in Levels(list) : g[<<j, m>>] = h[<<j, m>>] /\ g[<<j, m>>].next \in j..n + 1
    BY <1>4 DEF Places
  <2> HIDE DEF h
  <2>4. \A j \in at[1] + 1..n + 1, m \in Levels(list) : g[<<j, m>>] = h[<<j, m>>] /\ g[<<j, m>>].next \in j..n + 1
    <3>1. \A a \in 1..n + 1 : \A j \in a + 1..n + 1 : j \in 1..n + 1
      BY <1>1
    <3> HIDE DEF n, D
    <3> QED BY <2>1, <2>3, <3>1
  <2>5. Round(list, g, at[1], at[2]) = Round(list, h, at[1], at[2])
    BY <2>1, <2>4, RoundLooksDown
  <2>6. g[<<at[1], at[2]>>] = Round(list, g, at[1], at[2])
    BY <2>1, <1>4
  <2> QED BY <2>1, <2>2, <2>5, <2>6
<1>6. h = [at \in D |-> h[at]]
  OBVIOUS
<1>7. h = [at \in D |-> Round(list, h, at[1], at[2])]
  <2> HIDE DEF h
  <2> QED BY <1>5, <1>6
<1> HIDE DEF h
<1> QED BY <1>7

\* The list that begins at row i inside a row of level l.
ListAt(list, i, l) == Transform(list)[<<i, l>>].list
\* The row after that list.
NextAt(list, i, l) == Transform(list)[<<i, l>>].next

\* The first row that is not below row i.
After(list, i) == IF HasChild(list, i) THEN NextAt(list, i + 1, list[i].level) ELSE i + 1

\* Transform is that solution.
LEMMA TransformRounds ==
  ASSUME NEW list, Leveled(list)
  PROVE  \A i \in 1..Len(list) + 1, l \in Levels(list) :
           Transform(list)[<<i, l>>] = Round(list, Transform(list), i, l)
<1> DEFINE Fix(g) == g = [at \in Places(list) |-> Round(list, g, at[1], at[2])]
<1>1. Transform(list) = CHOOSE g : Fix(g)
  BY DEF Transform, Round, Places
<1>2. \E g : Fix(g)
  BY TransformExists
<1>3. Fix(CHOOSE g : Fix(g))
  <2> HIDE DEF Fix
  <2> QED BY <1>2, Zenon
<1>4. Fix(Transform(list))
  <2> HIDE DEF Fix
  <2> QED BY <1>1, <1>3
<1> DEFINE T == Transform(list)
<1> HIDE DEF T
<1>5. T = [at \in Places(list) |-> Round(list, T, at[1], at[2])]
  BY <1>4 DEF T
<1>6. \A at \in Places(list) : T[at] = Round(list, T, at[1], at[2])
  BY <1>5
<1>7. \A i \in 1..Len(list) + 1, l \in Levels(list) : <<i, l>> \in Places(list)
  BY DEF Places
<1>8. \A i \in 1..Len(list) + 1, l \in Levels(list) : T[<<i, l>>] = Round(list, T, i, l)
  BY <1>6, <1>7
<1> QED BY <1>8 DEF T

\* The rows from i on, inside a row of level l, one after the other.
LEMMA TransformRows ==
  ASSUME NEW list, Leveled(list), NEW i \in 1..Len(list) + 1, NEW l \in Levels(list)
  PROVE  /\ NextAt(list, i, l) \in i..Len(list) + 1
         /\ (i > Len(list) \/ list[i].level <= l) => ListAt(list, i, l) = <<>> /\ NextAt(list, i, l) = i
         /\ ~(i > Len(list) \/ list[i].level <= l) =>
              /\ After(list, i) \in i + 1..Len(list) + 1
              /\ ListAt(list, i, l) = <<i>> \o ListAt(list, After(list, i), l)
              /\ NextAt(list, i, l) = NextAt(list, After(list, i), l)
<1> DEFINE n == Len(list)
           T == Transform(list)
           X == {k \in 1..n + 1 : \A m \in Levels(list) : T[<<k, m>>].next \in k..n + 1}
<1>1. n \in Nat
  BY DEF Leveled
<1>2. \A k \in 1..n + 1, m \in Levels(list) : T[<<k, m>>] = Round(list, T, k, m)
  BY TransformRounds
<1> HIDE DEF T
<1>3. ASSUME NEW k \in 1..n + 1, \A j \in k + 1..n + 1 : j \in X PROVE k \in X
  <2>1. ASSUME NEW m \in Levels(list) PROVE T[<<k, m>>].next \in k..n + 1
    <3>1. \A j \in k + 1..n + 1 : \A u \in Levels(list) :
            T[<<j, u>>] = T[<<j, u>>] /\ T[<<j, u>>].next \in j..n + 1
      BY <1>3
    <3>2. Round(list, T, k, m).next \in k..n + 1
      BY <3>1, RoundLooksDown
    <3> QED BY <3>2, <1>2
  <2> QED BY <2>1
<1>4. \A k \in 1..n + 1 : k \in X
  <2> HIDE DEF X, n
  <2>1. 1 \in Int /\ n + 1 \in Int
    BY <1>1
  <2> QED BY <2>1, <1>3, FromTheEnd
<1>5. \A k \in 1..n + 1, m \in Levels(list) : T[<<k, m>>].next \in k..n + 1
  BY <1>4
<1>6. NextAt(list, i, l) \in i..n + 1
  BY <1>5 DEF NextAt, T
<1>7. ASSUME i > n \/ list[i].level <= l
      PROVE  ListAt(list, i, l) = <<>> /\ NextAt(list, i, l) = i
  <2>1. Round(list, T, i, l) = [list |-> <<>>, next |-> i]
    BY <1>7 DEF Round
  <2> QED BY <2>1, <1>2 DEF ListAt, NextAt, T
<1>8. ASSUME ~(i > n \/ list[i].level <= l)
      PROVE  /\ After(list, i) \in i + 1..n + 1
             /\ ListAt(list, i, l) = <<i>> \o ListAt(list, After(list, i), l)
             /\ NextAt(list, i, l) = NextAt(list, After(list, i), l)
  <2>1. After(list, i) = IF HasChild(list, i) THEN T[<<i + 1, list[i].level>>].next ELSE i + 1
    BY DEF After, NextAt, T
  <2>2. i \in 1..n /\ list[i].level \in Levels(list)
    BY <1>8, <1>1, LevelsAre
  <2>3. After(list, i) \in i + 1..n + 1
    BY <2>1, <2>2, <1>5, <1>1
  <2>4. Round(list, T, i, l) = [list |-> <<i>> \o T[<<After(list, i), l>>].list,
                                next |-> T[<<After(list, i), l>>].next]
    BY <1>8, <2>1 DEF Round
  <2>5. T[<<i, l>>] = [list |-> <<i>> \o T[<<After(list, i), l>>].list,
                       next |-> T[<<After(list, i), l>>].next]
    BY <2>4, <1>2
  <2>6. /\ T[<<i, l>>].list = <<i>> \o T[<<After(list, i), l>>].list
        /\ T[<<i, l>>].next = T[<<After(list, i), l>>].next
    BY <2>5
  <2> QED BY <2>3, <2>6 DEF ListAt, NextAt, T
<1> QED BY <1>6, <1>7, <1>8

\* What a list holds: rows of a larger level up to the next that is not, each followed by
\* the first that is not below it, and none below a row that comes between.
Chain(list, i, l) ==
  LET rowsOf == ListAt(list, i, l)
      next == NextAt(list, i, l)
  IN /\ rowsOf \in Seq(i..next - 1)
     /\ \A j \in i..next - 1 : list[j].level > l
     /\ next <= Len(list) => list[next].level <= l
     /\ IF rowsOf = <<>> THEN next = i ELSE rowsOf[1] = i /\ After(list, rowsOf[Len(rowsOf)]) = next
     /\ \A k \in 1..Len(rowsOf) - 1 : rowsOf[k + 1] = After(list, rowsOf[k])
     /\ \A k \in 1..Len(rowsOf) : \A j \in i..rowsOf[k] - 1 : list[j].level >= list[rowsOf[k]].level
     /\ \A j \in i..next - 1 :
          \/ \E k \in 1..Len(rowsOf) : rowsOf[k] = j
          \/ \E p \in i..next - 1 : HasChild(list, p) /\ j \in ToSet(ListAt(list, p + 1, list[p].level))

\* The rows below row i, those up to After(list, i), are just the ones of a larger level.
LEMMA BelowRow ==
  ASSUME NEW list, Leveled(list), NEW i \in 1..Len(list),
         HasChild(list, i) => Chain(list, i + 1, list[i].level)
  PROVE  /\ \A j \in i + 1..After(list, i) - 1 : list[j].level > list[i].level
         /\ After(list, i) <= Len(list) => list[After(list, i)].level <= list[i].level
         /\ After(list, i) - 1 >= i + 1 => HasChild(list, i)
<1>1. CASE HasChild(list, i)
  BY <1>1 DEF Chain, After
<1>2. CASE ~HasChild(list, i)
  <2>1. After(list, i) = i + 1
    BY <1>2 DEF After
  <2>2. i < Len(list) => i + 1 \in 1..Len(list)
    BY DEF Leveled
  <2>3. i < Len(list) => list[i + 1].level <= list[i].level
    BY <1>2, <2>2 DEF HasChild, Leveled
  <2> QED BY <2>1, <2>3 DEF Leveled
<1> QED BY <1>1, <1>2

\* An element in front of a sequence.
LEMMA ConsProperties ==
  ASSUME NEW S, NEW q \in Seq(S), NEW e \in S
  PROVE  /\ <<e>> \o q \in Seq(S) /\ <<e>> \o q # <<>>
         /\ Len(<<e>> \o q) = Len(q) + 1
         /\ (<<e>> \o q)[1] = e
         /\ \A k \in 2..Len(q) + 1 : (<<e>> \o q)[k] = q[k - 1]
<1>1. <<e>> \in Seq(S) /\ Len(<<e>>) = 1 /\ <<e>>[1] = e
  OBVIOUS
<1> DEFINE u == <<e>>
<1> HIDE DEF u
<1>2. u \in Seq(S) /\ Len(u) = 1 /\ u[1] = e
  BY <1>1 DEF u
<1>3. /\ u \o q \in Seq(S) /\ Len(u \o q) = Len(u) + Len(q)
      /\ \A k \in 1..Len(u) + Len(q) : (u \o q)[k] = IF k <= Len(u) THEN u[k] ELSE q[k - Len(u)]
  BY <1>2, ConcatProperties
<1>4. Len(q) \in Nat
  BY LenProperties
<1> QED BY <1>2, <1>3, <1>4 DEF u

\* One row in front of a chain: what it holds is below it or one of the chain.
LEMMA ChainStep ==
  ASSUME NEW list, Leveled(list), NEW i \in 1..Len(list), NEW l \in Levels(list),
         list[i].level > l,
         HasChild(list, i) => Chain(list, i + 1, list[i].level),
         Chain(list, After(list, i), l)
  PROVE  Chain(list, i, l)
<1> DEFINE n == Len(list)
           a == After(list, i)
           rest == ListAt(list, a, l)
           mine == ListAt(list, i, l)
           next == NextAt(list, a, l)
<1>1. /\ n \in Nat /\ i \in 1..n /\ l \in Int
      /\ \A j \in 1..n : list[j].level \in Nat
  BY LevelsAre DEF Leveled
<1>2. a \in i + 1..n + 1 /\ mine = <<i>> \o rest /\ NextAt(list, i, l) = next
  <2>1. i \in 1..n + 1 /\ ~(i > n \/ list[i].level <= l)
    BY <1>1
  <2> QED BY <2>1, TransformRows
<1>3. next \in a..n + 1
  <2>1. a \in 1..n + 1
    BY <1>1, <1>2
  <2> HIDE DEF a
  <2> QED BY <2>1, TransformRows
<1>4. /\ rest \in Seq(a..next - 1)
      /\ \A j \in a..next - 1 : list[j].level > l
      /\ next <= n => list[next].level <= l
      /\ IF rest = <<>> THEN next = a ELSE rest[1] = a /\ After(list, rest[Len(rest)]) = next
      /\ \A k \in 1..Len(rest) - 1 : rest[k + 1] = After(list, rest[k])
      /\ \A k \in 1..Len(rest) : \A j \in a..rest[k] - 1 : list[j].level >= list[rest[k]].level
      /\ \A j \in a..next - 1 :
           \/ \E k \in 1..Len(rest) : rest[k] = j
           \/ \E p \in a..next - 1 : HasChild(list, p) /\ j \in ToSet(ListAt(list, p + 1, list[p].level))
  BY DEF Chain
<1>5. /\ \A j \in i + 1..a - 1 : list[j].level > list[i].level
      /\ a <= n => list[a].level <= list[i].level
      /\ a - 1 >= i + 1 => HasChild(list, i)
  BY BelowRow
<1> HIDE DEF n, a, rest, mine, next
<1>6. /\ mine \in Seq(i..next - 1) /\ mine # <<>> /\ Len(mine) = Len(rest) + 1 /\ Len(rest) \in Nat
      /\ mine[1] = i /\ \A k \in 2..Len(mine) : mine[k] = rest[k - 1]
  <2>1. rest \in Seq(i..next - 1) /\ i \in i..next - 1
    <3>1. a..next - 1 \subseteq i..next - 1
      BY <1>1, <1>2, <1>3
    <3>2. Seq(a..next - 1) \subseteq Seq(i..next - 1)
      BY <3>1, SeqMonotonic, Zenon
    <3> QED BY <3>2, <1>1, <1>2, <1>3, <1>4
  <2> QED BY <2>1, <1>2, ConsProperties
<1>7. \A j \in i..next - 1 : list[j].level > l
  <2> TAKE j \in i..next - 1
  <2>1. j = i \/ j \in i + 1..a - 1 \/ j \in a..next - 1
    BY <1>1, <1>2, <1>3
  <2>2. j \in 1..n
    BY <1>1, <1>3
  <2> QED BY <2>1, <2>2, <1>1, <1>4, <1>5
<1>8. After(list, mine[Len(mine)]) = next
  <2>1. CASE rest = <<>>
    <3>1. Len(mine) = 1 /\ next = a
      BY <2>1, <1>4, <1>6
    <3> QED BY <3>1, <1>6 DEF a
  <2>2. CASE rest # <<>>
    <3>1. Len(mine) \in 2..Len(mine) /\ Len(mine) - 1 = Len(rest)
      BY <2>2, <1>4, <1>6
    <3>2. mine[Len(mine)] = rest[Len(rest)]
      BY <3>1, <1>6
    <3> QED BY <3>2, <2>2, <1>4
  <2> QED BY <2>1, <2>2
<1>9. ASSUME NEW k \in 1..Len(mine) - 1 PROVE mine[k + 1] = After(list, mine[k])
  <2>1. k \in 1..Len(rest) /\ mine[k + 1] = rest[k]
    BY <1>6
  <2>2. CASE k = 1
    <3>1. rest # <<>>
      BY <2>1, <1>4
    <3>2. rest[1] = a
      BY <3>1, <1>4
    <3> QED BY <3>2, <2>1, <2>2, <1>6 DEF a
  <2>3. CASE k # 1
    <3>1. k - 1 \in 1..Len(rest) - 1 /\ mine[k] = rest[k - 1] /\ (k - 1) + 1 = k
      BY <2>1, <2>3, <1>6
    <3>2. rest[(k - 1) + 1] = After(list, rest[k - 1])
      BY <3>1, <1>4
    <3> QED BY <3>1, <3>2, <2>1
  <2> QED BY <2>2, <2>3
<1>10. ASSUME NEW k \in 1..Len(mine), NEW j \in i..mine[k] - 1
       PROVE  list[j].level >= list[mine[k]].level
  <2>1. CASE k = 1
    BY <2>1, <1>6, <1>1
  <2>2. CASE k # 1
    <3> DEFINE q == rest[k - 1]
    <3>1. k - 1 \in 1..Len(rest) /\ mine[k] = q
      BY <2>2, <1>6
    <3>2. q \in a..next - 1
      BY <3>1, <1>4, ElementOfSeq
    <3>3. \A m \in a..q - 1 : list[m].level >= list[q].level
      BY <3>1, <1>4
    <3> HIDE DEF q
    <3>4. q \in 1..n /\ a \in 1..n /\ j \in 1..n
      <4>1. j \in i..q - 1
        BY <3>1
      <4> QED BY <4>1, <3>2, <1>1, <1>2, <1>3
    <3>5. list[i].level >= list[q].level
      <4>1. CASE q = a
        BY <4>1, <1>5, <3>4, <1>1
      <4>2. CASE q # a
        <5>1. a \in a..q - 1
          BY <4>2, <3>2, <3>4
        <5>2. list[a].level >= list[q].level
          BY <5>1, <3>3
        <5> QED BY <5>2, <1>5, <3>4, <1>1
      <4> QED BY <4>1, <4>2
    <3>6. j = i \/ j \in i + 1..a - 1 \/ j \in a..q - 1
      BY <3>1, <3>4, <1>1
    <3> QED BY <3>1, <3>3, <3>4, <3>5, <3>6, <1>1, <1>5
  <2> QED BY <2>1, <2>2
<1>11. ASSUME NEW j \in i..next - 1
       PROVE  \/ \E k \in 1..Len(mine) : mine[k] = j
              \/ \E p \in i..next - 1 : HasChild(list, p) /\ j \in ToSet(ListAt(list, p + 1, list[p].level))
  <2>1. CASE j = i
    <3>1. 1 \in 1..Len(mine) /\ mine[1] = j
      BY <2>1, <1>6
    <3> QED BY <3>1
  <2>2. CASE j \in i + 1..a - 1
    <3> DEFINE inner == ListAt(list, i + 1, list[i].level)
    <3>1. HasChild(list, i) /\ NextAt(list, i + 1, list[i].level) = a
      BY <2>2, <1>5, <1>1, <1>2 DEF a, After
    <3>2. /\ inner \in Seq(i + 1..a - 1)
          /\ \/ \E k \in 1..Len(inner) : inner[k] = j
             \/ \E p \in i + 1..a - 1 : HasChild(list, p) /\ j \in ToSet(ListAt(list, p + 1, list[p].level))
      BY <3>1, <2>2 DEF Chain
    <3> HIDE DEF inner
    <3>3. CASE \E k \in 1..Len(inner) : inner[k] = j
      <4>1. j \in ToSet(inner)
        BY <3>2, <3>3 DEF ToSet
      <4>2. i \in i..next - 1
        BY <1>1, <1>2, <1>3
      <4> QED BY <4>1, <4>2, <3>1 DEF inner
    <3>4. CASE \E p \in i + 1..a - 1 : HasChild(list, p) /\ j \in ToSet(ListAt(list, p + 1, list[p].level))
      <4>1. i + 1..a - 1 \subseteq i..next - 1
        BY <1>1, <1>2, <1>3
      <4> QED BY <4>1, <3>4
    <3> QED BY <3>2, <3>3, <3>4
  <2>3. CASE j \in a..next - 1
    <3>1. a..next - 1 \subseteq i..next - 1
      BY <1>1, <1>2, <1>3
    <3>2. CASE \E k \in 1..Len(rest) : rest[k] = j
      <4>1. PICK k \in 1..Len(rest) : rest[k] = j
        BY <3>2
      <4>2. k + 1 \in 1..Len(mine) /\ mine[k + 1] = j
        BY <4>1, <1>6
      <4> QED BY <4>2
    <3>3. CASE \E p \in a..next - 1 : HasChild(list, p) /\ j \in ToSet(ListAt(list, p + 1, list[p].level))
      BY <3>1, <3>3
    <3> QED BY <2>3, <3>2, <3>3, <1>4
  <2>4. j = i \/ j \in i + 1..a - 1 \/ j \in a..next - 1
    BY <1>1, <1>2, <1>3
  <2> QED BY <2>1, <2>2, <2>3, <2>4
<1> QED BY <1>2, <1>4, <1>6, <1>7, <1>8, <1>9, <1>10, <1>11 DEF Chain, mine, n, next

\* Every list holds what Chain says of it, from the last row up.
LEMMA ChainHolds ==
  ASSUME NEW list, Leveled(list)
  PROVE  \A i \in 1..Len(list) + 1, l \in Levels(list) : Chain(list, i, l)
<1> DEFINE n == Len(list)
           X == {i \in 1..n + 1 : \A l \in Levels(list) : Chain(list, i, l)}
<1>1. n \in Nat
  BY DEF Leveled
<1>2. ASSUME NEW i \in 1..n + 1, \A j \in i + 1..n + 1 : j \in X PROVE i \in X
  <2>1. ASSUME NEW l \in Levels(list) PROVE Chain(list, i, l)
    <3>1. CASE i > n \/ list[i].level <= l
      <4>1. ListAt(list, i, l) = <<>> /\ NextAt(list, i, l) = i
        BY <3>1, TransformRows
      <4>2. i <= n => list[i].level <= l
        BY <3>1, <1>1
      <4>3. <<>> \in Seq(i..i - 1) /\ Len(<<>>) = 0
        OBVIOUS
      <4> QED BY <4>1, <4>2, <4>3, <1>1 DEF Chain
    <3>2. CASE ~(i > n \/ list[i].level <= l)
      <4>1. After(list, i) \in i + 1..n + 1
        BY <3>2, TransformRows
      <4>2. i \in 1..n /\ i + 1 \in i + 1..n + 1 /\ list[i].level \in Levels(list) /\ list[i].level > l
        BY <3>2, <1>1, LevelsAre DEF Leveled
      <4>3. Chain(list, After(list, i), l) /\ Chain(list, i + 1, list[i].level)
        BY <4>1, <4>2, <1>2
      <4> QED BY <4>2, <4>3, ChainStep
    <3> QED BY <3>1, <3>2
  <2> QED BY <2>1
<1>3. \A i \in 1..n + 1 : i \in X
  <2> HIDE DEF X, n
  <2>1. 1 \in Int /\ n + 1 \in Int
    BY <1>1
  <2> QED BY <2>1, <1>2, FromTheEnd
<1> QED BY <1>3

\* The level of a row, of the flow itself for 0.
LevelAt(list, p) == IF p = 0 THEN -1 ELSE list[p].level
\* The first row that is not below a row, the end for the flow itself.
EndAt(list, p)   == IF p = 0 THEN Len(list) + 1 ELSE After(list, p)

\* What is known of one list of the tree.
Branch(list, p) ==
  LET rowsOf == Expandable(list)[p]
      next == EndAt(list, p)
  IN /\ next \in p + 1..Len(list) + 1
     /\ rowsOf \in Seq(p + 1..next - 1)
     /\ \A j \in p + 1..next - 1 : list[j].level > LevelAt(list, p)
     /\ next <= Len(list) => list[next].level <= LevelAt(list, p)
     /\ IF rowsOf = <<>> THEN next = p + 1
        ELSE rowsOf[1] = p + 1 /\ EndAt(list, rowsOf[Len(rowsOf)]) = next
     /\ \A k \in 1..Len(rowsOf) - 1 : rowsOf[k + 1] = EndAt(list, rowsOf[k])
     /\ \A k \in 1..Len(rowsOf) : \A j \in p + 1..rowsOf[k] - 1 : list[j].level >= list[rowsOf[k]].level

\* The lists of the tree are lists of transformToExpandableList.
LEMMA TreeIs ==
  ASSUME NEW list, Leveled(list)
  PROVE  /\ DOMAIN Expandable(list) = 0..Len(list)
         /\ Expandable(list)[0] = ListAt(list, 1, -1)
         /\ \A p \in 1..Len(list) :
              Expandable(list)[p] = IF HasChild(list, p) THEN ListAt(list, p + 1, list[p].level) ELSE <<>>
<1>1. Len(list) \in Nat
  BY DEF Leveled
<1> QED BY <1>1 DEF Expandable, ListAt

\* The list of the flow goes to the end.
LEMMA BranchTop ==
  ASSUME NEW list, Leveled(list)
  PROVE  Branch(list, 0) /\ NextAt(list, 1, -1) = Len(list) + 1
<1> DEFINE n == Len(list)
           next == NextAt(list, 1, -1)
           rowsOf == ListAt(list, 1, -1)
<1>1. /\ n \in Nat /\ 1 \in 1..n + 1 /\ -1 \in Levels(list)
      /\ \A j \in 1..n : list[j].level \in Nat
  BY LevelsAre DEF Leveled
<1>2. Chain(list, 1, -1) /\ next \in 1..n + 1
  BY <1>1, ChainHolds, TransformRows
<1>3. next = n + 1
  <2>1. next <= n => list[next].level <= -1
    BY <1>2 DEF Chain
  <2>2. next <= n => next \in 1..n
    BY <1>1, <1>2
  <2>3. \A x \in Nat : ~(x <= -1)
    OBVIOUS
  <2>4. ~(next <= n)
    BY <2>1, <2>2, <2>3, <1>1
  <2> HIDE DEF next, n
  <2> QED BY <2>4, <1>1, <1>2
<1>4. Expandable(list)[0] = rowsOf
  BY TreeIs
<1>5. /\ rowsOf \in Seq(1..next - 1)
      /\ \A j \in 1..next - 1 : list[j].level > -1
      /\ IF rowsOf = <<>> THEN next = 1 ELSE rowsOf[1] = 1 /\ After(list, rowsOf[Len(rowsOf)]) = next
      /\ \A k \in 1..Len(rowsOf) - 1 : rowsOf[k + 1] = After(list, rowsOf[k])
      /\ \A k \in 1..Len(rowsOf) : \A j \in 1..rowsOf[k] - 1 : list[j].level >= list[rowsOf[k]].level
  BY <1>2 DEF Chain
<1>6. \A k \in 1..Len(rowsOf) : rowsOf[k] \in 1..n
  BY <1>3, <1>5, ElementOfSeq
<1>7. Len(rowsOf) \in Nat /\ (rowsOf # <<>> => Len(rowsOf) \in 1..Len(rowsOf))
  BY <1>5, EmptySeq, LenProperties
<1> HIDE DEF n, next, rowsOf
<1>8. \A k \in 1..Len(rowsOf) : EndAt(list, rowsOf[k]) = After(list, rowsOf[k])
  BY <1>1, <1>6 DEF EndAt
<1>9. EndAt(list, 0) = n + 1 /\ LevelAt(list, 0) = -1
  BY DEF EndAt, LevelAt, n
<1>10. ~(n + 1 <= n)
  BY <1>1
<1>11. \A k \in 1..Len(rowsOf) - 1 : k \in 1..Len(rowsOf)
  BY <1>7
<1> QED BY <1>1, <1>3, <1>4, <1>5, <1>7, <1>8, <1>9, <1>10, <1>11 DEF Branch, n, next

\* So is the list of each row, which is empty when no row is below it.
LEMMA BranchRow ==
  ASSUME NEW list, Leveled(list), NEW p \in 1..Len(list)
  PROVE  Branch(list, p) /\ (HasChild(list, p) <=> Expandable(list)[p] # <<>>)
<1> DEFINE n == Len(list)
           next == After(list, p)
           rowsOf == Expandable(list)[p]
<1>1. /\ n \in Nat /\ p \in Int /\ p # 0
      /\ EndAt(list, p) = next /\ LevelAt(list, p) = list[p].level
  BY DEF Leveled, EndAt, LevelAt
<1>2. HasChild(list, p) => Chain(list, p + 1, list[p].level)
  <2>1. p + 1 \in 1..n + 1 /\ list[p].level \in Levels(list)
    BY <1>1, LevelsAre
  <2> QED BY <2>1, ChainHolds
<1>3. /\ \A j \in p + 1..next - 1 : list[j].level > list[p].level
      /\ next <= n => list[next].level <= list[p].level
  BY <1>2, BelowRow
<1>4. next \in p + 1..n + 1
  <2>1. p \in 1..n + 1 /\ -1 \in Levels(list) /\ ~(p > n \/ list[p].level <= -1)
    BY <1>1, LevelsAre DEF Leveled
  <2> QED BY <2>1, TransformRows
<1>5. CASE ~HasChild(list, p)
  <2>1. rowsOf = <<>> /\ next = p + 1 /\ Len(<<>>) = 0 /\ <<>> \in Seq(p + 1..p)
    BY <1>5, TreeIs DEF After
  <2> QED BY <1>1, <1>3, <1>4, <1>5, <2>1 DEF Branch
<1>6. CASE HasChild(list, p)
  <2>1. rowsOf = ListAt(list, p + 1, list[p].level) /\ next = NextAt(list, p + 1, list[p].level)
    BY <1>6, TreeIs DEF After
  <2>2. p + 1 \in 1..n /\ list[p + 1].level > list[p].level
    BY <1>1, <1>6 DEF HasChild, Leveled
  <2>3. rowsOf # <<>>
    <3>1. /\ p + 1 \in 1..n + 1 /\ list[p].level \in Levels(list)
          /\ ~(p + 1 > n \/ list[p + 1].level <= list[p].level)
      BY <2>2, <1>1, LevelsAre DEF Leveled
    <3>2. After(list, p + 1) \in p + 2..n + 1 /\ rowsOf = <<p + 1>> \o ListAt(list, After(list, p + 1), list[p].level)
      <4>1. (p + 1) + 1 = p + 2
        BY <1>1
      <4> QED BY <3>1, <4>1, <2>1, TransformRows
    <3>3. ListAt(list, After(list, p + 1), list[p].level) \in Seq(Int)
      <4>1. After(list, p + 1) \in 1..n + 1
        BY <3>2, <1>1
      <4>2. Chain(list, After(list, p + 1), list[p].level)
        BY <4>1, <3>1, ChainHolds
      <4>3. \A a, b : Seq(a..b) \subseteq Seq(Int)
        <5>1. \A a, b : a..b \subseteq Int
          OBVIOUS
        <5> QED BY <5>1, SeqMonotonic, Zenon
      <4> QED BY <4>2, <4>3 DEF Chain
    <3>4. <<p + 1>> \o ListAt(list, After(list, p + 1), list[p].level) # <<>>
      <4>1. p + 1 \in Int
        BY <1>1
      <4> QED BY <3>3, <4>1, ConsProperties
    <3> QED BY <3>2, <3>4
  <2>4. /\ rowsOf \in Seq(p + 1..next - 1)
        /\ rowsOf[1] = p + 1 /\ After(list, rowsOf[Len(rowsOf)]) = next
        /\ \A k \in 1..Len(rowsOf) - 1 : rowsOf[k + 1] = After(list, rowsOf[k])
        /\ \A k \in 1..Len(rowsOf) : \A j \in p + 1..rowsOf[k] - 1 : list[j].level >= list[rowsOf[k]].level
    BY <1>2, <1>6, <2>1, <2>3 DEF Chain
  <2>5. \A k \in 1..Len(rowsOf) : rowsOf[k] \in p + 1..next - 1
    BY <2>4, ElementOfSeq
  <2>6. Len(rowsOf) \in Nat /\ Len(rowsOf) \in 1..Len(rowsOf)
    BY <2>3, <2>4, EmptySeq, LenProperties
  <2> HIDE DEF n, next, rowsOf
  <2>7. \A k \in 1..Len(rowsOf) : EndAt(list, rowsOf[k]) = After(list, rowsOf[k])
    BY <1>1, <1>4, <2>5 DEF EndAt
  <2>8. \A k \in 1..Len(rowsOf) - 1 : k \in 1..Len(rowsOf)
    BY <2>6
  <2> QED BY <1>1, <1>3, <1>4, <1>6, <2>3, <2>4, <2>6, <2>7, <2>8 DEF Branch, n, next, rowsOf
<1> QED BY <1>5, <1>6

\* All of the tree's lists are as Branch says.
LEMMA BranchHolds ==
  ASSUME NEW list, Leveled(list)
  PROVE  \A p \in 0..Len(list) : Branch(list, p)
<1> SUFFICES ASSUME NEW p \in 0..Len(list) PROVE Branch(list, p)
  OBVIOUS
<1>1. p = 0 \/ p \in 1..Len(list)
  BY DEF Leveled
<1> QED BY <1>1, BranchTop, BranchRow

\* Every row stands in a list of the tree.
LEMMA EveryRowInTree ==
  ASSUME NEW list, Leveled(list), NEW j \in 1..Len(list)
  PROVE  \E p \in 0..Len(list) : \E k \in 1..Len(Expandable(list)[p]) : Expandable(list)[p][k] = j
<1> DEFINE n == Len(list)
<1>1. n \in Nat
  BY DEF Leveled
<1>2. Chain(list, 1, -1) /\ NextAt(list, 1, -1) = n + 1
  <2>1. 1 \in 1..n + 1 /\ -1 \in Levels(list)
    BY <1>1, LevelsAre
  <2> QED BY <2>1, ChainHolds, BranchTop
<1>3. \/ \E k \in 1..Len(ListAt(list, 1, -1)) : ListAt(list, 1, -1)[k] = j
      \/ \E p \in 1..n : HasChild(list, p) /\ j \in ToSet(ListAt(list, p + 1, list[p].level))
  <2>1. j \in 1..(n + 1) - 1 /\ 1..(n + 1) - 1 = 1..n
    BY <1>1
  <2> HIDE DEF n
  <2> QED BY <1>2, <2>1 DEF Chain
<1>4. CASE \E k \in 1..Len(ListAt(list, 1, -1)) : ListAt(list, 1, -1)[k] = j
  <2>1. 0 \in 0..n /\ Expandable(list)[0] = ListAt(list, 1, -1)
    BY <1>1, TreeIs
  <2> QED BY <1>4, <2>1
<1>5. CASE \E p \in 1..n : HasChild(list, p) /\ j \in ToSet(ListAt(list, p + 1, list[p].level))
  <2>1. PICK p \in 1..n : HasChild(list, p) /\ j \in ToSet(ListAt(list, p + 1, list[p].level))
    BY <1>5
  <2>2. p \in 0..n /\ Expandable(list)[p] = ListAt(list, p + 1, list[p].level)
    BY <2>1, <1>1, TreeIs
  <2>3. DOMAIN Expandable(list)[p] = 1..Len(Expandable(list)[p])
    BY <2>1, BranchRow, LenProperties DEF Branch
  <2> QED BY <2>1, <2>2, <2>3 DEF ToSet
<1> QED BY <1>3, <1>4, <1>5

\* A row stands in the list of the nearest row above it with a smaller level.
LEMMA InListOfNearest ==
  ASSUME NEW list, Leveled(list), NEW p \in 0..Len(list), NEW k \in 1..Len(Expandable(list)[p])
  PROVE  /\ Expandable(list)[p][k] \in p + 1..Len(list)
         /\ Nearest(list, Expandable(list)[p][k]) = p
<1> DEFINE n == Len(list)
           q == Expandable(list)[p][k]
           S == Above(list, q)
<1>1. n \in Nat /\ \A j \in 1..n : list[j].level \in Nat
  BY DEF Leveled
<1>2. Branch(list, p)
  BY BranchHolds
<1>3. /\ EndAt(list, p) \in p + 1..n + 1
      /\ q \in p + 1..EndAt(list, p) - 1
      /\ list[q].level > LevelAt(list, p)
      /\ \A j \in p + 1..q - 1 : list[j].level >= list[q].level
  BY <1>2, ElementOfSeq DEF Branch
<1> HIDE DEF n, q
<1>4. q \in p + 1..n /\ q \in 1..n /\ p \in Int /\ q \in Int
  BY <1>1, <1>3
<1>5. CASE p = 0
  <2>1. S = {}
    BY <1>1, <1>3, <1>4, <1>5 DEF Above
  <2> QED BY <2>1, <1>4, <1>5 DEF Nearest, q, n
<1>6. CASE p # 0
  <2>1. p \in S /\ \A j \in S : j \in Int /\ j <= p
    <3>1. p \in 1..q - 1 /\ list[p].level < list[q].level
      BY <1>1, <1>3, <1>4, <1>6 DEF LevelAt
    <3>2. ASSUME NEW j \in 1..q - 1, list[j].level < list[q].level PROVE j <= p
      <4>1. j \notin p + 1..q - 1
        BY <3>2, <1>1, <1>3, <1>4
      <4> QED BY <4>1, <1>4
    <3> QED BY <3>1, <3>2 DEF Above
  <2> HIDE DEF S
  <2>2. \A x \in S : (\A y \in S : x >= y) => x = p
    BY <2>1, <1>4
  <2>3. Max(S) \in S /\ \A y \in S : Max(S) >= y
    <3>1. \E x \in S : \A y \in S : x >= y
      BY <2>1, <1>4
    <3> QED BY <3>1, Zenon DEF Max
  <2>4. Max(S) = p
    BY <2>2, <2>3
  <2> QED BY <2>1, <2>4, <1>4 DEF Nearest, S, q, n
<1> QED BY <1>5, <1>6

\* The list of a row holds the rows whose nearest row of a smaller level above it is.
LEMMA ListsAreNearest ==
  ASSUME NEW list, Leveled(list), NEW p \in 0..Len(list)
  PROVE  ToSet(Expandable(list)[p]) = {i \in DOMAIN list : Nearest(list, i) = p}
<1>1. DOMAIN list = 1..Len(list) /\ Len(list) \in Nat
  BY DEF Leveled
<1>2. \A x \in 0..Len(list) : DOMAIN Expandable(list)[x] = 1..Len(Expandable(list)[x])
  BY BranchHolds, LenProperties DEF Branch
<1>3. ASSUME NEW k \in 1..Len(Expandable(list)[p])
      PROVE  Expandable(list)[p][k] \in DOMAIN list /\ Nearest(list, Expandable(list)[p][k]) = p
  <2>1. \A x \in p + 1..Len(list) : x \in 1..Len(list)
    BY <1>1
  <2> QED BY <2>1, <1>1, InListOfNearest
<1>4. ASSUME NEW i \in DOMAIN list, Nearest(list, i) = p
      PROVE  i \in ToSet(Expandable(list)[p])
  <2>1. PICK x \in 0..Len(list) : \E k \in 1..Len(Expandable(list)[x]) : Expandable(list)[x][k] = i
    BY <1>1, EveryRowInTree
  <2>2. PICK k \in 1..Len(Expandable(list)[x]) : Expandable(list)[x][k] = i
    BY <2>1
  <2>3. Nearest(list, Expandable(list)[x][k]) = x
    BY InListOfNearest
  <2> QED BY <2>2, <2>3, <1>2, <1>4 DEF ToSet
<1> QED BY <1>2, <1>3, <1>4 DEF ToSet

-----------------------------------------------------------------------------
(* order, which reads the tree from top to bottom.                          *)

\* The k-th row of a list stands at least k places below its parent: lists are no longer
\* than the rows are many.
LEMMA ListPlaces ==
  ASSUME NEW list, Leveled(list), NEW p \in 0..Len(list)
  PROVE  /\ Len(Expandable(list)[p]) \in 0..Len(list)
         /\ \A k \in 1..Len(Expandable(list)[p]) : Expandable(list)[p][k] >= p + k
<1> DEFINE n == Len(list)
           L == Expandable(list)[p]
           Bad == {k \in Nat : k \in 1..Len(L) /\ ~(L[k] >= p + k)}
<1>1. n \in Nat /\ p \in Nat
  BY DEF Leveled
<1>2. Branch(list, p)
  BY BranchHolds
<1>3. /\ EndAt(list, p) \in p + 1..n + 1
      /\ L \in Seq(p + 1..EndAt(list, p) - 1)
      /\ L # <<>> => L[1] = p + 1
      /\ \A k \in 1..Len(L) - 1 : L[k + 1] = EndAt(list, L[k])
  BY <1>2 DEF Branch
<1>4. Len(L) \in Nat /\ (1 \in 1..Len(L) => L # <<>>)
  BY <1>3, LenProperties, EmptySeq
<1>5. \A k \in 1..Len(L) : L[k] \in 1..n
  <2>1. \A k \in 1..Len(L) : L[k] \in p + 1..EndAt(list, p) - 1
    BY <1>3, ElementOfSeq
  <2> HIDE DEF L, n
  <2> QED BY <2>1, <1>1, <1>3
<1>6. \A i \in 1..n : EndAt(list, i) \in i + 1..n + 1
  BY BranchRow DEF Branch
<1> HIDE DEF n, L
<1>7. Bad = {}
  <2> SUFFICES ASSUME Bad # {} PROVE FALSE
    OBVIOUS
  <2>1. PICK k \in Bad : \A y \in Bad : k <= y
    <3>1. Bad \subseteq Nat
      OBVIOUS
    <3> HIDE DEF Bad
    <3> QED BY <3>1, LeastNat
  <2>2. k \in 1..Len(L) /\ ~(L[k] >= p + k)
    OBVIOUS
  <2>3. k # 1
    BY <2>2, <1>1, <1>3, <1>4
  <2>4. k - 1 \in 1..Len(L) - 1 /\ k - 1 \in 1..Len(L) /\ k - 1 \in Nat /\ (k - 1) + 1 = k
    BY <2>2, <2>3, <1>4
  <2>5. L[k - 1] >= p + (k - 1)
    BY <2>1, <2>4
  <2>6. L[k] = EndAt(list, L[k - 1])
    <3>1. L[(k - 1) + 1] = EndAt(list, L[k - 1])
      BY <2>4, <1>3
    <3> QED BY <3>1, <2>4
  <2>7. L[k] >= L[k - 1] + 1 /\ L[k - 1] \in 1..n
    <3>1. L[k - 1] \in 1..n
      BY <2>4, <1>5
    <3>2. EndAt(list, L[k - 1]) \in L[k - 1] + 1..n + 1
      BY <3>1, <1>6
    <3> QED BY <3>1, <3>2, <2>6, <1>1
  <2>8. L[k] \in 1..n
    BY <2>2, <1>5
  <2> QED BY <2>2, <2>4, <2>5, <2>7, <2>8, <1>1
<1>8. \A k \in 1..Len(L) : L[k] >= p + k
  BY <1>4, <1>7
<1>9. Len(L) <= n
  <2>1. CASE Len(L) = 0
    BY <2>1, <1>1
  <2>2. CASE Len(L) # 0
    <3>1. Len(L) \in 1..Len(L)
      BY <2>2, <1>4
    <3>2. L[Len(L)] \in 1..n /\ L[Len(L)] >= p + Len(L)
      BY <3>1, <1>5, <1>8
    <3> QED BY <3>2, <1>1, <1>4
  <2> QED BY <2>1, <2>2
<1> QED BY <1>1, <1>4, <1>8, <1>9 DEF L, n

\* The places of order: a row, or the flow, and a place in its list.
Walk(list) == (0..Len(list)) \X (1..Len(list) + 1)

\* One round of order, with what the others give in g.
Visit(list, closed, g, p, k) ==
  IF k > Len(Expandable(list)[p]) THEN <<>>
  ELSE LET i == Expandable(list)[p][k]
       IN <<list[i]>> \o (IF list[i].id \in closed THEN <<>> ELSE g[<<i, 1>>]) \o g[<<p, k + 1>>]

\* The row at a place of a list, the one after the last at its end.
RowAt(list, p, k) == IF k > Len(Expandable(list)[p]) THEN Len(list) + 1 ELSE Expandable(list)[p][k]

\* Where order goes from a place of a list: into the list of the row there and to the next
\* place, both of them further down.
LEMMA WalkGoesDown ==
  ASSUME NEW list, Leveled(list), NEW p \in 0..Len(list), NEW k \in 1..Len(list) + 1
  PROVE  /\ RowAt(list, p, k) \in 1..Len(list) + 1
         /\ k <= Len(Expandable(list)[p]) =>
              LET i == Expandable(list)[p][k]
              IN /\ i \in 1..Len(list) /\ RowAt(list, p, k) = i
                 /\ <<i, 1>> \in Walk(list) /\ <<p, k + 1>> \in Walk(list)
                 /\ RowAt(list, i, 1) > i /\ RowAt(list, p, k + 1) > i
<1> DEFINE n == Len(list)
           L == Expandable(list)[p]
<1>1. n \in Nat /\ p \in Nat /\ k \in Nat /\ n + 1 \in 1..n + 1
  BY DEF Leveled
<1>2. /\ Len(L) \in 0..n
      /\ \A j \in 1..Len(L) : L[j] \in p + 1..n
      /\ \A j \in 1..Len(L) - 1 : L[j + 1] = EndAt(list, L[j])
  BY ListPlaces, InListOfNearest, BranchHolds DEF Branch
<1>3. CASE k > Len(L)
  <2>1. ~(k <= Len(L))
    BY <1>1, <1>2, <1>3
  <2> QED BY <2>1, <1>1, <1>3 DEF RowAt
<1>4. CASE k <= Len(L)
  <2> DEFINE i == L[k]
  <2>1. k \in 1..Len(L) /\ i \in 1..n /\ ~(k > Len(L))
    BY <1>1, <1>2, <1>4
  <2>2. RowAt(list, p, k) = i
    BY <2>1 DEF RowAt
  <2>3. <<i, 1>> \in Walk(list) /\ <<p, k + 1>> \in Walk(list)
    <3>1. i \in 0..n /\ 1 \in 1..n + 1 /\ k + 1 \in 1..n + 1
      BY <2>1, <1>1, <1>2
    <3> QED BY <3>1 DEF Walk
  <2>4. RowAt(list, i, 1) > i
    <3>1. \A j \in 1..Len(Expandable(list)[i]) : Expandable(list)[i][j] \in i + 1..n
      <4>1. i \in 0..n
        BY <2>1, <1>1
      <4> HIDE DEF i
      <4> QED BY <4>1, InListOfNearest
    <3>2. Len(Expandable(list)[i]) \in Nat
      BY <2>1, <1>1, ListPlaces
    <3> HIDE DEF i
    <3>3. CASE 1 > Len(Expandable(list)[i])
      BY <3>3, <2>1, <1>1 DEF RowAt
    <3>4. CASE ~(1 > Len(Expandable(list)[i]))
      <4>1. 1 \in 1..Len(Expandable(list)[i])
        BY <3>2, <3>4
      <4>2. Expandable(list)[i][1] \in i + 1..n
        BY <4>1, <3>1
      <4> QED BY <4>2, <3>4, <2>1, <1>1 DEF RowAt
    <3> QED BY <3>3, <3>4
  <2>5. RowAt(list, p, k + 1) > i
    <3>1. CASE k + 1 > Len(L)
      BY <3>1, <2>1, <1>1 DEF RowAt
    <3>2. CASE ~(k + 1 > Len(L))
      <4>1. k \in 1..Len(L) - 1
        BY <3>2, <2>1, <1>1, <1>2
      <4>2. L[k + 1] = EndAt(list, i)
        BY <4>1, <1>2
      <4>3. EndAt(list, i) \in i + 1..n + 1
        BY <2>1, BranchRow DEF Branch
      <4>4. RowAt(list, p, k + 1) = L[k + 1]
        BY <3>2 DEF RowAt
      <4> HIDE DEF L, i, n
      <4> QED BY <4>2, <4>3, <4>4, <2>1, <1>1
    <3> QED BY <3>1, <3>2
  <2>6. RowAt(list, p, k) \in 1..n + 1
    BY <2>1, <2>2, <1>1
  <2> QED BY <2>1, <2>2, <2>3, <2>4, <2>5, <2>6
<1>5. k > Len(L) \/ k <= Len(L)
  BY <1>1, <1>2
<1> QED BY <1>3, <1>4, <1>5

\* A row, what is below it and what follows are one stretch of the rows.
LEMMA ThreePieces ==
  ASSUME NEW S, NEW list \in Seq(S), NEW i \in 1..Len(list),
         NEW a \in i + 1..Len(list) + 1, NEW e \in a..Len(list) + 1
  PROVE  <<list[i]>> \o SubSeq(list, i + 1, a - 1) \o SubSeq(list, a, e - 1) = SubSeq(list, i, e - 1)
<1>1. Len(list) \in Nat /\ a - 1 \in i..Len(list) /\ a - 1 \in i - 1..Len(list)
      /\ e - 1 \in a - 1..Len(list) /\ (a - 1) + 1 = a /\ i \in 1..Len(list) + 1
  BY LenProperties
<1>2. SubSeq(list, i, a - 1) = <<list[i]>> \o SubSeq(list, i + 1, a - 1)
  BY <1>1, SubSeqRecursiveFirst
<1>3. SubSeq(list, i, a - 1) \o SubSeq(list, (a - 1) + 1, e - 1) = SubSeq(list, i, e - 1)
  BY <1>1, ConcatAdjacentSubSeq
<1> QED BY <1>1, <1>2, <1>3

\* What order gives from a place of a list on when nothing is collapsed.
Slice(list, p, k) ==
  IF k > Len(Expandable(list)[p]) THEN <<>>
  ELSE SubSeq(list, Expandable(list)[p][k], EndAt(list, p) - 1)

\* The rest of a list is a row of it, what is below that row, and the rest after it.
LEMMA SliceStep ==
  ASSUME NEW S, NEW list \in Seq(S), Leveled(list),
         NEW p \in 0..Len(list), NEW k \in 1..Len(Expandable(list)[p])
  PROVE  LET i == Expandable(list)[p][k]
         IN Slice(list, p, k) = <<list[i]>> \o Slice(list, i, 1) \o Slice(list, p, k + 1)
<1> DEFINE n == Len(list)
           L == Expandable(list)[p]
           i == L[k]
           a == EndAt(list, i)
           e == EndAt(list, p)
<1>1. n \in Nat /\ p \in Nat /\ Len(L) \in 0..n
  <2>1. Len(L) \in 0..n
    BY ListPlaces
  <2>2. n \in Nat
    BY DEF Leveled
  <2> HIDE DEF n, L
  <2> QED BY <2>1, <2>2 DEF n
<1>2. /\ e \in p + 1..n + 1
      /\ L \in Seq(p + 1..e - 1)
      /\ \A j \in 1..Len(L) - 1 : L[j + 1] = EndAt(list, L[j])
      /\ IF L = <<>> THEN e = p + 1 ELSE L[1] = p + 1 /\ EndAt(list, L[Len(L)]) = e
  BY BranchHolds DEF Branch
<1>3. \A j \in 1..Len(L) : L[j] \in p + 1..e - 1
  BY <1>2, ElementOfSeq
<1>4. i \in p + 1..e - 1 /\ i \in 1..n /\ i \in 0..n
  <2>1. i \in p + 1..e - 1
    BY <1>3
  <2> HIDE DEF i, e, n
  <2> QED BY <2>1, <1>1, <1>2
<1>5. /\ a \in i + 1..n + 1
      /\ LET M == Expandable(list)[i] IN IF M = <<>> THEN a = i + 1 ELSE M[1] = i + 1
      /\ \E T : Expandable(list)[i] \in Seq(T)
  <2> HIDE DEF i, n
  <2> QED BY <1>4, BranchHolds DEF Branch, n
<1>6. \A x \in Int : SubSeq(list, x + 1, x) = <<>>
  BY SubSeqEmpty
<1>7. Slice(list, i, 1) = SubSeq(list, i + 1, a - 1)
  <2> DEFINE M == Expandable(list)[i]
  <2>1. Len(M) \in Nat /\ (M = <<>> <=> Len(M) = 0)
    BY <1>5, LenProperties, EmptySeq
  <2>2. CASE M = <<>>
    <3>1. 1 > Len(M) /\ a = i + 1
      BY <2>1, <2>2, <1>5
    <3>2. a - 1 = i
      BY <3>1, <1>4
    <3> QED BY <3>1, <3>2, <1>4, <1>6 DEF Slice
  <2>3. CASE M # <<>>
    <3>1. ~(1 > Len(M)) /\ M[1] = i + 1
      BY <2>1, <2>3, <1>5
    <3> QED BY <3>1 DEF Slice
  <2> QED BY <2>2, <2>3
<1>8. Slice(list, p, k + 1) = SubSeq(list, a, e - 1) /\ a <= e
  <2>1. CASE k = Len(L)
    <3>1. a = e /\ k + 1 > Len(L)
      <4>1. L # <<>>
        BY <1>1, LenProperties
      <4> QED BY <4>1, <2>1, <1>1, <1>2
    <3>2. e \in Int /\ e - 1 \in Int /\ (e - 1) + 1 = e
      BY <1>2, <1>1
    <3>3. SubSeq(list, e, e - 1) = <<>>
      <4> HIDE DEF e
      <4>1. SubSeq(list, (e - 1) + 1, e - 1) = <<>>
        BY <3>2, <1>6
      <4> QED BY <4>1, <3>2
    <3>4. Slice(list, p, k + 1) = <<>>
      BY <3>1 DEF Slice
    <3> HIDE DEF a, e
    <3>5. SubSeq(list, a, e - 1) = <<>>
      BY <3>1, <3>3
    <3>6. a <= e
      BY <3>1, <3>2
    <3> QED BY <3>4, <3>5, <3>6
  <2>2. CASE k # Len(L)
    <3>1. k \in 1..Len(L) - 1 /\ ~(k + 1 > Len(L)) /\ k + 1 \in 1..Len(L)
      BY <2>2, <1>1
    <3>2. L[k + 1] = a /\ L[k + 1] \in p + 1..e - 1
      BY <3>1, <1>2, <1>3
    <3>3. Slice(list, p, k + 1) = SubSeq(list, L[k + 1], e - 1)
      BY <3>1 DEF Slice
    <3>4. a <= e
      <4> HIDE DEF a, e, L
      <4> QED BY <3>2, <1>1, <1>2
    <3> QED BY <3>2, <3>3, <3>4
  <2> QED BY <2>1, <2>2
<1>9. Slice(list, p, k) = SubSeq(list, i, e - 1)
  <2>1. ~(k > Len(L))
    BY <1>1
  <2> QED BY <2>1 DEF Slice
<1>10. e \in a..n + 1
  <2> HIDE DEF a, e, n, i
  <2> QED BY <1>1, <1>2, <1>4, <1>5, <1>8
<1>11. <<list[i]>> \o SubSeq(list, i + 1, a - 1) \o SubSeq(list, a, e - 1) = SubSeq(list, i, e - 1)
  <2> HIDE DEF a, e, i
  <2> QED BY <1>4, <1>5, <1>10, ThreePieces DEF n
<1> HIDE DEF a, e
<1> QED BY <1>7, <1>8, <1>9, <1>11

\* g is what order computes, at every place at once.
IsOrder(list, closed, g) ==
  g = [at \in Walk(list) |-> Visit(list, closed, g, at[1], at[2])]

\* A round of order gives the rest of the list, when those further down do.
LEMMA VisitSlices ==
  ASSUME NEW S, NEW list \in Seq(S), Leveled(list), NEW g,
         NEW p \in 0..Len(list), NEW k \in 1..Len(list) + 1,
         \A q \in 0..Len(list), j \in 1..Len(list) + 1 :
            RowAt(list, q, j) > RowAt(list, p, k) => g[<<q, j>>] = Slice(list, q, j)
  PROVE  Visit(list, {}, g, p, k) = Slice(list, p, k)
<1> DEFINE L == Expandable(list)[p]
           i == L[k]
<1>1. Len(list) \in Nat /\ Len(L) \in 0..Len(list)
  BY ListPlaces DEF Leveled
<1>2. CASE k > Len(L)
  BY <1>2 DEF Visit, Slice
<1>3. CASE ~(k > Len(L))
  <2>1. k \in 1..Len(L) /\ k <= Len(L)
    BY <1>1, <1>3
  <2>2. /\ i \in 1..Len(list) /\ RowAt(list, p, k) = i
        /\ <<i, 1>> \in Walk(list) /\ <<p, k + 1>> \in Walk(list)
        /\ RowAt(list, i, 1) > i /\ RowAt(list, p, k + 1) > i
    BY <2>1, WalkGoesDown
  <2>3. i \in 0..Len(list) /\ 1 \in 1..Len(list) + 1 /\ k + 1 \in 1..Len(list) + 1
    BY <2>2 DEF Walk
  <2>4. g[<<i, 1>>] = Slice(list, i, 1) /\ g[<<p, k + 1>>] = Slice(list, p, k + 1)
    <3> HIDE DEF i
    <3> QED BY <2>2, <2>3
  <2>5. Visit(list, {}, g, p, k) = <<list[i]>> \o g[<<i, 1>>] \o g[<<p, k + 1>>]
    BY <1>3 DEF Visit
  <2>6. Slice(list, p, k) = <<list[i]>> \o Slice(list, i, 1) \o Slice(list, p, k + 1)
    BY <2>1, SliceStep
  <2> HIDE DEF i
  <2> QED BY <2>4, <2>5, <2>6
<1> QED BY <1>2, <1>3

\* With nothing collapsed, order gives back the rows of the server in their order.
LEMMA OrderIsList ==
  ASSUME NEW S, NEW list \in Seq(S), Leveled(list)
  PROVE  Order(list, {}) = list
<1> DEFINE n == Len(list)
           O == CHOOSE g : IsOrder(list, {}, g)
           s == [at \in Walk(list) |-> Slice(list, at[1], at[2])]
           X == {r \in 1..n + 1 : \A p \in 0..n, k \in 1..n + 1 :
                   RowAt(list, p, k) = r => O[<<p, k>>] = Slice(list, p, k)}
<1>1. n \in Nat
  BY DEF Leveled
<1>2. \A p \in 0..n, k \in 1..n + 1 : <<p, k>> \in Walk(list)
  BY DEF Walk
<1>3. \A at \in Walk(list) : at[1] \in 0..n /\ at[2] \in 1..n + 1
  BY DEF Walk
<1>4. IsOrder(list, {}, s)
  <2>1. \A p \in 0..n, k \in 1..n + 1 : s[<<p, k>>] = Slice(list, p, k)
    BY <1>2
  <2> HIDE DEF s
  <2>2. \A p \in 0..n, k \in 1..n + 1 : Visit(list, {}, s, p, k) = Slice(list, p, k)
    BY <2>1, VisitSlices
  <2>3. \A at \in Walk(list) : Visit(list, {}, s, at[1], at[2]) = Slice(list, at[1], at[2])
    BY <2>2, <1>3
  <2>4. s = [at \in Walk(list) |-> Slice(list, at[1], at[2])]
    BY DEF s
  <2>5. s = [at \in Walk(list) |-> Visit(list, {}, s, at[1], at[2])]
    BY <2>3, <2>4
  <2> QED BY <2>5 DEF IsOrder
<1>5. IsOrder(list, {}, O)
  <2> HIDE DEF s
  <2> QED BY <1>4
<1>6. Order(list, {}) = O[<<0, 1>>]
  BY DEF Order, Visit, Walk, IsOrder
<1> HIDE DEF O, s
<1>7. \A p \in 0..n, k \in 1..n + 1 : O[<<p, k>>] = Visit(list, {}, O, p, k)
  <2>1. \A at \in Walk(list) : O[at] = Visit(list, {}, O, at[1], at[2])
    BY <1>5 DEF IsOrder
  <2> QED BY <2>1, <1>2
<1>8. ASSUME NEW r \in 1..n + 1, \A q \in r + 1..n + 1 : q \in X PROVE r \in X
  <2> SUFFICES ASSUME NEW p \in 0..n, NEW k \in 1..n + 1, RowAt(list, p, k) = r
               PROVE  O[<<p, k>>] = Slice(list, p, k)
    OBVIOUS
  <2>1. ASSUME NEW q \in 0..n, NEW j \in 1..n + 1, RowAt(list, q, j) > r
        PROVE  O[<<q, j>>] = Slice(list, q, j)
    <3>1. RowAt(list, q, j) \in 1..n + 1
      BY WalkGoesDown
    <3>2. RowAt(list, q, j) \in r + 1..n + 1
      BY <3>1, <2>1, <1>1
    <3>3. RowAt(list, q, j) \in X
      <4> HIDE DEF X
      <4> QED BY <3>2, <1>8
    <3> QED BY <3>3
  <2>2. Visit(list, {}, O, p, k) = Slice(list, p, k)
    BY <2>1, VisitSlices
  <2> QED BY <2>2, <1>7
<1>9. \A r \in 1..n + 1 : r \in X
  <2> HIDE DEF X
  <2>1. \A r \in 1..n + 1 : (\A q \in r + 1..n + 1 : q \in X) => r \in X
    BY <1>8
  <2>2. 1 \in Int /\ n + 1 \in Int
    BY <1>1
  <2> HIDE DEF n
  <2> QED BY <2>1, <2>2, FromTheEnd
<1>10. O[<<0, 1>>] = Slice(list, 0, 1)
  <2>1. 0 \in 0..n /\ 1 \in 1..n + 1 /\ RowAt(list, 0, 1) \in 1..n + 1
    <3>1. 0 \in 0..n /\ 1 \in 1..n + 1
      BY <1>1
    <3> QED BY <3>1, WalkGoesDown
  <2>2. RowAt(list, 0, 1) \in X
    <3> HIDE DEF X
    <3> QED BY <2>1, <1>9
  <2> QED BY <2>1, <2>2
<1>11. Slice(list, 0, 1) = list
  <2> DEFINE L == Expandable(list)[0]
  <2>1. Branch(list, 0) /\ EndAt(list, 0) = n + 1 /\ Len(L) \in Nat
    BY <1>1, BranchTop, ListPlaces DEF EndAt
  <2>2. CASE L = <<>>
    <3>1. n = 0 /\ 1 > Len(L)
      BY <2>1, <2>2, <1>1 DEF Branch
    <3> QED BY <3>1, EmptySeq DEF Slice
  <2>3. CASE L # <<>>
    <3>1. L[1] = 1 /\ (n + 1) - 1 = n /\ Len(L) # 0
      BY <2>1, <2>3, <1>1, EmptySeq DEF Branch
    <3>2. ~(1 > Len(L))
      BY <3>1, <2>1
    <3>3. Slice(list, 0, 1) = SubSeq(list, 1, n)
      BY <3>1, <3>2, <2>1 DEF Slice
    <3> QED BY <3>3, SubSeqFull
  <2> QED BY <2>2, <2>3
<1> QED BY <1>6, <1>10, <1>11

\* The tree that the rows of a flow describe is the one built from them.
LEMMA TreeIsDescribed ==
  ASSUME NEW S, NEW list \in Seq(S), Leveled(list)
  PROVE  TreeDescribed(list)
BY OrderIsList, ListsAreNearest DEF TreeDescribed

-----------------------------------------------------------------------------
(* The edges and nodes of the diagram.                                      *)

\* The edges that one row of a list adds.
EdgesAt(list, p, k, alternative, disabled) ==
  LET L == Expandable(list)[p]
  IN IF Expandable(list)[L[k]] = <<>>
     THEN LeafEdges(list, L, k, From(list, p), To(list, p), alternative \cup disabled)
     ELSE EntryOfSubFlow(list, L, k, From(list, p), alternative) \cup {<<To(list, L[k]), To(list, p)>>}

\* Every edge is one of those that some row of a list adds.
LEMMA EdgesAre ==
  ASSUME NEW list, Leveled(list), NEW alternative, NEW disabled, NEW e
  PROVE  e \in RenderEdges(list, alternative, disabled) <=>
           \E p \in 0..Len(list) : \E k \in 1..Len(Expandable(list)[p]) :
             e \in EdgesAt(list, p, k, alternative, disabled)
<1> DEFINE tree == Expandable(list)
<1>1. DOMAIN tree = 0..Len(list) /\ \A p \in 0..Len(list) : DOMAIN tree[p] = 1..Len(tree[p])
  BY TreeIs, BranchHolds, LenProperties DEF Branch
<1>2. \A p : EdgesOf(list, tree, p, alternative, disabled) =
               UNION {EdgesAt(list, p, k, alternative, disabled) : k \in DOMAIN tree[p]}
  BY DEF EdgesOf, EdgesAt
<1>3. RenderEdges(list, alternative, disabled) =
        UNION {EdgesOf(list, tree, p, alternative, disabled) : p \in DOMAIN tree}
  BY DEF RenderEdges
<1> HIDE DEF tree
<1>4. e \in RenderEdges(list, alternative, disabled) <=>
        \E p \in 0..Len(list) : e \in EdgesOf(list, tree, p, alternative, disabled)
  BY <1>1, <1>3
<1>5. \A p \in 0..Len(list) :
        e \in EdgesOf(list, tree, p, alternative, disabled) <=>
          \E k \in 1..Len(tree[p]) : e \in EdgesAt(list, p, k, alternative, disabled)
  BY <1>1, <1>2
<1> QED BY <1>4, <1>5 DEF tree

\* What is known of the rows of a list where the edges are drawn.
LEMMA RowOfList ==
  ASSUME NEW list, Leveled(list), NEW p \in 0..Len(list), NEW k \in 1..Len(Expandable(list)[p])
  PROVE  LET L == Expandable(list)[p]
         IN /\ L # <<>> /\ Len(L) \in 1..Len(list) /\ k \in Nat
            /\ L[k] \in 1..Len(list) /\ p < L[k] /\ L[Len(L)] \in 1..Len(list) /\ p < L[Len(L)]
            /\ k > 1 => k - 1 \in 1..Len(L) /\ L[k - 1] \in 1..L[k] - 1
<1> DEFINE L == Expandable(list)[p]
           n == Len(list)
<1>1. n \in Nat /\ p \in Nat
  BY DEF Leveled
<1>2. Len(L) \in 0..n
  BY ListPlaces
<1>3. \A j \in 1..Len(L) : L[j] \in p + 1..n
  BY InListOfNearest
<1>4. \A j \in 1..Len(L) - 1 : L[j + 1] = EndAt(list, L[j])
  BY BranchHolds DEF Branch
<1>5. L # <<>>
  BY EmptySeq
<1>6. \A i \in 1..n : EndAt(list, i) \in i + 1..n + 1
  BY BranchRow DEF Branch
<1> HIDE DEF L, n
<1>7. Len(L) \in 1..Len(L) /\ k \in 1..Len(L)
  BY <1>2 DEF L
<1>8. L[k] \in p + 1..n /\ L[Len(L)] \in p + 1..n
  BY <1>3, <1>7
<1>9. ASSUME k > 1 PROVE k - 1 \in 1..Len(L) /\ L[k - 1] \in 1..L[k] - 1
  <2>1. k - 1 \in 1..Len(L) /\ k - 1 \in 1..Len(L) - 1 /\ (k - 1) + 1 = k
    BY <1>2, <1>7, <1>9
  <2>2. L[(k - 1) + 1] = EndAt(list, L[k - 1]) /\ L[k - 1] \in p + 1..n
    BY <2>1, <1>3, <1>4
  <2>3. L[k] = EndAt(list, L[k - 1]) /\ L[k - 1] \in 1..n
    BY <2>1, <2>2, <1>1
  <2>4. L[k] \in L[k - 1] + 1..n + 1
    BY <2>3, <1>6
  <2> QED BY <2>1, <2>3, <2>4, <1>1
<1> QED BY <1>1, <1>2, <1>5, <1>7, <1>8, <1>9 DEF L, n

\* An edge leads to every row, from the start or a row above it.
LEMMA EdgeToRow ==
  ASSUME NEW list, Leveled(list), NEW alternative, NEW disabled, NEW i \in 1..Len(list)
  PROVE  \/ <<Start, Node(list[i].id)>> \in RenderEdges(list, alternative, disabled)
         \/ \E j \in 1..i - 1 : <<Node(list[j].id), Node(list[i].id)>> \in RenderEdges(list, alternative, disabled)
<1>1. PICK p \in 0..Len(list) : \E k \in 1..Len(Expandable(list)[p]) : Expandable(list)[p][k] = i
  BY EveryRowInTree
<1>2. PICK k \in 1..Len(Expandable(list)[p]) : Expandable(list)[p][k] = i
  BY <1>1
<1> DEFINE L == Expandable(list)[p]
           edges == EdgesAt(list, p, k, alternative, disabled)
           me == Node(list[i].id)
<1>3. p < i /\ k \in Nat /\ (k > 1 => L[k - 1] \in 1..i - 1)
  BY <1>2, RowOfList
<1>4. <<From(list, p), me>> \in edges \/ (k > 1 /\ <<Node(list[L[k - 1]].id), me>> \in edges)
  <2>1. k = 1 \/ k > 1
    BY <1>3
  <2>2. CASE Expandable(list)[i] = <<>>
    <3>1. edges = LeafEdges(list, L, k, From(list, p), To(list, p), alternative \cup disabled)
      BY <1>2, <2>2 DEF EdgesAt
    <3> HIDE DEF edges, L
    <3> QED BY <1>2, <2>1, <3>1 DEF LeafEdges, L
  <2>3. CASE Expandable(list)[i] # <<>>
    <3>1. EntryOfSubFlow(list, L, k, From(list, p), alternative) \subseteq edges
      BY <1>2, <2>3 DEF EdgesAt
    <3> HIDE DEF edges, L
    <3> QED BY <1>2, <2>1, <3>1 DEF EntryOfSubFlow, L
  <2> QED BY <2>2, <2>3
<1>5. \A e : e \in edges => e \in RenderEdges(list, alternative, disabled)
  BY EdgesAre
<1> HIDE DEF edges, L
<1>6. From(list, p) = Start \/ (p \in 1..i - 1 /\ From(list, p) = Node(list[p].id))
  <2>1. p = 0 \/ p \in 1..i - 1
    BY <1>3 DEF Leveled
  <2> QED BY <2>1 DEF From
<1> QED BY <1>3, <1>4, <1>5, <1>6

\* An edge leads to the end of every list, from its last row or the end of that row's own.
LEMMA EdgeToEnd ==
  ASSUME NEW list, Leveled(list), NEW alternative, NEW disabled,
         NEW p \in 0..Len(list), Expandable(list)[p] # <<>>
  PROVE  \E i \in p + 1..Len(list) :
           IF Expandable(list)[i] = <<>>
           THEN <<Node(list[i].id), To(list, p)>> \in RenderEdges(list, alternative, disabled)
           ELSE <<To(list, i), To(list, p)>> \in RenderEdges(list, alternative, disabled)
<1> DEFINE L == Expandable(list)[p]
           k == Len(L)
           i == L[k]
           edges == EdgesAt(list, p, k, alternative, disabled)
<1>1. k \in 1..Len(L)
  <2>1. k \in 0..Len(list) /\ (k = 0 => L = <<>>)
    <3>1. k \in 0..Len(list)
      BY ListPlaces
    <3>2. L \in Seq(p + 1..EndAt(list, p) - 1)
      BY BranchHolds DEF Branch
    <3> HIDE DEF L
    <3> QED BY <3>1, <3>2, EmptySeq
  <2>2. Len(list) \in Nat
    BY DEF Leveled
  <2> HIDE DEF L
  <2> QED BY <2>1, <2>2 DEF L
<1>2. i \in p + 1..Len(list)
  BY <1>1, InListOfNearest
<1>3. CASE Expandable(list)[i] = <<>>
  <2>1. edges = LeafEdges(list, L, k, From(list, p), To(list, p), alternative \cup disabled)
    BY <1>3 DEF EdgesAt
  <2>2. <<Node(list[i].id), To(list, p)>> \in edges
    <3> HIDE DEF edges, L
    <3> QED BY <2>1 DEF LeafEdges
  <2> HIDE DEF i, k, L
  <2>3. <<Node(list[i].id), To(list, p)>> \in RenderEdges(list, alternative, disabled)
    BY <2>2, <1>1, EdgesAre DEF L
  <2> QED BY <1>2, <1>3, <2>3
<1>4. CASE Expandable(list)[i] # <<>>
  <2>1. <<To(list, i), To(list, p)>> \in edges
    BY <1>4 DEF EdgesAt
  <2> HIDE DEF i, k, L
  <2>2. <<To(list, i), To(list, p)>> \in RenderEdges(list, alternative, disabled)
    BY <2>1, <1>1, EdgesAre DEF L
  <2> QED BY <1>2, <1>4, <2>2
<1> QED BY <1>3, <1>4

\* The nodes that each row is drawn with.
LEMMA NodesAre ==
  ASSUME NEW list, Leveled(list)
  PROVE  RenderNodes(list) =
           {Node(list[i].id) : i \in 1..Len(list)} \cup
           {EndOf(list[i].id) : i \in {p \in 1..Len(list) : Expandable(list)[p] # <<>>}}
<1> DEFINE tree == Expandable(list)
<1>1. DOMAIN list = 1..Len(list)
  BY DEF Leveled
<1>2. DOMAIN tree = 0..Len(list) /\ \A p \in 0..Len(list) : DOMAIN tree[p] = 1..Len(tree[p])
  BY TreeIs, BranchHolds, LenProperties DEF Branch
<1>3. \A p \in 0..Len(list) : \A k \in 1..Len(tree[p]) : tree[p][k] \in 1..Len(list)
  BY RowOfList
<1>4. \A j \in 1..Len(list) : \E p \in 0..Len(list) : \E k \in 1..Len(tree[p]) : tree[p][k] = j
  BY EveryRowInTree
<1>5. RenderNodes(list) =
        {Node(list[i].id) : i \in UNION {ToSet(tree[p]) : p \in DOMAIN tree}} \cup
        {EndOf(list[i].id) : i \in {p \in DOMAIN list : tree[p] # <<>>}}
  BY DEF RenderNodes
<1> HIDE DEF tree
<1>6. UNION {ToSet(tree[p]) : p \in DOMAIN tree} = 1..Len(list)
  <2>1. \A p \in 0..Len(list) : ToSet(tree[p]) = {tree[p][k] : k \in 1..Len(tree[p])}
    BY <1>2 DEF ToSet
  <2>2. ASSUME NEW x PROVE x \in UNION {ToSet(tree[p]) : p \in DOMAIN tree} <=> x \in 1..Len(list)
    <3>1. x \in UNION {ToSet(tree[p]) : p \in DOMAIN tree} <=>
            \E p \in 0..Len(list) : \E k \in 1..Len(tree[p]) : x = tree[p][k]
      BY <1>2, <2>1
    <3> QED BY <3>1, <1>3, <1>4
  <2> QED BY <2>2
<1> QED BY <1>1, <1>5, <1>6 DEF tree

\* Edges join nodes that are drawn.
LEMMA EdgesJoinNodes ==
  ASSUME NEW list, Leveled(list), NEW alternative, NEW disabled,
         NEW e \in RenderEdges(list, alternative, disabled)
  PROVE  e[1] \in RenderNodes(list) \cup {Start, End} /\ e[2] \in RenderNodes(list) \cup {Start, End}
<1> DEFINE N == RenderNodes(list) \cup {Start, End}
<1>1. PICK p \in 0..Len(list) : \E k \in 1..Len(Expandable(list)[p]) :
        e \in EdgesAt(list, p, k, alternative, disabled)
  BY EdgesAre
<1>2. PICK k \in 1..Len(Expandable(list)[p]) : e \in EdgesAt(list, p, k, alternative, disabled)
  BY <1>1
<1> DEFINE L == Expandable(list)[p]
           i == L[k]
           from == From(list, p)
           to == To(list, p)
           me == Node(list[i].id)
<1>3. i \in 1..Len(list) /\ L # <<>> /\ k \in Nat /\ (k > 1 => L[k - 1] \in 1..i - 1)
  BY RowOfList
<1>4. Len(list) \in Nat /\ (p = 0 \/ p \in 1..Len(list))
  BY DEF Leveled
<1>5. \A j \in 1..Len(list) : /\ Node(list[j].id) \in N
                              /\ Expandable(list)[j] # <<>> => EndOf(list[j].id) \in N
  BY NodesAre
<1>6. Start \in N /\ End \in N
  OBVIOUS
<1> HIDE DEF N
<1>7. from \in N /\ to \in N
  BY <1>3, <1>4, <1>5, <1>6 DEF From, To
<1>8. k > 1 => Node(list[L[k - 1]].id) \in N
  <2> HIDE DEF L, i
  <2>1. k > 1 => L[k - 1] \in 1..Len(list)
    BY <1>3, <1>4
  <2> QED BY <2>1, <1>5
<1>9. me \in N
  <2> HIDE DEF i
  <2> QED BY <1>3, <1>5
<1>10. CASE Expandable(list)[i] = <<>>
  <2>1. e \in LeafEdges(list, L, k, from, to, alternative \cup disabled)
    BY <1>2, <1>10 DEF EdgesAt
  <2>2. k = 1 \/ k > 1
    BY <1>3
  <2>3. \/ e = <<from, me>> \/ e = <<me, to>>
        \/ k > 1 /\ e = <<Node(list[L[k - 1]].id), me>>
    <3> HIDE DEF L, from, to
    <3> QED BY <2>1, <2>2 DEF LeafEdges
  <2> HIDE DEF L, from, to, me
  <2>4. \A x, y : <<x, y>>[1] = x /\ <<x, y>>[2] = y
    OBVIOUS
  <2> QED BY <2>3, <2>4, <1>7, <1>8, <1>9 DEF N
<1>11. CASE Expandable(list)[i] # <<>>
  <2>1. e \in EntryOfSubFlow(list, L, k, from, alternative) \/ e = <<To(list, i), to>>
    BY <1>2, <1>11 DEF EdgesAt
  <2>2. k = 1 \/ k > 1
    BY <1>3
  <2>3. \/ e = <<from, me>> \/ e = <<To(list, i), to>>
        \/ k > 1 /\ e = <<Node(list[L[k - 1]].id), me>>
    <3> HIDE DEF L, from, to
    <3> QED BY <2>1, <2>2 DEF EntryOfSubFlow
  <2>4. To(list, i) \in N
    <3> HIDE DEF i
    <3> QED BY <1>3, <1>5, <1>6, <1>11 DEF To
  <2> HIDE DEF L, from, to, me, i
  <2>5. \A x, y : <<x, y>>[1] = x /\ <<x, y>>[2] = y
    OBVIOUS
  <2> QED BY <2>3, <2>4, <2>5, <1>7, <1>8, <1>9 DEF N
<1> QED BY <1>10, <1>11 DEF N

\* One step further along the edges.
Onward(edges, before) == before \cup {e[2] : e \in {x \in edges : x[1] \in before}}

\* R is what is reached from the start, step by step.
Reach(edges, n, R) ==
  R[0] = {Start} /\ \A k \in 1..n : R[k] = Onward(edges, R[k - 1])

\* Reached is the last of such steps.
LEMMA ReachedSteps ==
  ASSUME NEW edges, NEW n \in Nat
  PROVE  \E R : Reached(edges, n) = R[n] /\ Reach(edges, n, R)
<1> DEFINE Fix(R) == R = [k \in 0..n |-> IF k = 0 THEN {Start} ELSE Onward(edges, R[k - 1])]
           R == CHOOSE R : Fix(R)
           V == SUBSET ({Start} \cup {e[2] : e \in edges})
           step == [at \in (1..n) \X V |-> Onward(edges, at[2])]
<1>1. Reached(edges, n) = R[n]
  BY DEF Reached, Onward
<1>2. \A k \in 1..n : \A x \in V : step[<<k, x>>] = Onward(edges, x)
  OBVIOUS
<1>3. \A x \in V : Onward(edges, x) \in V
  BY DEF Onward
<1>4. {Start} \in V
  OBVIOUS
<1> HIDE DEF V, step
<1>5. PICK g : Iterates(g, n, {Start}, step)
  BY IterationExists
<1>6. \A k \in 0..n : g[k] \in V
  BY <1>2, <1>3, <1>4, <1>5, IterationStays
<1>7. \A k \in 0..n : k # 0 => k - 1 \in 0..n /\ k \in 1..n
  OBVIOUS
<1>8. ASSUME NEW k \in 0..n PROVE g[k] = IF k = 0 THEN {Start} ELSE Onward(edges, g[k - 1])
  <2>1. g[k] = IF k = 0 THEN {Start} ELSE step[<<k, g[k - 1]>>]
    BY <1>5 DEF Iterates
  <2> QED BY <2>1, <1>2, <1>6, <1>7
<1>9. Fix(g)
  <2>1. g = [k \in 0..n |-> g[k]]
    BY <1>5 DEF Iterates
  <2> QED BY <2>1, <1>8
<1>10. Fix(R)
  <2> HIDE DEF Fix
  <2> QED BY <1>9
<1> HIDE DEF R
<1>11. R[0] = {Start} /\ \A k \in 1..n : R[k] = Onward(edges, R[k - 1])
  <2>1. 0 \in 0..n /\ \A k \in 1..n : k \in 0..n /\ k # 0
    OBVIOUS
  <2>2. \A k \in 0..n : R[k] = IF k = 0 THEN {Start} ELSE Onward(edges, R[k - 1])
    BY <1>10
  <2> QED BY <2>1, <2>2
<1> QED BY <1>1, <1>11 DEF Reach

\* What is reached stays reached, and so is what an edge leads to.
LEMMA ReachGrows ==
  ASSUME NEW edges, NEW n \in Nat, NEW R, Reach(edges, n, R)
  PROVE  /\ \A j \in 0..n : \A i \in 0..j : R[i] \subseteq R[j]
         /\ \A j \in 1..n : \A i \in 0..j - 1 : \A a, b :
              a \in R[i] /\ <<a, b>> \in edges => b \in R[j]
<1> DEFINE X == {j \in 0..n : \A i \in 0..j : R[i] \subseteq R[j]}
<1>1. ASSUME NEW j \in 1..n PROVE R[j - 1] \subseteq R[j] /\ \A a, b : a \in R[j - 1] /\ <<a, b>> \in edges => b \in R[j]
  <2>1. R[j] = Onward(edges, R[j - 1])
    BY DEF Reach
  <2>2. R[j - 1] \subseteq R[j]
    BY <2>1 DEF Onward
  <2>3. ASSUME NEW a, NEW b, a \in R[j - 1], <<a, b>> \in edges PROVE b \in R[j]
    <3>1. <<a, b>>[1] = a /\ <<a, b>>[2] = b
      OBVIOUS
    <3>2. b \in {e[2] : e \in {x \in edges : x[1] \in R[j - 1]}}
      BY <2>3, <3>1
    <3> QED BY <2>1, <3>2 DEF Onward
  <2> QED BY <2>2, <2>3
<1>2. ASSUME NEW k \in 0..n, \A j \in 0..k - 1 : j \in X PROVE k \in X
  <2>1. ASSUME NEW i \in 0..k PROVE R[i] \subseteq R[k]
    <3>1. CASE i = k
      BY <3>1
    <3>2. CASE i # k
      <4>1. k - 1 \in 0..k - 1 /\ i \in 0..k - 1 /\ k \in 1..n
        BY <3>2
      <4>2. R[i] \subseteq R[k - 1]
        BY <4>1, <1>2
      <4> QED BY <4>1, <4>2, <1>1
    <3> QED BY <3>1, <3>2
  <2> QED BY <2>1
<1>3. \A j \in 0..n : j \in X
  <2> HIDE DEF X
  <2>1. \A k \in 0..n : (\A j \in 0..k - 1 : j \in X) => k \in X
    BY <1>2
  <2> QED BY <2>1, FromTheStart
<1>4. ASSUME NEW j \in 1..n, NEW i \in 0..j - 1, NEW a, NEW b, a \in R[i], <<a, b>> \in edges
      PROVE  b \in R[j]
  <2>1. j - 1 \in 0..n /\ i \in 0..j - 1
    OBVIOUS
  <2>2. R[i] \subseteq R[j - 1]
    BY <2>1, <1>3
  <2> QED BY <2>2, <1>1, <1>4
<1> QED BY <1>3, <1>4

\* The node of a row is reached with no more edges than rows to it.
LEMMA RowReached ==
  ASSUME NEW list, Leveled(list), NEW alternative, NEW disabled, NEW m \in Nat, Len(list) <= m,
         NEW R, Reach(RenderEdges(list, alternative, disabled), m, R)
  PROVE  \A i \in 1..Len(list) : Node(list[i].id) \in R[i]
<1> DEFINE n == Len(list)
           edges == RenderEdges(list, alternative, disabled)
           X == {i \in 0..n : i = 0 \/ Node(list[i].id) \in R[i]}
<1>1. n \in Nat /\ n <= m
  BY DEF Leveled
<1>2. ASSUME NEW k \in 0..n, \A j \in 0..k - 1 : j \in X PROVE k \in X
  <2>1. CASE k = 0
    BY <2>1
  <2>2. CASE k # 0
    <3>1. k \in 1..n /\ k \in 1..m /\ 0 \in 0..k - 1
      BY <2>2, <1>1
    <3>2. \A j \in 1..k - 1 : j \in 0..k - 1 /\ j # 0
      BY <1>1
    <3>3. \A i \in 0..k - 1 : \A a, b : a \in R[i] /\ <<a, b>> \in edges => b \in R[k]
      <4> HIDE DEF edges
      <4> QED BY <3>1, ReachGrows DEF edges
    <3>4. CASE <<Start, Node(list[k].id)>> \in edges
      <4>1. Start \in R[0]
        BY DEF Reach
      <4> HIDE DEF edges
      <4> QED BY <3>1, <3>3, <3>4, <4>1
    <3>5. CASE \E j \in 1..k - 1 : <<Node(list[j].id), Node(list[k].id)>> \in edges
      <4>1. PICK j \in 1..k - 1 : <<Node(list[j].id), Node(list[k].id)>> \in edges
        BY <3>5
      <4>2. j \in 0..k - 1 /\ Node(list[j].id) \in R[j]
        BY <3>2, <1>2
      <4> HIDE DEF edges
      <4> QED BY <3>1, <3>3, <4>1, <4>2
    <3> QED BY <3>1, <3>4, <3>5, EdgeToRow
  <2> QED BY <2>1, <2>2
<1>3. \A i \in 0..n : i \in X
  <2> HIDE DEF X, n
  <2>1. \A k \in 0..n : (\A j \in 0..k - 1 : j \in X) => k \in X
    BY <1>2
  <2> QED BY <1>1, <2>1, FromTheStart
<1>4. \A i \in 1..n : i \in 0..n /\ i # 0
  BY <1>1
<1> QED BY <1>3, <1>4

\* The end of a list is reached when those further down are, and that of the flow last.
LEMMA EndReached ==
  ASSUME NEW list, Leveled(list), NEW alternative, NEW disabled, NEW m, m = 2 * Len(list) + 1,
         NEW R, Reach(RenderEdges(list, alternative, disabled), m, R)
  PROVE  \A p \in 0..Len(list) : Expandable(list)[p] # <<>> => To(list, p) \in R[m - p]
<1> DEFINE n == Len(list)
           edges == RenderEdges(list, alternative, disabled)
           tree == Expandable(list)
           X == {p \in 0..n : tree[p] # <<>> => To(list, p) \in R[m - p]}
<1>1. n \in Nat /\ m \in Nat /\ n <= m
  BY DEF Leveled
<1>2. \A i \in 1..n : Node(list[i].id) \in R[i]
  BY <1>1, RowReached
<1>3. ASSUME NEW p \in 0..n, \A q \in p + 1..n : q \in X PROVE p \in X
  <2> SUFFICES ASSUME tree[p] # <<>> PROVE To(list, p) \in R[m - p]
    OBVIOUS
  <2>1. PICK i \in p + 1..n : IF tree[i] = <<>> THEN <<Node(list[i].id), To(list, p)>> \in edges
                              ELSE <<To(list, i), To(list, p)>> \in edges
    BY EdgeToEnd
  <2>2. m - p \in 1..m /\ i \in 0..(m - p) - 1 /\ m - i \in 0..(m - p) - 1 /\ i \in 1..n
    <3> HIDE DEF n
    <3> QED BY <1>1 DEF n
  <2>3. \A j \in 0..(m - p) - 1 : \A a, b : a \in R[j] /\ <<a, b>> \in edges => b \in R[m - p]
    <3>1. Reach(edges, m, R)
      OBVIOUS
    <3> HIDE DEF edges
    <3>2. \A k \in 1..m : \A j \in 0..k - 1 : \A a, b :
            a \in R[j] /\ <<a, b>> \in edges => b \in R[k]
      BY <1>1, <3>1, ReachGrows
    <3> QED BY <2>2, <3>2
  <2>4. CASE tree[i] = <<>>
    <3>1. <<Node(list[i].id), To(list, p)>> \in edges
      BY <2>1, <2>4
    <3>2. Node(list[i].id) \in R[i]
      BY <2>2, <1>2
    <3> HIDE DEF edges, tree
    <3> QED BY <2>2, <2>3, <3>1, <3>2
  <2>5. CASE tree[i] # <<>>
    <3>1. <<To(list, i), To(list, p)>> \in edges
      BY <2>1, <2>5
    <3>2. To(list, i) \in R[m - i]
      BY <1>3, <2>5
    <3> HIDE DEF edges, tree
    <3> QED BY <2>2, <2>3, <3>1, <3>2
  <2> QED BY <2>4, <2>5
<1>4. \A p \in 0..n : p \in X
  <2> HIDE DEF X, n
  <2>1. \A p \in 0..n : (\A q \in p + 1..n : q \in X) => p \in X
    BY <1>3
  <2>2. 0 \in Int /\ n \in Int
    BY <1>1
  <2> QED BY <2>1, <2>2, FromTheEnd
<1> QED BY <1>4

\* The diagram of any rows is connected.
LEMMA RowsAreConnected ==
  ASSUME NEW S, NEW list \in Seq(S), Leveled(list), list # <<>>, NEW alternative, NEW disabled
  PROVE  Connected(list, alternative, disabled)
<1> DEFINE N == RenderNodes(list) \cup {Start, End}
           n == Len(list)
           m == 2 * n + 1
           edges == RenderEdges(list, alternative, disabled)
<1>1. n \in Nat /\ m \in Nat /\ n <= m
  BY DEF Leveled
<1>2. \A e \in edges : e[1] \in N /\ e[2] \in N
  BY EdgesJoinNodes
<1>3. PICK R : Reached(edges, m) = R[m] /\ Reach(edges, m, R)
  <2> HIDE DEF m, edges
  <2> QED BY <1>1, ReachedSteps
<1> DEFINE X == {k \in 0..m : R[k] \subseteq N}
<1>4. R[m] \subseteq N
  <2>1. ASSUME NEW k \in 0..m, \A j \in 0..k - 1 : j \in X PROVE k \in X
    <3>1. CASE k = 0
      BY <3>1, <1>3 DEF Reach
    <3>2. CASE k # 0
      <4>1. k \in 1..m /\ k - 1 \in 0..k - 1
        BY <3>2, <1>1
      <4>2. R[k] = Onward(edges, R[k - 1])
        BY <4>1, <1>3 DEF Reach
      <4>3. R[k - 1] \subseteq N
        BY <4>1, <2>1
      <4> HIDE DEF N, edges, m
      <4>4. R[k] \subseteq N
        BY <4>2, <4>3, <1>2 DEF Onward
      <4> QED BY <4>4
    <3> QED BY <3>1, <3>2
  <2>2. \A k \in 0..m : k \in X
    <3> HIDE DEF X, m
    <3>1. \A k \in 0..m : (\A j \in 0..k - 1 : j \in X) => k \in X
      BY <2>1
    <3> QED BY <1>1, <3>1, FromTheStart
  <2>3. m \in 0..m
    BY <1>1
  <2> QED BY <2>2, <2>3
<1>5. \A i \in 0..m : R[i] \subseteq R[m]
  <2> HIDE DEF edges, m
  <2>1. m \in 0..m
    BY <1>1
  <2> QED BY <1>1, <1>3, <2>1, ReachGrows
<1>6. \A i \in 1..n : Node(list[i].id) \in R[m]
  <2>1. \A i \in 1..n : Node(list[i].id) \in R[i]
    <3> HIDE DEF m
    <3> QED BY <1>1, <1>3, RowReached DEF edges, n
  <2>2. \A i \in 1..n : i \in 0..m
    BY <1>1
  <2> QED BY <2>1, <2>2, <1>5
<1>7. \A p \in 0..n : Expandable(list)[p] # <<>> => To(list, p) \in R[m]
  <2>1. \A p \in 0..n : Expandable(list)[p] # <<>> => To(list, p) \in R[m - p]
    BY <1>3, EndReached
  <2>2. \A p \in 0..n : m - p \in 0..m
    BY <1>1
  <2> QED BY <2>1, <2>2, <1>5
<1>8. Start \in R[m]
  <2>1. 0 \in 0..m /\ Start \in R[0]
    BY <1>1, <1>3 DEF Reach
  <2> QED BY <2>1, <1>5
<1>9. End \in R[m]
  <2>1. n # 0
    BY EmptySeq
  <2>2. 0 \in 0..n /\ Expandable(list)[0] # <<>>
    <3>1. Branch(list, 0) /\ EndAt(list, 0) = n + 1
      BY BranchTop DEF EndAt
    <3> QED BY <3>1, <2>1, <1>1 DEF Branch
  <2> QED BY <2>2, <1>7 DEF To
<1>10. N \subseteq R[m]
  <2>1. \A i \in 1..n : i \in 0..n /\ To(list, i) = EndOf(list[i].id)
    BY <1>1 DEF To
  <2>2. RenderNodes(list) \subseteq R[m]
    BY <1>6, <1>7, <2>1, NodesAre
  <2> QED BY <2>2, <1>8, <1>9
<1>11. Reached(edges, m) = N
  <2> HIDE DEF N, edges, m
  <2> QED BY <1>3, <1>4, <1>10
<1> QED BY <1>2, <1>11 DEF Connected

-----------------------------------------------------------------------------
(* The rows that the server answers, and those that the page holds.         *)

\* A row of the table.
Row == [id : Executions, gen : Nat, level : Nat, index : Nat]

\* FlattenSeq joins sequences over a set to one over it.
LEMMA FlattenType ==
  ASSUME NEW T, NEW seqs \in Seq(Seq(T))
  PROVE  FlattenSeq(seqs) \in Seq(T)
<1> DEFINE n == Len(seqs)
           Fix(f) == f = [i \in 1..n |-> IF i = 1 THEN seqs[i] ELSE f[i - 1] \o seqs[i]]
           f == CHOOSE f : Fix(f)
           step == [at \in (1..n) \X Seq(T) |-> IF at[1] = 1 THEN seqs[1] ELSE at[2] \o seqs[at[1]]]
<1>1. n \in Nat /\ \A i \in 1..n : seqs[i] \in Seq(T)
  BY ElementOfSeq
<1>2. CASE n = 0
  <2>1. FlattenSeq(seqs) = seqs /\ seqs = <<>>
    BY <1>2, EmptySeq DEF FlattenSeq
  <2> QED BY <2>1
<1>3. CASE n # 0
  <2>1. FlattenSeq(seqs) = f[n]
    BY <1>3 DEF FlattenSeq
  <2>2. \A i \in 1..n : \A x \in Seq(T) : step[<<i, x>>] \in Seq(T)
    <3>1. \A x, y \in Seq(T) : x \o y \in Seq(T)
      BY ConcatProperties
    <3>2. \A i \in 1..n : \A x \in Seq(T) :
            step[<<i, x>>] = IF i = 1 THEN seqs[1] ELSE x \o seqs[i]
      OBVIOUS
    <3> HIDE DEF step, n
    <3> QED BY <3>1, <3>2, <1>1
  <2>3. PICK g : Iterates(g, n, <<>>, step)
    <3> HIDE DEF step
    <3> QED BY <1>1, IterationExists
  <2>4. \A i \in 0..n : g[i] \in Seq(T)
    <3>1. <<>> \in Seq(T)
      OBVIOUS
    <3> HIDE DEF step
    <3> QED BY <1>1, <2>2, <2>3, <3>1, IterationStays
  <2> DEFINE h == [i \in 1..n |-> g[i]]
  <2>5. \A i \in 1..n : h[i] = IF i = 1 THEN seqs[i] ELSE h[i - 1] \o seqs[i]
    <3>1. ASSUME NEW i \in 1..n PROVE h[i] = IF i = 1 THEN seqs[i] ELSE h[i - 1] \o seqs[i]
      <4>1. i \in 0..n /\ i # 0 /\ i - 1 \in 0..n /\ (i # 1 => i - 1 \in 1..n)
        BY <1>1
      <4>2. h[i] = g[i] /\ (i # 1 => h[i - 1] = g[i - 1])
        BY <4>1
      <4> HIDE DEF h
      <4>3. g[i] = step[<<i, g[i - 1]>>]
        <5> HIDE DEF step
        <5> QED BY <2>3, <4>1 DEF Iterates
      <4>4. step[<<i, g[i - 1]>>] = IF i = 1 THEN seqs[1] ELSE g[i - 1] \o seqs[i]
        <5>1. g[i - 1] \in Seq(T)
          BY <4>1, <2>4
        <5> QED BY <5>1
      <4> HIDE DEF step
      <4> QED BY <4>2, <4>3, <4>4
    <3> HIDE DEF h
    <3> QED BY <3>1
  <2>6. Fix(h)
    <3>1. h = [i \in 1..n |-> h[i]]
      OBVIOUS
    <3> HIDE DEF h, n
    <3> QED BY <3>1, <2>5
  <2>7. Fix(f)
    <3> HIDE DEF h, Fix
    <3> QED BY <2>6
  <2> HIDE DEF f, step
  <2> DEFINE X == {i \in 0..n : i = 0 \/ f[i] \in Seq(T)}
  <2>8. ASSUME NEW k \in 0..n, \A j \in 0..k - 1 : j \in X PROVE k \in X
    <3>1. CASE k = 0
      BY <3>1
    <3>2. CASE k # 0
      <4>1. k \in 1..n /\ (k # 1 => k - 1 \in 0..k - 1 /\ k - 1 # 0)
        BY <3>2
      <4>2. f[k] = IF k = 1 THEN seqs[k] ELSE f[k - 1] \o seqs[k]
        BY <4>1, <2>7
      <4>3. k # 1 => f[k - 1] \in Seq(T)
        BY <4>1, <2>8
      <4>4. seqs[k] \in Seq(T)
        BY <4>1, <1>1
      <4>5. \A x, y \in Seq(T) : x \o y \in Seq(T)
        BY ConcatProperties
      <4>6. f[k] \in Seq(T)
        <5> HIDE DEF n, Fix
        <5> QED BY <4>2, <4>3, <4>4, <4>5
      <4> QED BY <4>6
    <3> QED BY <3>1, <3>2
  <2>9. \A k \in 0..n : k \in X
    <3> HIDE DEF X, Fix, n
    <3>1. \A k \in 0..n : (\A j \in 0..k - 1 : j \in X) => k \in X
      BY <2>8
    <3>2. n \in Nat
      BY <1>1
    <3> QED BY <3>1, <3>2, FromTheStart
  <2>10. n \in 0..n
    BY <1>1
  <2> QED BY <1>3, <2>1, <2>9, <2>10
<1> QED BY <1>2, <1>3

\* A row of a container and, when it is a sub-flow, the rows in it.
RowAbove(ch, mk, up, deeper, c, i) ==
  <<[id |-> ch[c][i], gen |-> mk[ch[c][i]], level |-> Deepest - up, index |-> i - 1]>> \o
  (IF up > 0 /\ ch[c][i] \in SubFlows THEN deeper[ch[c][i]] ELSE <<>>)

\* The rows of the containers of one level, from those of the level below.
RowsAbove(ch, mk, up, deeper) ==
  [c \in Containers |-> FlattenSeq([i \in DOMAIN ch[c] |-> RowAbove(ch, mk, up, deeper, c, i)])]

\* They are rows of the table.
LEMMA RowsAboveType ==
  ASSUME NEW ch, IsFlow(ch), NEW mk \in [Executions -> Nat], NEW up \in 0..Deepest, NEW deeper,
         up > 0 => deeper \in [Containers -> Seq(Row)], Deepest \in Nat
  PROVE  RowsAbove(ch, mk, up, deeper) \in [Containers -> Seq(Row)]
<1> SUFFICES ASSUME NEW c \in Containers
             PROVE  FlattenSeq([i \in DOMAIN ch[c] |-> RowAbove(ch, mk, up, deeper, c, i)]) \in Seq(Row)
  BY DEF RowsAbove
<1> DEFINE n == Len(ch[c])
           parts == [i \in DOMAIN ch[c] |-> RowAbove(ch, mk, up, deeper, c, i)]
<1>1. ch[c] \in Seq(Executions) /\ DOMAIN ch[c] = 1..n /\ n \in Nat
  <2>1. ch[c] \in Seq(Executions)
    BY DEF IsFlow
  <2> QED BY <2>1, LenProperties
<1>2. ASSUME NEW i \in DOMAIN ch[c] PROVE RowAbove(ch, mk, up, deeper, c, i) \in Seq(Row)
  <2> DEFINE row == [id |-> ch[c][i], gen |-> mk[ch[c][i]], level |-> Deepest - up, index |-> i - 1]
             below == IF up > 0 /\ ch[c][i] \in SubFlows THEN deeper[ch[c][i]] ELSE <<>>
  <2>1. ch[c][i] \in Executions
    BY <1>1, ElementOfSeq
  <2>2. row \in Row
    <3>1. mk[ch[c][i]] \in Nat /\ Deepest - up \in Nat /\ i - 1 \in Nat
      <4>1. i \in 1..n
        BY <1>1
      <4> HIDE DEF n
      <4> QED BY <4>1, <2>1, <1>1
    <3> QED BY <2>1, <3>1 DEF Row
  <2>3. below \in Seq(Row)
    <3>1. <<>> \in Seq(Row)
      OBVIOUS
    <3>2. CASE up > 0 /\ ch[c][i] \in SubFlows
      <4>1. ch[c][i] \in Containers /\ deeper \in [Containers -> Seq(Row)]
        BY <3>2 DEF Containers
      <4>2. deeper[ch[c][i]] \in Seq(Row)
        BY <4>1
      <4> QED BY <3>2, <4>2
    <3>3. CASE ~(up > 0 /\ ch[c][i] \in SubFlows)
      BY <3>1, <3>3
    <3> QED BY <3>2, <3>3
  <2>4. RowAbove(ch, mk, up, deeper, c, i) = <<row>> \o below
    BY DEF RowAbove
  <2>5. \A r \in Row : <<r>> \in Seq(Row)
    OBVIOUS
  <2>6. \A x, y \in Seq(Row) : x \o y \in Seq(Row)
    BY ConcatProperties
  <2> HIDE DEF row, below
  <2> QED BY <2>2, <2>3, <2>4, <2>5, <2>6
<1>3. parts \in Seq(Seq(Row))
  <2>1. parts \in [1..n -> Seq(Row)]
    <3> HIDE DEF n
    <3> QED BY <1>1, <1>2
  <2> HIDE DEF parts, n
  <2> QED BY <1>1, <2>1, SeqDef
<1> HIDE DEF parts
<1>4. FlattenSeq(parts) \in Seq(Row)
  BY <1>3, FlattenType
<1> QED BY <1>4 DEF parts

\* There are finitely many sub-flows.
LEMMA DeepestNat == Deepest \in Nat
BY FlowAssumption, FS_CardinalityType DEF Deepest

\* The server answers rows of the table.
LEMMA RowsOfType ==
  ASSUME NEW ch, IsFlow(ch), NEW mk \in [Executions -> Nat]
  PROVE  RowsOf(ch, mk) \in Seq(Row)
<1> DEFINE V == [Containers -> Seq(Row)]
           n == Deepest
           Fix(R) == R = [up \in 0..Deepest |-> RowsAbove(ch, mk, up, R[up - 1])]
           R == CHOOSE R : Fix(R)
           v == RowsAbove(ch, mk, 0, <<>>)
           step == [at \in (1..n) \X V |-> RowsAbove(ch, mk, at[1], at[2])]
<1>1. n \in Nat /\ Top \in Containers
  BY DeepestNat DEF Containers
<1>2. RowsOf(ch, mk) = R[n][Top]
  BY DEF RowsOf, RowsAbove, RowAbove
<1>3. \A x : RowsAbove(ch, mk, 0, x) = v
  BY DEF RowsAbove, RowAbove
<1>4. v \in V
  <2>1. 0 \in 0..Deepest /\ ~(0 > 0)
    BY <1>1
  <2> QED BY <2>1, <1>1, RowsAboveType
<1>5. \A up \in 1..n : \A x \in V : RowsAbove(ch, mk, up, x) \in V
  <2>1. \A up \in 1..n : up \in 0..Deepest
    BY <1>1
  <2> QED BY <2>1, <1>1, RowsAboveType
<1>6. \A up \in 1..n : \A x \in V : step[<<up, x>>] = RowsAbove(ch, mk, up, x)
  OBVIOUS
<1> HIDE DEF V, v, step
<1>7. PICK g : Iterates(g, n, v, step)
  BY <1>1, IterationExists
<1>8. \A up \in 0..n : g[up] \in V
  BY <1>1, <1>4, <1>5, <1>6, <1>7, IterationStays
<1>9. \A up \in 1..n : up - 1 \in 0..n /\ up \in 0..n /\ up # 0
  BY <1>1
<1>10. \A up \in 0..n : up = 0 \/ up \in 1..n
  BY <1>1
<1>11. ASSUME NEW up \in 0..n PROVE g[up] = RowsAbove(ch, mk, up, g[up - 1])
  <2>1. g[up] = IF up = 0 THEN v ELSE step[<<up, g[up - 1]>>]
    BY <1>7 DEF Iterates
  <2> HIDE DEF n
  <2> QED BY <2>1, <1>3, <1>6, <1>8, <1>9, <1>10
<1>12. Fix(g)
  <2>1. g = [up \in 0..n |-> g[up]]
    BY <1>7 DEF Iterates
  <2> QED BY <2>1, <1>11
<1>13. Fix(R)
  <2> HIDE DEF Fix
  <2> QED BY <1>12
<1> HIDE DEF R
<1>14. \A up \in 0..n : R[up] = RowsAbove(ch, mk, up, R[up - 1])
  BY <1>13
<1> DEFINE X == {up \in 0..n : R[up] \in V}
<1>15. ASSUME NEW k \in 0..n, \A j \in 0..k - 1 : j \in X PROVE k \in X
  <2>1. CASE k = 0
    <3>1. R[k] = v
      BY <2>1, <1>3, <1>14
    <3> QED BY <3>1, <1>4
  <2>2. CASE k # 0
    <3>1. k \in 1..n /\ k - 1 \in 0..k - 1
      BY <2>2, <1>1
    <3>2. R[k - 1] \in V
      BY <3>1, <1>15
    <3>3. R[k] \in V
      BY <3>1, <3>2, <1>5, <1>14
    <3> QED BY <3>3
  <2> QED BY <2>1, <2>2
<1>16. \A k \in 0..n : k \in X
  <2> HIDE DEF X, Fix, n
  <2>1. \A k \in 0..n : (\A j \in 0..k - 1 : j \in X) => k \in X
    BY <1>15
  <2> QED BY <2>1, <1>1, FromTheStart
<1>17. n \in 0..n
  BY <1>1
<1>18. R[n] \in V
  BY <1>16, <1>17
<1> QED BY <1>1, <1>2, <1>18 DEF V

\* Rows of the table have what the tree needs of them.
LEMMA RowsAreLeveled ==
  ASSUME NEW list \in Seq(Row)
  PROVE  Leveled(list)
<1>1. Len(list) \in Nat /\ DOMAIN list = 1..Len(list)
  BY LenProperties
<1>2. \A i \in 1..Len(list) : list[i] \in Row
  BY ElementOfSeq
<1>3. \A r \in Row : r.level \in Nat
  BY DEF Row
<1> QED BY <1>1, <1>2, <1>3 DEF Leveled

\* The rows shown and those on their way are rows of the table.
RowsInv ==
  /\ made \in [Executions -> Nat]
  /\ rows \in Seq(Row) /\ fetch.rows \in Seq(Row)

\* So does the server.
LEMMA ServerRowsType == ASSUME TypeInv, RowsInv PROVE ServerRows \in Seq(Row)
BY RowsOfType DEF ServerRows, TypeInv, TypeOK, RowsInv

\* The page opens with such rows.
LEMMA RowsInit == Init => RowsInv
<1> SUFFICES ASSUME Init PROVE RowsInv
  OBVIOUS
<1>1. made \in [Executions -> Nat] /\ IsFlow(children)
  BY FlowAssumption DEF Init
<1>2. rows \in Seq(Row)
  BY <1>1, RowsOfType DEF Init, ServerRows
<1>3. fetch.rows \in Seq(Row)
  BY DEF Init, NoFetch
<1> QED BY <1>1, <1>2, <1>3 DEF RowsInv

\* A call keeps the count of creations.
LEMMA EffectCounts ==
  ASSUME TypeInv, RowsInv, NEW s \in Slots, jobs[s] # Idle, Effect(jobs[s])
  PROVE  made' \in [Executions -> Nat]
<1>1. /\ jobs[s].step \in {"del", "add", "shift"}
      /\ jobs[s].step = "add" => jobs[s].id \in Executions
  BY DEF TypeInv, JobInv, Holds
<1>2. made \in [Executions -> Nat]
  BY DEF RowsInv
<1>3. CASE jobs[s].step = "del"
  BY <1>2, <1>3 DEF Effect
<1>4. CASE jobs[s].step = "add"
  <2>1. made' = [made EXCEPT ![jobs[s].id] = @ + 1]
    BY <1>4 DEF Effect
  <2> QED BY <2>1, <1>1, <1>2, <1>4
<1>5. CASE jobs[s].step = "shift"
  BY <1>2, <1>5 DEF Effect
<1> QED BY <1>1, <1>3, <1>4, <1>5

\* Every step keeps them.
LEMMA RowsStep == TypeInv /\ RowsInv /\ [Next]_vars => RowsInv'
<1> SUFFICES ASSUME TypeInv, RowsInv, [Next]_vars PROVE RowsInv'
  OBVIOUS
<1>1. made \in [Executions -> Nat] /\ rows \in Seq(Row) /\ fetch.rows \in Seq(Row) /\ <<>> \in Seq(Row)
  BY DEF RowsInv
<1>2. UNCHANGED <<made, rows, fetch>> => RowsInv'
  BY <1>1 DEF RowsInv
<1>3. CASE UserChanges
  BY <1>2, <1>3 DEF UserChanges, Drop, Delete, Add
<1>4. ASSUME NEW id \in SubFlows, RowClick(id) PROVE RowsInv'
  BY <1>2, <1>4 DEF RowClick
<1>5. CASE FetchServed
  <2>1. fetch' = [step |-> "answered", rows |-> ServerRows] /\ UNCHANGED <<made, rows>>
    BY <1>5 DEF FetchServed
  <2>2. fetch'.rows = ServerRows
    BY <2>1
  <2> QED BY <1>1, <2>1, <2>2, ServerRowsType DEF RowsInv
<1>6. CASE FetchArrives
  BY <1>1, <1>6 DEF FetchArrives, NoFetch, RowsInv
<1>7. ASSUME NEW s \in Slots, CallDone(s) PROVE RowsInv'
  <2>1. made' \in [Executions -> Nat] /\ UNCHANGED rows
    BY <1>7, EffectCounts DEF CallDone
  <2>2. fetch'.rows \in Seq(Row)
    <3>1. fetch' = fetch \/ fetch' = [step |-> "asked", rows |-> <<>>]
      BY <1>7 DEF CallDone, Refresh
    <3>2. fetch'.rows = fetch.rows \/ fetch'.rows = <<>>
      BY <3>1
    <3> QED BY <1>1, <3>2
  <2> QED BY <1>1, <2>1, <2>2 DEF RowsInv
<1>8. ASSUME NEW s \in Slots, NEW done \in BOOLEAN, CallFailed(s, done) PROVE RowsInv'
  <2>1. made' \in [Executions -> Nat]
    BY <1>1, <1>8, EffectCounts DEF CallFailed
  <2>2. UNCHANGED <<rows, fetch>>
    BY <1>8 DEF CallFailed
  <2> QED BY <1>1, <2>1, <2>2 DEF RowsInv
<1>9. CASE UNCHANGED vars
  BY <1>2, <1>9 DEF vars
<1> QED BY <1>3, <1>4, <1>5, <1>6, <1>7, <1>8, <1>9 DEF Next

\* execution-model.ts, transformToExpandableList and order, for any flow of any depth: the
\* tree built from the rows of the server is the one that they describe, and read from top
\* to bottom it gives them back.
THEOREM TreeOfRowsHolds == Spec => []TreeOfRows
<1>1. RowsInv => TreeOfRows
  BY RowsAreLeveled, TreeIsDescribed DEF RowsInv, TreeOfRows
<1> QED BY <1>1, TypeInit, TypeStep, RowsInit, RowsStep, PTL DEF Spec

\* FlowDiagram.tsx, for any flow of any depth and any requirements of its executions: every
\* edge joins two nodes that are drawn, and every node is reached from the start.
THEOREM DiagramIsConnectedHolds == Spec => []DiagramIsConnected
<1>1. RowsInv => DiagramIsConnected
  BY RowsAreLeveled, RowsAreConnected DEF RowsInv, DiagramIsConnected
<1> QED BY <1>1, TypeInit, TypeStep, RowsInit, RowsStep, PTL DEF Spec

=============================================================================
