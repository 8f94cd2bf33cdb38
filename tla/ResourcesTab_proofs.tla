------------------------- MODULE ResourcesTab_proofs -------------------------
(***************************************************************************)
(* What holds of ResourcesTab for any resources, users and scopes, and any *)
(* number of handlers and failures: what the page shows of the shares, the *)
(* list of requests after an answer, and what an accepted request gives.   *)
(***************************************************************************)
EXTENDS ResourcesTab, TLAPS

Writers == {"unshare", "share", "edit"}

\* Permissions as the page holds them.
Perm(p) == DOMAIN p \subseteq Users /\ \A u \in DOMAIN p : p[u] \subseteq Scopes

DetailOK(d) ==
  /\ d = [open |-> d.open, known |-> d.known, permissions |-> d.permissions]
  /\ d.open \subseteq Fields /\ d.known \in BOOLEAN /\ Perm(d.permissions)
  /\ d.open # {} => d.known

DetailsOK(ds) == DOMAIN ds = Resources /\ \A r \in Resources : DetailOK(ds[r])

\* A handler under way, by its kind.
JobOK(j) ==
  /\ {"kind", "r", "step", "todo", "failed", "alone"} \subseteq DOMAIN j
  /\ j.r \in Resources /\ j.failed \in BOOLEAN /\ j.alone \in BOOLEAN
  /\ \A put \in j.todo : Perm(put)
  /\ \/ /\ j.kind = "toggle" /\ j.step \in {"read", "go"} /\ j.todo = {}
        /\ {"field", "seen", "past", "got"} \subseteq DOMAIN j
        /\ j.field \in Fields /\ DetailsOK(j.seen) /\ j.past \subseteq Resources /\ Perm(j.got)
     \/ j.kind \in Writers /\ j.step = "put"
     \/ /\ j.kind = "decide" /\ j.step \in {"read", "put"}
        /\ {"user", "approve", "key", "was"} \subseteq DOMAIN j
        /\ j.user \in Users /\ j.approve \in BOOLEAN /\ j.key \in Nat
        /\ j.was \in [Users -> SUBSET Scopes]
        /\ \A p, q \in j.todo : p = q
        /\ \A put \in j.todo : DOMAIN put = {j.user}
        /\ j.step = "read" => j.todo = {}

JobsOK(js) == DOMAIN js = Slots /\ \A s \in Slots : js[s] = Idle \/ JobOK(js[s])

TypeInv ==
  /\ shares \in [Resources -> [Users -> SUBSET Scopes]]
  /\ pending \in [Resources -> SUBSET Users]
  /\ \A r \in Resources : listed[r] \subseteq Users
  /\ key \in Nat
  /\ fetch = [asked |-> fetch.asked, got |-> fetch.got] /\ fetch.asked \in BOOLEAN
  /\ DOMAIN fetch.got \subseteq Resources /\ \A r \in DOMAIN fetch.got : fetch.got[r] \subseteq Users
  /\ DetailsOK(details) /\ \A r \in Resources : Perm(form[r])
  /\ JobsOK(jobs)
  /\ behind \subseteq Resources

-----------------------------------------------------------------------------
(* Facts about handlers.                                                    *)

LEMMA BusyFacts ==
  ASSUME NEW j, JobOK(j)
  PROVE  j # Idle /\ j.kind \in {"toggle", "unshare", "share", "edit", "decide"}
<1>1. Idle.kind = "idle"
  BY DEF Idle
<1> QED BY <1>1 DEF JobOK, Writers

\* A handler that something has overtaken knows of nothing but that.
Calm(j) == [j EXCEPT !.alone = FALSE]

LEMMA CalmFacts ==
  ASSUME NEW j, JobOK(j)
  PROVE  /\ JobOK(Calm(j)) /\ Calm(j).alone = FALSE
         /\ Calm(j).kind = j.kind /\ Calm(j).r = j.r /\ Calm(j).step = j.step
         /\ Calm(j).todo = j.todo /\ Calm(j).failed = j.failed
         /\ j.kind = "decide" => Calm(j).user = j.user
<1>1. /\ DOMAIN Calm(j) = DOMAIN j
      /\ \A x \in DOMAIN j : x # "alone" => Calm(j)[x] = j[x]
      /\ Calm(j).alone = FALSE
  BY DEF JobOK, Calm
<1> HIDE DEF Calm
<1>2. /\ Calm(j).kind = j.kind /\ Calm(j).r = j.r /\ Calm(j).step = j.step
      /\ Calm(j).todo = j.todo /\ Calm(j).failed = j.failed
  BY <1>1 DEF JobOK
<1>3. CASE j.kind = "toggle"
  <2>1. /\ Calm(j).field = j.field /\ Calm(j).seen = j.seen /\ Calm(j).past = j.past
        /\ Calm(j).got = j.got
    BY <1>1, <1>3 DEF JobOK, Writers
  <2> QED BY <1>1, <1>2, <1>3, <2>1 DEF JobOK, Writers
<1>4. CASE j.kind \in Writers
  BY <1>1, <1>2, <1>4 DEF JobOK, Writers
<1>5. CASE j.kind = "decide"
  <2>1. /\ Calm(j).user = j.user /\ Calm(j).approve = j.approve /\ Calm(j).key = j.key
        /\ Calm(j).was = j.was
    BY <1>1, <1>5 DEF JobOK, Writers
  <2> QED BY <1>1, <1>2, <1>5, <2>1 DEF JobOK, Writers
<1> QED BY <1>2, <1>3, <1>4, <1>5 DEF JobOK

\* One call less, served or failed.
LEMMA TodoFacts ==
  ASSUME NEW j, JobOK(j), NEW put, NEW k, DOMAIN k = DOMAIN j,
         \A x \in DOMAIN j : x \notin {"todo", "failed"} => k[x] = j[x],
         k.todo = j.todo \ {put}, k.failed \in BOOLEAN
  PROVE  /\ JobOK(k)
         /\ k.kind = j.kind /\ k.r = j.r /\ k.step = j.step /\ k.alone = j.alone
         /\ j.kind = "decide" => k.user = j.user /\ k.was = j.was /\ k.approve = j.approve
         /\ j.kind = "toggle" => k.seen = j.seen /\ k.past = j.past /\ k.got = j.got
<1>1. k.kind = j.kind /\ k.r = j.r /\ k.step = j.step /\ k.alone = j.alone
  BY DEF JobOK
<1>2. CASE j.kind = "toggle"
  <2>1. k.field = j.field /\ k.seen = j.seen /\ k.past = j.past /\ k.got = j.got
    BY <1>2 DEF JobOK, Writers
  <2> QED BY <1>1, <1>2, <2>1 DEF JobOK, Writers
<1>3. CASE j.kind \in Writers
  BY <1>1, <1>3 DEF JobOK, Writers
<1>4. CASE j.kind = "decide"
  <2>1. k.user = j.user /\ k.approve = j.approve /\ k.key = j.key /\ k.was = j.was
    BY <1>4 DEF JobOK, Writers
  <2> QED BY <1>1, <1>4, <2>1 DEF JobOK, Writers
<1> QED BY <1>1, <1>2, <1>3, <1>4 DEF JobOK

\* The handlers that a click starts.
LEMMA WriterFacts ==
  ASSUME NEW kind \in Writers, NEW r \in Resources, NEW todo, \A put \in todo : Perm(put),
         NEW j, j = WriteJob(kind, r, todo)
  PROVE  JobOK(j) /\ j.kind = kind /\ j.r = r /\ ~j.failed
<1>1. \A b \in BOOLEAN, c \in BOOLEAN :
        LET k == [kind |-> kind, r |-> r, step |-> "put", todo |-> todo, failed |-> b, alone |-> c]
        IN JobOK(k) /\ k.kind = kind /\ k.r = r /\ k.failed = b
  BY DEF JobOK
<1> QED BY <1>1, Zenon DEF WriteJob

LEMMA ToggleFacts ==
  ASSUME DetailsOK(details), behind \subseteq Resources, NEW r \in Resources, NEW field \in Fields,
         NEW j, j = ToggleJob(r, field)
  PROVE  /\ JobOK(j) /\ j.kind = "toggle" /\ j.r = r /\ j.step = "read"
         /\ j.seen = details /\ j.past = behind
<1>1. Perm(<<>>)
  BY DEF Perm
<1>2. \A b \in BOOLEAN, c \in BOOLEAN :
        LET k == [kind |-> "toggle", r |-> r, step |-> "read", todo |-> {}, failed |-> b, alone |-> c,
                  field |-> field, seen |-> details, past |-> behind, got |-> <<>>]
        IN /\ JobOK(k) /\ k.kind = "toggle" /\ k.r = r /\ k.step = "read"
           /\ k.seen = details /\ k.past = behind
  BY <1>1 DEF JobOK
<1> QED BY <1>2, Zenon DEF ToggleJob

LEMMA DecideFacts ==
  ASSUME shares \in [Resources -> [Users -> SUBSET Scopes]], key \in Nat,
         NEW r \in Resources, NEW u \in Users, NEW approve \in BOOLEAN,
         NEW j, j = DecideJob(r, u, approve)
  PROVE  /\ JobOK(j) /\ j.kind = "decide" /\ j.r = r /\ j.step = "read" /\ j.todo = {}
         /\ j.was = shares[r]
<1>1. \A b \in BOOLEAN, c \in BOOLEAN, d \in BOOLEAN :
        LET k == [kind |-> "decide", r |-> r, step |-> "read", todo |-> {}, failed |-> b, alone |-> c,
                  user |-> u, approve |-> d, key |-> key, was |-> shares[r]]
        IN /\ JobOK(k) /\ k.kind = "decide" /\ k.r = r /\ k.step = "read" /\ k.todo = {}
           /\ k.was = shares[r]
  BY DEF JobOK
<1> QED BY <1>1, Zenon DEF DecideJob

\* What a handler knows after its read.
LEMMA ToggleReadFacts ==
  ASSUME NEW j, JobOK(j), j.kind = "toggle", NEW p, Perm(p),
         NEW k, k = [j EXCEPT !.step = "go", !.got = p]
  PROVE  /\ JobOK(k) /\ k.kind = "toggle" /\ k.r = j.r /\ k.step = "go" /\ k.alone = j.alone
         /\ k.seen = j.seen /\ k.past = j.past /\ k.got = p
<1>1. {"field", "seen", "past", "got"} \subseteq DOMAIN j
  BY DEF JobOK, Writers
<1>2. /\ DOMAIN k = DOMAIN j /\ k.step = "go" /\ k.got = p
      /\ \A x \in DOMAIN j : x \notin {"step", "got"} => k[x] = j[x]
  BY <1>1 DEF JobOK
<1>3. /\ k.kind = j.kind /\ k.r = j.r /\ k.todo = j.todo /\ k.failed = j.failed /\ k.alone = j.alone
      /\ k.field = j.field /\ k.seen = j.seen /\ k.past = j.past
  BY <1>1, <1>2 DEF JobOK
<1> QED BY <1>1, <1>2, <1>3 DEF JobOK, Writers

LEMMA DecideReadFacts ==
  ASSUME NEW j, JobOK(j), j.kind = "decide", NEW put, Perm(put), DOMAIN put = {j.user},
         NEW k, k = [j EXCEPT !.step = "put", !.todo = {put}]
  PROVE  /\ JobOK(k) /\ k.kind = "decide" /\ k.r = j.r /\ k.step = "put" /\ k.todo = {put}
         /\ k.alone = j.alone /\ k.failed = j.failed
         /\ k.user = j.user /\ k.was = j.was /\ k.approve = j.approve
<1>1. {"user", "approve", "key", "was"} \subseteq DOMAIN j
  BY DEF JobOK, Writers
<1>2. /\ DOMAIN k = DOMAIN j /\ k.step = "put" /\ k.todo = {put}
      /\ \A x \in DOMAIN j : x \notin {"step", "todo"} => k[x] = j[x]
  BY <1>1 DEF JobOK
<1>3. /\ k.kind = j.kind /\ k.r = j.r /\ k.failed = j.failed /\ k.alone = j.alone
      /\ k.user = j.user /\ k.approve = j.approve /\ k.key = j.key /\ k.was = j.was
  BY <1>1, <1>2 DEF JobOK
<1> QED BY <1>1, <1>2, <1>3 DEF JobOK, Writers

-----------------------------------------------------------------------------
(* What the actions do to the handlers and the details.                     *)

LEMMA DisturbFacts ==
  ASSUME JobsOK(jobs), NEW s
  PROVE  /\ JobsOK(Disturb(s))
         /\ \A t \in Slots : Disturb(s)[t] = IF t # s /\ jobs[t] # Idle THEN Calm(jobs[t]) ELSE jobs[t]
<1>1. /\ DOMAIN Disturb(s) = Slots
      /\ \A t \in Slots : Disturb(s)[t] = IF t # s /\ jobs[t] # Idle THEN Calm(jobs[t]) ELSE jobs[t]
  BY DEF Disturb, Calm
<1>2. \A t \in Slots : jobs[t] = Idle \/ (JobOK(jobs[t]) /\ JobOK(Calm(jobs[t])))
  BY CalmFacts DEF JobsOK
<1> HIDE DEF Disturb
<1> QED BY <1>1, <1>2 DEF JobsOK

LEMMA ClickFacts ==
  ASSUME JobsOK(jobs), NEW s \in Slots, NEW job, JobOK(job), Click(s, job)
  PROVE  /\ JobsOK(jobs') /\ jobs[s] = Idle /\ jobs'[s] = job
         /\ \A t \in Slots : t # s => jobs'[t] = jobs[t]
         /\ UNCHANGED <<shares, pending, failures>>
  BY DEF JobsOK, Click, server

LEMMA SetDetailsFacts ==
  ASSUME TypeInv, NEW new, DetailsOK(new), SetDetails(new)
  PROVE  details' = new /\ \A r \in Resources : Perm(form'[r])
<1>1. Perm(<<>>)
  BY DEF Perm
<1>2. \A r \in Resources : Perm(form[r]) /\ Perm(new[r].permissions)
  BY DEF TypeInv, DetailsOK, DetailOK
<1> QED BY <1>1, <1>2 DEF SetDetails

LEMMA ResetFacts ==
  ASSUME TypeInv, Reset
  PROVE  /\ DetailsOK(details') /\ \A r \in Resources : Perm(form'[r]) /\ ~details'[r].known
         /\ behind' = {}
<1>1. Perm(<<>>)
  BY DEF Perm
<1>2. \A b \in BOOLEAN : ~b => DetailOK([open |-> {}, known |-> b, permissions |-> <<>>])
  BY <1>1 DEF DetailOK
<1>3. DetailOK(Nothing) /\ ~Nothing.known
  <2>1. \A b \in BOOLEAN : [open |-> {}, known |-> b, permissions |-> <<>>].known = b
    OBVIOUS
  <2> QED BY <1>2, <2>1, Zenon DEF Nothing
<1>4. DetailsOK([r \in Resources |-> Nothing])
  BY <1>3 DEF DetailsOK
<1> QED BY <1>3, <1>4, SetDetailsFacts DEF Reset

\* What one of the answers to fetchPermission holds.
LEMMA PermissionsFacts ==
  ASSUME shares \in [Resources -> [Users -> SUBSET Scopes]], pending \in [Resources -> SUBSET Users],
         NEW r \in Resources, NEW p, p = Permissions(r)
  PROVE  /\ Perm(p) /\ Holders(r) \subseteq DOMAIN p
         /\ \A u \in DOMAIN p : p[u] = shares[r][u]
  BY DEF Permissions, Perm, Holders

\* What the page writes for the user of an answered request.
LEMMA DecisionFacts ==
  ASSUME NEW j, JobOK(j), j.kind = "decide", NEW p, Perm(p), j.user \in DOMAIN p,
         NEW put, put = [v \in {j.user} |-> Decision(j, p)]
  PROVE  /\ Perm(put) /\ DOMAIN put = {j.user}
         /\ put[j.user] = IF j.approve THEN p[j.user] \cup Wanted ELSE p[j.user]
  BY ResourcesAssumption DEF JobOK, Writers, Perm, Decision

-----------------------------------------------------------------------------
(* Types.                                                                   *)

LEMMA InitTypes == Init => TypeInv
<1> SUFFICES ASSUME Init PROVE TypeInv
  OBVIOUS
<1>1. Perm(<<>>)
  BY DEF Perm
<1>2. DetailOK(Nothing)
  <2>1. \A b \in BOOLEAN : DetailOK([open |-> {}, known |-> b, permissions |-> <<>>])
    BY <1>1 DEF DetailOK
  <2> QED BY <2>1, Zenon DEF Nothing
<1>3. DetailsOK(details) /\ \A r \in Resources : Perm(form[r])
  BY <1>1, <1>2 DEF Init, DetailsOK
<1>4. JobsOK(jobs)
  BY DEF Init, JobsOK
<1>5. /\ fetch = [asked |-> fetch.asked, got |-> fetch.got] /\ fetch.asked \in BOOLEAN
      /\ fetch.got = <<>>
  BY DEF Init, NoFetch
<1>6. /\ shares \in [Resources -> [Users -> SUBSET Scopes]]
      /\ pending \in [Resources -> SUBSET Users]
      /\ \A r \in Resources : listed[r] \subseteq Users
  BY ResourcesAssumption DEF Init
<1>7. key \in Nat /\ behind \subseteq Resources
  BY DEF Init
<1> QED BY <1>3, <1>4, <1>5, <1>6, <1>7 DEF TypeInv

LEMMA ListTypes ==
  ASSUME TypeInv,
         \/ SetParams \/ (\E r \in Resources : RequestsServed(r)) \/ FetchArrives \/ FetchFails
         \/ \E r \in Resources, u \in Users : RequestMade(r, u)
  PROVE  TypeInv'
<1>1. CASE SetParams
  BY <1>1 DEF SetParams, Restart, Asked, server, table, TypeInv
<1>2. ASSUME NEW r \in Resources, RequestsServed(r) PROVE TypeInv'
  BY <1>2 DEF RequestsServed, server, table, TypeInv
<1>3. CASE FetchArrives
  BY <1>3 DEF FetchArrives, NoFetch, server, table, TypeInv
<1>4. CASE FetchFails
  BY <1>4 DEF FetchFails, NoFetch, server, table, TypeInv
<1>5. ASSUME NEW r \in Resources, NEW u \in Users, RequestMade(r, u) PROVE TypeInv'
  <2>1. pending' = [pending EXCEPT ![r] = pending[r] \cup {u}]
        /\ UNCHANGED <<shares, listed, key, fetch, details, form, behind, jobs>>
    BY <1>5 DEF RequestMade, table
  <2>2. pending' \in [Resources -> SUBSET Users]
    BY <2>1 DEF TypeInv
  <2> QED BY <2>1, <2>2 DEF TypeInv
<1> QED BY <1>1, <1>2, <1>3, <1>4, <1>5

LEMMA ClickTypes ==
  ASSUME TypeInv, NEW s \in Slots, Clicked(s)
  PROVE  TypeInv'
<1>1. ASSUME NEW job, JobOK(job), Click(s, job), UNCHANGED <<list, table>> PROVE TypeInv'
  BY <1>1, ClickFacts DEF TypeInv, list, table
<1>2. ASSUME NEW r \in Resources, NEW field \in Fields, ToggleUnknown(s, r, field) PROVE TypeInv'
  BY <1>1, <1>2, ToggleFacts DEF ToggleUnknown, TypeInv
<1>3. ASSUME NEW r \in Resources, RemoveShare(s, r) PROVE TypeInv'
  <2> DEFINE put == [u \in DOMAIN details[r].permissions |-> {}]
             todo == {put}
  <2>1. Perm(put)
    BY DEF TypeInv, DetailsOK, DetailOK, Perm
  <2> HIDE DEF put
  <2>2. \A q \in todo : Perm(q)
    BY <2>1
  <2> HIDE DEF todo
  <2>3. JobOK(WriteJob("unshare", r, todo))
    BY <2>2, WriterFacts DEF Writers
  <2>4. Click(s, WriteJob("unshare", r, todo)) /\ UNCHANGED <<list, table>>
    BY <1>3 DEF RemoveShare, todo, put
  <2> QED BY <1>1, <2>3, <2>4
<1>4. ASSUME NEW r \in Resources, NEW users \in SUBSET Users, NEW scopes \in Choices,
             AddShare(s, r, users, scopes)
      PROVE  TypeInv'
  <2> DEFINE todo == {[v \in {u} |-> scopes] : u \in users}
  <2>1. \A u \in Users : Perm([v \in {u} |-> scopes])
    BY ResourcesAssumption DEF Perm
  <2>2. \A put \in todo : Perm(put)
    BY <2>1
  <2> HIDE DEF todo
  <2>3. JobOK(WriteJob("share", r, todo))
    BY <2>2, WriterFacts DEF Writers
  <2>4. Click(s, WriteJob("share", r, todo)) /\ UNCHANGED <<list, table>>
    BY <1>4 DEF AddShare, todo
  <2> QED BY <1>1, <2>3, <2>4
<1>5. ASSUME NEW r \in Resources, NEW u \in Users, NEW scopes \in Choices, EditShares(s, r, u, scopes)
      PROVE  TypeInv'
  <2> DEFINE todo == {[v \in {w} |-> IF w = u THEN scopes ELSE form[r][w]] : w \in DOMAIN form[r]}
  <2>1. Perm(form[r]) /\ scopes \subseteq Scopes
    BY ResourcesAssumption DEF TypeInv
  <2>2. \A w \in DOMAIN form[r] : Perm([v \in {w} |-> IF w = u THEN scopes ELSE form[r][w]])
    BY <2>1 DEF Perm
  <2>3. \A put \in todo : Perm(put)
    BY <2>2
  <2> HIDE DEF todo
  <2>4. JobOK(WriteJob("edit", r, todo))
    BY <2>3, WriterFacts DEF Writers
  <2>5. Click(s, WriteJob("edit", r, todo)) /\ UNCHANGED <<list, table>>
    BY <1>5 DEF EditShares, todo
  <2> QED BY <1>1, <2>4, <2>5
<1>6. ASSUME NEW r \in Resources, NEW u \in Users, NEW approve \in BOOLEAN, ApproveDeny(s, r, u, approve)
      PROVE  TypeInv'
  BY <1>1, <1>6, DecideFacts DEF ApproveDeny, TypeInv
<1> QED BY <1>2, <1>3, <1>4, <1>5, <1>6 DEF Clicked

LEMMA ToggleKnownTypes ==
  ASSUME TypeInv, NEW r \in Resources, NEW field \in Fields, ToggleKnown(r, field)
  PROVE  TypeInv' /\ \A q \in Resources : /\ details'[q].known = details[q].known
                                         /\ details'[q].permissions = details[q].permissions
<1> DEFINE open == IF field \in details[r].open THEN details[r].open \ {field}
                                                ELSE details[r].open \cup {field}
           new == [details EXCEPT ![r].open = open]
<1>1. SetDetails(new) /\ details[r].known
      /\ UNCHANGED <<shares, pending, listed, key, fetch, jobs, behind>>
  BY DEF ToggleKnown, server, list
<1>2. DetailOK(details[r]) /\ DOMAIN details = Resources /\ \A q \in Resources : DetailOK(details[q])
  BY DEF TypeInv, DetailsOK
<1>3. /\ DOMAIN new = Resources /\ \A q \in Resources : q # r => new[q] = details[q]
      /\ new[r] = [details[r] EXCEPT !.open = open]
  BY <1>2
<1>4. open \subseteq Fields
  BY <1>2 DEF DetailOK
<1> HIDE DEF new, open
<1>5. DetailOK(new[r]) /\ new[r].known = details[r].known /\ new[r].permissions = details[r].permissions
  BY <1>1, <1>2, <1>3, <1>4 DEF DetailOK
<1>6. DetailsOK(new)
  BY <1>2, <1>3, <1>5 DEF DetailsOK
<1>7. details' = new /\ \A q \in Resources : Perm(form'[q])
  BY <1>1, <1>6, SetDetailsFacts
<1> QED BY <1>1, <1>3, <1>5, <1>6, <1>7 DEF TypeInv

LEMMA CloseTypes ==
  ASSUME TypeInv, CloseDialog
  PROVE  TypeInv'
<1>1. Reset /\ jobs' = Disturb(0) /\ UNCHANGED <<shares, pending, listed, key, fetch>>
  BY DEF CloseDialog, server, list
<1> QED BY <1>1, ResetFacts, DisturbFacts DEF TypeInv

\* Where a read leads: into the rest of the toggle, to the write, or to an end.
LEMMA ReadFacts ==
  ASSUME TypeInv, NEW s \in Slots, ReadServed(s)
  PROVE  /\ JobOK(jobs[s]) /\ jobs[s].step = "read"
         /\ UNCHANGED <<server, list, table, clicks, failures>>
         /\ DOMAIN jobs' = Slots /\ \A t \in Slots : t # s => jobs'[t] = jobs[t]
         /\ \/ jobs'[s] = Idle
            \/ \E p :
                 /\ p = Permissions(jobs[s].r)
                 /\ jobs[s].kind = "toggle" /\ jobs'[s] = [jobs[s] EXCEPT !.step = "go", !.got = p]
            \/ \E p :
                 /\ p = Permissions(jobs[s].r)
                 /\ jobs[s].kind = "decide" /\ jobs[s].user \in DOMAIN p
                 /\ jobs'[s] = [jobs[s] EXCEPT !.step = "put",
                                  !.todo = {[v \in {jobs[s].user} |-> Decision(jobs[s], p)]}]
<1>1. JobOK(jobs[s]) /\ jobs[s].step = "read" /\ DOMAIN jobs = Slots
  BY DEF ReadServed, TypeInv, JobsOK
<1>2. jobs[s].kind = "toggle" \/ jobs[s].kind = "decide"
  BY <1>1 DEF JobOK
<1> QED BY <1>1, <1>2 DEF ReadServed

LEMMA ReadTypes ==
  ASSUME TypeInv, NEW s \in Slots, ReadServed(s)
  PROVE  TypeInv'
<1>1. jobs'[s] = Idle \/ JobOK(jobs'[s])
  <2>1. JobOK(jobs[s]) /\ jobs[s].r \in Resources
    BY ReadFacts DEF JobOK
  <2>2. ASSUME NEW p, p = Permissions(jobs[s].r), jobs[s].kind = "toggle",
               jobs'[s] = [jobs[s] EXCEPT !.step = "go", !.got = p]
        PROVE  JobOK(jobs'[s])
    <3>1. Perm(p)
      BY <2>1, <2>2, PermissionsFacts DEF TypeInv
    <3> DEFINE k == [jobs[s] EXCEPT !.step = "go", !.got = p]
    <3>2. JobOK(k)
      BY <2>1, <2>2, <3>1, ToggleReadFacts
    <3> QED BY <2>2, <3>2
  <2>3. ASSUME NEW p, p = Permissions(jobs[s].r), jobs[s].kind = "decide", jobs[s].user \in DOMAIN p,
               jobs'[s] = [jobs[s] EXCEPT !.step = "put",
                             !.todo = {[v \in {jobs[s].user} |-> Decision(jobs[s], p)]}]
        PROVE  JobOK(jobs'[s])
    <3> DEFINE put == [v \in {jobs[s].user} |-> Decision(jobs[s], p)]
    <3>1. Perm(p)
      BY <2>1, <2>3, PermissionsFacts DEF TypeInv
    <3>2. Perm(put) /\ DOMAIN put = {jobs[s].user}
      <4>1. JobOK(jobs[s]) /\ jobs[s].kind = "decide" /\ Perm(p) /\ jobs[s].user \in DOMAIN p
        BY <2>1, <2>3, <3>1
      <4> QED BY <4>1, DecisionFacts, Zenon
    <3>3. jobs'[s] = [jobs[s] EXCEPT !.step = "put", !.todo = {put}]
      BY <2>3
    <3> HIDE DEF put
    <3>4. JobOK([jobs[s] EXCEPT !.step = "put", !.todo = {put}])
      BY <2>1, <2>3, <3>2, DecideReadFacts
    <3> QED BY <3>3, <3>4
  <2> QED BY <2>2, <2>3, ReadFacts
<1>2. JobsOK(jobs')
  BY <1>1, ReadFacts DEF TypeInv, JobsOK
<1> QED BY <1>2, ReadFacts DEF TypeInv, server, list, table

LEMMA ToggleEndsFacts ==
  ASSUME TypeInv, NEW s \in Slots, ToggleEnds(s)
  PROVE  /\ JobOK(jobs[s]) /\ jobs[s].kind = "toggle" /\ jobs[s].step = "go"
         /\ DetailsOK(details') /\ \A r \in Resources : Perm(form'[r])
         /\ \A q \in Resources : q # jobs[s].r => details'[q] = jobs[s].seen[q]
         /\ details'[jobs[s].r].permissions = jobs[s].got
         /\ behind' = IF jobs[s].alone THEN (behind \cup jobs[s].past) \ {jobs[s].r} ELSE Resources
         /\ DOMAIN jobs' = Slots /\ jobs'[s] = Idle /\ \A t \in Slots : t # s => jobs'[t] = jobs[t]
         /\ UNCHANGED <<shares, pending, listed, key, fetch, answered, skipped>>
<1> DEFINE new  == [jobs[s].seen EXCEPT ![jobs[s].r] =
                      [open |-> {jobs[s].field}, known |-> TRUE, permissions |-> jobs[s].got]]
<1>1. JobOK(jobs[s]) /\ jobs[s].step = "go" /\ DOMAIN jobs = Slots
  BY DEF ToggleEnds, TypeInv, JobsOK
<1>2. /\ jobs[s].kind = "toggle" /\ jobs[s].r \in Resources /\ jobs[s].field \in Fields
      /\ DetailsOK(jobs[s].seen) /\ Perm(jobs[s].got)
  BY <1>1 DEF JobOK, Writers
<1>3. \A b \in BOOLEAN : b =>
        /\ DetailOK([open |-> {jobs[s].field}, known |-> b, permissions |-> jobs[s].got])
        /\ [open |-> {jobs[s].field}, known |-> b, permissions |-> jobs[s].got].permissions = jobs[s].got
  BY <1>2 DEF DetailOK
<1>4. /\ DetailOK([open |-> {jobs[s].field}, known |-> TRUE, permissions |-> jobs[s].got])
      /\ [open |-> {jobs[s].field}, known |-> TRUE, permissions |-> jobs[s].got].permissions = jobs[s].got
  BY <1>3, Zenon
<1>5. /\ DetailsOK(new) /\ \A q \in Resources : q # jobs[s].r => new[q] = jobs[s].seen[q]
      /\ new[jobs[s].r].permissions = jobs[s].got
  BY <1>2, <1>4 DEF DetailsOK
<1>6. SetDetails(new)
  BY DEF ToggleEnds
<1> HIDE DEF new
<1>7. details' = new /\ \A r \in Resources : Perm(form'[r])
  BY <1>5, <1>6, SetDetailsFacts
<1> QED BY <1>1, <1>2, <1>5, <1>7 DEF ToggleEnds, server, list

LEMMA ToggleEndsTypes ==
  ASSUME TypeInv, NEW s \in Slots, ToggleEnds(s)
  PROVE  TypeInv'
<1>1. jobs[s].past \subseteq Resources
  BY ToggleEndsFacts DEF JobOK, Writers
<1>2. JobsOK(jobs')
  BY ToggleEndsFacts DEF TypeInv, JobsOK
<1> QED BY <1>1, <1>2, ToggleEndsFacts DEF TypeInv
\* Where a call leads, served or failed: one less to do, and the others overtaken.
Called(s, put) ==
  LET j == jobs[s]
      k == jobs'[s]
  IN /\ JobOK(j) /\ put \in j.todo /\ Perm(put) /\ j.kind # "toggle"
     /\ JobOK(k) /\ k.kind = j.kind /\ k.r = j.r /\ k.step = j.step /\ k.alone = j.alone
     /\ k.todo = j.todo \ {put}
     /\ j.kind = "decide" => k.user = j.user /\ k.was = j.was /\ k.approve = j.approve
     /\ JobsOK(jobs')
     /\ \A t \in Slots : t # s => jobs'[t] = IF jobs[t] # Idle THEN Calm(jobs[t]) ELSE jobs[t]

LEMMA CalledFacts ==
  ASSUME TypeInv, NEW s \in Slots, jobs[s] # Idle, NEW put \in jobs[s].todo,
         DOMAIN jobs' = Slots, \A t \in Slots : t # s => jobs'[t] = Disturb(s)[t],
         DOMAIN jobs'[s] = DOMAIN jobs[s],
         \A x \in DOMAIN jobs[s] : x \notin {"todo", "failed"} => jobs'[s][x] = jobs[s][x],
         jobs'[s].todo = jobs[s].todo \ {put}, jobs'[s].failed \in BOOLEAN
  PROVE  Called(s, put)
<1> DEFINE j == jobs[s]
           k == jobs'[s]
<1>1. JobOK(j)
  BY DEF TypeInv, JobsOK
<1>2. Perm(put) /\ j.kind # "toggle"
  BY <1>1 DEF JobOK, Writers
<1>3. /\ JobOK(k) /\ k.kind = j.kind /\ k.r = j.r /\ k.step = j.step /\ k.alone = j.alone
      /\ j.kind = "decide" => k.user = j.user /\ k.was = j.was /\ k.approve = j.approve
  <2> HIDE DEF j, k
  <2>1. /\ DOMAIN k = DOMAIN j /\ \A x \in DOMAIN j : x \notin {"todo", "failed"} => k[x] = j[x]
        /\ k.todo = j.todo \ {put} /\ k.failed \in BOOLEAN
    BY DEF j, k
  <2> QED BY <1>1, <2>1, TodoFacts
<1>4. \A t \in Slots : t # s => jobs'[t] = IF jobs[t] # Idle THEN Calm(jobs[t]) ELSE jobs[t]
  BY DisturbFacts DEF TypeInv
<1>5. JobsOK(jobs')
  BY <1>3, DisturbFacts DEF TypeInv, JobsOK
<1> QED BY <1>1, <1>2, <1>3, <1>4, <1>5 DEF Called

LEMMA PutFacts ==
  ASSUME TypeInv, NEW s \in Slots, NEW put, PutServed(s, put)
  PROVE  /\ Called(s, put) /\ jobs'[s].failed = jobs[s].failed
         /\ shares' = [shares EXCEPT ![jobs[s].r] =
              [u \in Users |-> IF u \in DOMAIN put THEN put[u] ELSE @[u]]]
         /\ pending' = [pending EXCEPT ![jobs[s].r] = @ \ DOMAIN put]
         /\ behind' = IF jobs[s].kind = "decide" \/ jobs[s].failed
                      THEN behind \cup {jobs[s].r} ELSE behind
         /\ UNCHANGED <<list, details, form>>
<1>1. jobs[s] # Idle /\ JobOK(jobs[s]) /\ put \in jobs[s].todo
  BY DEF PutServed, TypeInv, JobsOK
<1>2. DOMAIN Disturb(s) = Slots /\ Disturb(s)[s] = jobs[s]
  BY DisturbFacts DEF TypeInv, JobsOK
<1>3. jobs' = [Disturb(s) EXCEPT ![s].todo = @ \ {put}]
  BY DEF PutServed
<1>4. /\ DOMAIN jobs' = Slots /\ \A t \in Slots : t # s => jobs'[t] = Disturb(s)[t]
      /\ jobs'[s] = [jobs[s] EXCEPT !.todo = @ \ {put}]
  BY <1>2, <1>3
<1>5. /\ DOMAIN jobs'[s] = DOMAIN jobs[s]
      /\ \A x \in DOMAIN jobs[s] : x # "todo" => jobs'[s][x] = jobs[s][x]
      /\ jobs'[s].todo = jobs[s].todo \ {put}
  BY <1>1, <1>4 DEF JobOK
<1>6. jobs'[s].failed = jobs[s].failed /\ jobs[s].failed \in BOOLEAN
  BY <1>1, <1>5 DEF JobOK
<1>7. Called(s, put)
  BY <1>1, <1>4, <1>5, <1>6, CalledFacts
<1> QED BY <1>6, <1>7 DEF PutServed

LEMMA PutTypes ==
  ASSUME TypeInv, NEW s \in Slots, NEW put, PutServed(s, put)
  PROVE  TypeInv'
<1> DEFINE r == jobs[s].r
           new == [u \in Users |-> IF u \in DOMAIN put THEN put[u] ELSE shares[r][u]]
<1>1. /\ Called(s, put) /\ shares' = [shares EXCEPT ![r] = new]
      /\ pending' = [pending EXCEPT ![r] = pending[r] \ DOMAIN put]
      /\ behind' = behind \cup {r} \/ behind' = behind
      /\ UNCHANGED <<list, details, form>>
  BY PutFacts
<1>2. r \in Resources /\ Perm(put) /\ JobsOK(jobs')
  BY <1>1 DEF Called, JobOK
<1>3. shares' \in [Resources -> [Users -> SUBSET Scopes]] /\ pending' \in [Resources -> SUBSET Users]
  <2>1. new \in [Users -> SUBSET Scopes]
    BY <1>2 DEF Perm, TypeInv
  <2> HIDE DEF new, r
  <2>2. shares' \in [Resources -> [Users -> SUBSET Scopes]]
    BY <1>1, <1>2, <2>1 DEF TypeInv
  <2>3. pending' \in [Resources -> SUBSET Users]
    BY <1>1, <1>2 DEF TypeInv
  <2> QED BY <2>2, <2>3
<1> HIDE DEF new, r
<1>4. behind' \subseteq Resources /\ UNCHANGED <<listed, key, fetch, details, form>>
  BY <1>1, <1>2 DEF TypeInv, list
<1> QED BY <1>2, <1>3, <1>4 DEF TypeInv

LEMMA FailsFacts ==
  ASSUME TypeInv, NEW s \in Slots, CallFails(s)
  PROVE  /\ JobOK(jobs[s]) /\ UNCHANGED <<server, list, details, form>>
         /\ \/ /\ DOMAIN jobs' = Slots /\ jobs'[s] = Idle
               /\ \A t \in Slots : t # s => jobs'[t] = jobs[t]
               /\ jobs[s].step = "read" /\ behind' = behind
            \/ /\ \E put \in jobs[s].todo : Called(s, put)
               /\ jobs'[s].failed /\ behind' = behind \cup {jobs[s].r}
<1>1. JobOK(jobs[s]) /\ jobs[s] # Idle /\ DOMAIN jobs = Slots
  BY DEF CallFails, TypeInv, JobsOK
<1>2. CASE jobs[s].step = "read" /\ jobs' = [jobs EXCEPT ![s] = Idle] /\ UNCHANGED behind
  BY <1>1, <1>2 DEF CallFails
<1>3. ASSUME NEW put \in jobs[s].todo,
             jobs' = [Disturb(s) EXCEPT ![s].todo = @ \ {put}, ![s].failed = TRUE],
             behind' = behind \cup {jobs[s].r}
      PROVE  Called(s, put) /\ jobs'[s].failed
  <2>1. DOMAIN Disturb(s) = Slots /\ Disturb(s)[s] = jobs[s]
    BY DisturbFacts DEF TypeInv, JobsOK
  <2> DEFINE k == [jobs[s] EXCEPT !.todo = @ \ {put}]
  <2>2. /\ DOMAIN jobs' = Slots /\ \A t \in Slots : t # s => jobs'[t] = Disturb(s)[t]
        /\ jobs'[s] = [k EXCEPT !.failed = TRUE]
    BY <1>3, <2>1
  <2>3. /\ DOMAIN k = DOMAIN jobs[s] /\ \A x \in DOMAIN jobs[s] : x # "todo" => k[x] = jobs[s][x]
        /\ k.todo = jobs[s].todo \ {put}
    BY <1>1 DEF JobOK
  <2> HIDE DEF k
  <2>4. /\ DOMAIN jobs'[s] = DOMAIN jobs[s] /\ jobs'[s].failed = TRUE
        /\ \A x \in DOMAIN jobs[s] : x \notin {"todo", "failed"} => jobs'[s][x] = jobs[s][x]
        /\ jobs'[s].todo = jobs[s].todo \ {put}
    BY <1>1, <2>2, <2>3 DEF JobOK
  <2> QED BY <1>1, <2>2, <2>4, CalledFacts
<1> QED BY <1>1, <1>2, <1>3 DEF CallFails

LEMMA FailsTypes ==
  ASSUME TypeInv, NEW s \in Slots, CallFails(s)
  PROVE  TypeInv'
<1>1. jobs[s].r \in Resources
  BY FailsFacts DEF JobOK
<1>2. behind' \subseteq Resources
  BY <1>1, FailsFacts DEF TypeInv
<1>3. JobsOK(jobs')
  BY FailsFacts DEF TypeInv, JobsOK, Called
<1> QED BY <1>2, <1>3, FailsFacts DEF TypeInv, server, list

\* Where a handler leads that has no call left.
LEMMA EndsFacts ==
  ASSUME TypeInv, NEW s \in Slots, JobEnds(s)
  PROVE  /\ JobOK(jobs[s]) /\ jobs[s].step = "put" /\ jobs[s].todo = {}
         /\ JobsOK(jobs') /\ jobs'[s] = Idle
         /\ \A t \in Slots : t # s => jobs'[t] = IF jobs[t] # Idle THEN Calm(jobs[t]) ELSE jobs[t]
         /\ UNCHANGED server
         /\ \/ jobs[s].failed /\ UNCHANGED <<table, list>>
            \/ /\ ~jobs[s].failed /\ jobs[s].kind = "decide" /\ Refresh(jobs[s].key)
               /\ answered' = answered \cup
                    ({<<jobs[s].r, jobs[s].user>>} \ {<<jobs[s].r, u>> : u \in pending[jobs[s].r]})
               /\ UNCHANGED table
            \/ /\ ~jobs[s].failed /\ jobs[s].kind # "decide" /\ Reset /\ UNCHANGED list
<1>1. /\ JobOK(jobs[s]) /\ DOMAIN Disturb(s) = Slots /\ JobsOK(Disturb(s))
      /\ \A t \in Slots : t # s => Disturb(s)[t] = IF jobs[t] # Idle THEN Calm(jobs[t]) ELSE jobs[t]
  BY DisturbFacts DEF JobEnds, TypeInv, JobsOK
<1>2. jobs' = [Disturb(s) EXCEPT ![s] = Idle]
  BY DEF JobEnds
<1>3. /\ JobsOK(jobs') /\ jobs'[s] = Idle
      /\ \A t \in Slots : t # s => jobs'[t] = IF jobs[t] # Idle THEN Calm(jobs[t]) ELSE jobs[t]
  BY <1>1, <1>2 DEF JobsOK
<1> QED BY <1>1, <1>3 DEF JobEnds

LEMMA EndsTypes ==
  ASSUME TypeInv, NEW s \in Slots, JobEnds(s)
  PROVE  TypeInv'
<1>1. CASE UNCHANGED <<table, list>>
  BY <1>1, EndsFacts DEF TypeInv, server, table, list
<1>2. CASE jobs[s].kind = "decide" /\ Refresh(jobs[s].key) /\ UNCHANGED table
  <2>1. jobs[s].key \in Nat
    BY <1>2, EndsFacts DEF JobOK, Writers
  <2>2. /\ key' \in Nat /\ listed' = listed
        /\ \/ fetch' = fetch
           \/ fetch' = Asked
    BY <1>2, <2>1 DEF Refresh, Restart
  <2>3. /\ fetch' = [asked |-> fetch'.asked, got |-> fetch'.got] /\ fetch'.asked \in BOOLEAN
        /\ DOMAIN fetch'.got \subseteq Resources
        /\ \A r \in DOMAIN fetch'.got : fetch'.got[r] \subseteq Users
    <3>1. CASE fetch' = fetch
      BY <3>1 DEF TypeInv
    <3>2. CASE fetch' = Asked
      BY <3>2 DEF Asked
    <3> QED BY <2>2, <3>1, <3>2
  <2> QED BY <1>2, <2>2, <2>3, EndsFacts DEF TypeInv, server, table
<1>3. CASE Reset /\ UNCHANGED list
  BY <1>3, EndsFacts, ResetFacts DEF TypeInv, server, list
<1> QED BY <1>1, <1>2, <1>3, EndsFacts

LEMMA NextTypes == TypeInv /\ [Next]_vars => TypeInv'
<1> SUFFICES ASSUME TypeInv, [Next]_vars PROVE TypeInv'
  OBVIOUS
<1>1. ASSUME NEW s \in Slots, Goes(s) PROVE TypeInv'
  BY <1>1, ReadTypes, ToggleEndsTypes, PutTypes, FailsTypes, EndsTypes DEF Goes
<1>2. CASE UNCHANGED vars
  BY <1>2 DEF vars, TypeInv
<1> QED BY <1>1, <1>2, ListTypes, ClickTypes, ToggleKnownTypes, CloseTypes DEF Next

\* Whatever the order of clicks and answers, every variable stays in its range, and a
\* row is open only with its permissions there.
THEOREM TypeCorrect == Spec => []TypeOK
<1>1. TypeInv => TypeOK
  BY DEF TypeInv, TypeOK, DetailsOK, DetailOK, Perm
<1> QED BY <1>1, InitTypes, NextTypes, PTL DEF Spec
-----------------------------------------------------------------------------
(* The answers and the list of requests.                                    *)

Gone    == \A a \in answered : a[1] \in Resources /\ a[2] \notin pending[a[1]]
Fetched == (fetch.asked /\ ~skipped) =>
             \A a \in answered : a[1] \in DOMAIN fetch.got => a[2] \notin fetch.got[a[1]]

Pairs   == \A a \in answered : a = <<a[1], a[2]>>

AnsweredInv == Gone /\ Pairs /\ Fetched /\ AnsweredGone

\* A step that leaves the list alone, and asks nobody again.
LEMMA KeptAnswers ==
  ASSUME AnsweredInv, UNCHANGED list, \A r \in Resources : pending'[r] \subseteq pending[r]
  PROVE  AnsweredInv'
  BY DEF AnsweredInv, Gone, Pairs, Fetched, AnsweredGone, list

LEMMA InitAnswered == Init => AnsweredInv
  BY DEF Init, AnsweredInv, Gone, Pairs, Fetched, AnsweredGone

LEMMA ListAnswered ==
  ASSUME TypeInv, AnsweredInv,
         SetParams \/ (\E r \in Resources : RequestsServed(r)) \/ FetchArrives \/ FetchFails
  PROVE  AnsweredInv'
<1>1. UNCHANGED <<pending, answered>>
  BY DEF SetParams, RequestsServed, FetchArrives, FetchFails, server
<1>2. Gone' /\ Pairs'
  BY <1>1 DEF AnsweredInv, Gone, Pairs
<1>3. CASE SetParams
  <2>1. fetch' = Asked
    BY <1>3 DEF SetParams, Restart
  <2>2. fetch'.asked /\ fetch'.got = <<>>
    BY <2>1 DEF Asked
  <2> QED BY <1>2, <2>2 DEF AnsweredInv, Fetched, AnsweredGone
<1>4. ASSUME NEW r \in Resources, RequestsServed(r) PROVE AnsweredInv'
  <2> DEFINE got == [q \in DOMAIN fetch.got \cup {r} |-> IF q = r THEN pending[r] ELSE fetch.got[q]]
  <2>1. /\ fetch' = [fetch EXCEPT !.got = got] /\ UNCHANGED skipped /\ fetch.asked
    BY <1>4 DEF RequestsServed
  <2>2. fetch'.asked /\ fetch'.got = got
    BY <2>1 DEF TypeInv
  <2>3. Fetched'
    BY <1>1, <2>1, <2>2 DEF AnsweredInv, Gone, Fetched
  <2> QED BY <1>2, <2>2, <2>3 DEF AnsweredInv, AnsweredGone
<1>5. CASE FetchArrives
  <2>1. /\ DOMAIN fetch.got = Resources /\ listed' = fetch.got /\ fetch.asked /\ UNCHANGED skipped
        /\ fetch' = NoFetch
    BY <1>5 DEF FetchArrives
  <2>2. ~fetch'.asked
    BY <2>1 DEF NoFetch
  <2> QED BY <1>1, <1>2, <2>1, <2>2 DEF AnsweredInv, Gone, Fetched, AnsweredGone
<1>6. CASE FetchFails
  <2>1. skipped'
    BY <1>6, Zenon DEF FetchFails
  <2> QED BY <1>2, <2>1 DEF AnsweredInv, Fetched, AnsweredGone
<1> QED BY <1>3, <1>4, <1>5, <1>6

\* A request that is made anew is no longer an answered one.
LEMMA AskedAnswered ==
  ASSUME TypeInv, AnsweredInv, NEW r \in Resources, NEW u \in Users, RequestMade(r, u)
  PROVE  AnsweredInv'
<1>1. /\ pending' = [pending EXCEPT ![r] = pending[r] \cup {u}]
      /\ answered' = answered \ {<<r, u>>}
      /\ UNCHANGED <<listed, fetch, skipped>>
  BY DEF RequestMade
<1>2. ASSUME NEW a \in answered' PROVE a[1] \in Resources /\ a[2] \notin pending'[a[1]]
  <2>1. a \in answered /\ a[1] \in Resources /\ a[2] \notin pending[a[1]] /\ a # <<r, u>>
    BY <1>1, <1>2 DEF AnsweredInv, Gone
  <2>2. CASE a[1] = r /\ a[2] = u
    <3>1. a = <<a[1], a[2]>>
      BY <2>1 DEF AnsweredInv, Pairs
    <3> QED BY <2>1, <2>2, <3>1
  <2>3. CASE a[1] # r
    BY <1>1, <2>1, <2>3 DEF TypeInv
  <2>4. CASE a[2] # u
    BY <1>1, <2>1, <2>4 DEF TypeInv
  <2> QED BY <2>1, <2>2, <2>3, <2>4
<1> QED BY <1>1, <1>2 DEF AnsweredInv, Gone, Fetched, AnsweredGone, Pairs

\* What a click starts has no call behind it.
LEMMA ClickStarts ==
  ASSUME TypeInv, NEW s \in Slots, Clicked(s)
  PROVE  /\ UNCHANGED <<shares, pending, details, behind, listed, key, fetch, answered, skipped>>
         /\ jobs[s] = Idle /\ \A t \in Slots : t # s => jobs'[t] = jobs[t]
         /\ jobs'[s].kind = "toggle" =>
              jobs'[s].step = "read" /\ jobs'[s].seen = details /\ jobs'[s].past = behind
         /\ jobs'[s].kind = "decide" =>
              /\ jobs'[s].step = "read" /\ jobs'[s].todo = {} /\ jobs'[s].r \in Resources
              /\ jobs'[s].was = shares[jobs'[s].r]
<1> DEFINE Starts(job) ==
             /\ job.kind = "toggle" => job.step = "read" /\ job.seen = details /\ job.past = behind
             /\ job.kind = "decide" =>
                  job.step = "read" /\ job.todo = {} /\ job.r \in Resources /\ job.was = shares[job.r]
<1>1. ASSUME NEW job, Click(s, job), UNCHANGED <<list, table>>, Starts(job)
      PROVE  /\ UNCHANGED <<shares, pending, details, behind, listed, key, fetch, answered, skipped>>
             /\ jobs[s] = Idle /\ (\A t \in Slots : t # s => jobs'[t] = jobs[t])
             /\ Starts(jobs'[s])
  <2>1. /\ UNCHANGED <<shares, pending, details, behind, listed, key, fetch, answered, skipped>>
        /\ jobs[s] = Idle /\ jobs'[s] = job /\ \A t \in Slots : t # s => jobs'[t] = jobs[t]
    BY <1>1 DEF Click, server, list, table, TypeInv, JobsOK
  <2> QED BY <1>1, <2>1
<1>2. ASSUME NEW r \in Resources, NEW field \in Fields PROVE Starts(ToggleJob(r, field))
  BY DEF ToggleJob
<1>3. ASSUME NEW r, NEW todo, NEW kind \in Writers PROVE Starts(WriteJob(kind, r, todo))
  BY DEF WriteJob, Writers
<1>4. ASSUME NEW r \in Resources, NEW u, NEW approve PROVE Starts(DecideJob(r, u, approve))
  BY DEF DecideJob
<1> HIDE DEF Starts
<1>5. \E job : Click(s, job) /\ UNCHANGED <<list, table>> /\ Starts(job)
  <2>1. ASSUME NEW r \in Resources, NEW field \in Fields, ToggleUnknown(s, r, field)
        PROVE  \E job : Click(s, job) /\ UNCHANGED <<list, table>> /\ Starts(job)
    BY <1>2, <2>1 DEF ToggleUnknown
  <2>2. ASSUME NEW r \in Resources, NEW kind \in Writers, NEW todo,
               Click(s, WriteJob(kind, r, todo)), UNCHANGED <<list, table>>
        PROVE  \E job : Click(s, job) /\ UNCHANGED <<list, table>> /\ Starts(job)
    BY <1>3, <2>2
  <2>3. ASSUME NEW r \in Resources, RemoveShare(s, r)
        PROVE  \E job : Click(s, job) /\ UNCHANGED <<list, table>> /\ Starts(job)
    BY <2>2, <2>3 DEF RemoveShare, Writers
  <2>4. ASSUME NEW r \in Resources, NEW users, NEW scopes, AddShare(s, r, users, scopes)
        PROVE  \E job : Click(s, job) /\ UNCHANGED <<list, table>> /\ Starts(job)
    BY <2>2, <2>4 DEF AddShare, Writers
  <2>5. ASSUME NEW r \in Resources, NEW u, NEW scopes, EditShares(s, r, u, scopes)
        PROVE  \E job : Click(s, job) /\ UNCHANGED <<list, table>> /\ Starts(job)
    BY <2>2, <2>5 DEF EditShares, Writers
  <2>6. ASSUME NEW r \in Resources, NEW u, NEW approve, ApproveDeny(s, r, u, approve)
        PROVE  \E job : Click(s, job) /\ UNCHANGED <<list, table>> /\ Starts(job)
    BY <1>4, <2>6 DEF ApproveDeny
  <2> QED BY <2>1, <2>3, <2>4, <2>5, <2>6 DEF Clicked
<1> QED BY <1>1, <1>5 DEF Starts

LEMMA GoesAnswered ==
  ASSUME TypeInv, AnsweredInv, NEW s \in Slots, Goes(s)
  PROVE  AnsweredInv'
<1>1. CASE ReadServed(s) \/ ToggleEnds(s) \/ CallFails(s)
  <2>1. UNCHANGED <<list, pending>>
    BY <1>1 DEF ReadServed, ToggleEnds, CallFails, server
  <2> QED BY <2>1, KeptAnswers
<1>2. ASSUME NEW put, PutServed(s, put) PROVE AnsweredInv'
  <2>1. /\ UNCHANGED list /\ pending' = [pending EXCEPT ![jobs[s].r] = @ \ DOMAIN put]
    BY <1>2 DEF PutServed
  <2>2. \A q \in Resources : pending'[q] \subseteq pending[q]
    BY <2>1 DEF TypeInv
  <2> QED BY <2>1, <2>2, KeptAnswers
<1>3. CASE JobEnds(s)
  <2>1. UNCHANGED pending
    BY <1>3, EndsFacts DEF server
  <2>2. CASE UNCHANGED list
    BY <2>1, <2>2, KeptAnswers
  <2>3. CASE /\ ~jobs[s].failed /\ jobs[s].kind = "decide" /\ Refresh(jobs[s].key)
             /\ answered' = answered \cup
                  ({<<jobs[s].r, jobs[s].user>>} \ {<<jobs[s].r, u>> : u \in pending[jobs[s].r]})
    <3>1. jobs[s].r \in Resources
      BY <1>3, EndsFacts DEF JobOK
    <3>2. Gone' /\ Pairs'
      BY <2>1, <2>3, <3>1 DEF AnsweredInv, Gone, Pairs
    <3>3. skipped' \/ (fetch'.asked /\ fetch'.got = <<>>)
      <4>1. skipped' = TRUE \/ fetch' = Asked
        BY <2>3 DEF Refresh, Restart
      <4>2. CASE skipped' = TRUE
        BY <4>2, Zenon
      <4>3. CASE fetch' = Asked
        BY <4>3 DEF Asked
      <4> QED BY <4>1, <4>2, <4>3
    <3> QED BY <3>2, <3>3 DEF AnsweredInv, Fetched, AnsweredGone
  <2> QED BY <1>3, <2>2, <2>3, EndsFacts
<1> QED BY <1>1, <1>2, <1>3 DEF Goes

LEMMA NextAnswered == TypeInv /\ AnsweredInv /\ [Next]_vars => AnsweredInv'
<1> SUFFICES ASSUME TypeInv, AnsweredInv, [Next]_vars PROVE AnsweredInv'
  OBVIOUS
<1>1. ASSUME NEW s \in Slots, Clicked(s) PROVE AnsweredInv'
  <2>1. UNCHANGED <<list, pending>>
    BY <1>1, ClickStarts DEF list
  <2> QED BY <2>1, KeptAnswers
<1>2. ASSUME NEW r \in Resources, NEW field \in Fields, ToggleKnown(r, field) PROVE AnsweredInv'
  <2>1. UNCHANGED <<list, pending>>
    BY <1>2 DEF ToggleKnown, server
  <2> QED BY <2>1, KeptAnswers
<1>3. CASE CloseDialog
  <2>1. UNCHANGED <<list, pending>>
    BY <1>3 DEF CloseDialog, server
  <2> QED BY <2>1, KeptAnswers
<1>4. CASE UNCHANGED vars
  <2>1. UNCHANGED <<list, pending>>
    BY <1>4 DEF vars, list
  <2> QED BY <2>1, KeptAnswers
<1> QED BY <1>1, <1>2, <1>3, <1>4, ListAnswered, AskedAnswered, GoesAnswered DEF Next

\* A request that was answered with success is not offered again once the list is
\* there, unless the refresh was lost.
THEOREM AnsweredGoneHolds == Spec => []AnsweredGone
<1>1. AnsweredInv => AnsweredGone
  BY DEF AnsweredInv
<1> QED BY <1>1, InitTypes, NextTypes, InitAnswered, NextAnswered, PTL DEF Spec
-----------------------------------------------------------------------------
(* What an answered request gives.                                          *)

\* A decision that nothing has overtaken, with no failed call.
Decides(j) == j # Idle /\ j.kind = "decide" /\ j.alone /\ ~j.failed

\* The shares of its resource after it.
Due(j) == [j.was EXCEPT ![j.user] = IF j.approve THEN @ \cup Wanted ELSE @]

\* `given' are the shares of the moment.
OnCourse(j, given) ==
  /\ (j.step = "read" \/ j.todo # {}) => given[j.r] = j.was
  /\ \A put \in j.todo : put[j.user] = Due(j)[j.user]
  /\ (j.step = "put" /\ j.todo = {}) => given[j.r] = Due(j)

DecideInv == \A s \in Slots : Decides(jobs[s]) => OnCourse(jobs[s], shares)

\* The decisions that a step leaves alone, and those it overtakes.
LEMMA OthersOnCourse ==
  ASSUME TypeInv, DecideInv, NEW t \in Slots,
         \/ jobs'[t] = jobs[t] /\ UNCHANGED shares
         \/ jobs[t] # Idle /\ jobs'[t] = Calm(jobs[t])
         \/ jobs'[t] = Idle,
         Decides(jobs'[t])
  PROVE  OnCourse(jobs'[t], shares')
<1>1. jobs'[t] = jobs[t] /\ UNCHANGED shares
  BY CalmFacts DEF Decides, TypeInv, JobsOK
<1> QED BY <1>1 DEF DecideInv, OnCourse, Due

LEMMA GoesOnCourse ==
  ASSUME TypeInv, DecideInv, NEW s \in Slots, Goes(s)
  PROVE  DecideInv'
<1>1. CASE ReadServed(s)
  <2> DEFINE j == jobs[s]
             k == jobs'[s]
  <2>1. /\ UNCHANGED shares /\ JobOK(j) /\ j.step = "read"
        /\ \A t \in Slots : t # s => jobs'[t] = jobs[t]
    BY <1>1, ReadFacts DEF server
  <2>2. ASSUME Decides(k) PROVE OnCourse(k, shares')
    <3>1. j.kind = "decide"
      <4>1. CASE j.kind = "toggle"
        <5>1. j.kind # "decide" /\ {"kind", "step", "got"} \subseteq DOMAIN j
          BY <2>1, <4>1 DEF JobOK, Writers
        <5>2. PICK p : p = Permissions(j.r) /\ k = [j EXCEPT !.step = "go", !.got = p]
          BY <1>1, <2>2, <5>1, ReadFacts DEF Decides
        <5> HIDE DEF j, k
        <5>3. k.kind = j.kind
          BY <5>1, <5>2
        <5> QED BY <2>2, <4>1, <5>3 DEF Decides
      <4> QED BY <1>1, <2>2, <4>1, ReadFacts DEF Decides
    <3>2. PICK p : /\ p = Permissions(j.r) /\ j.user \in DOMAIN p
                   /\ k = [j EXCEPT !.step = "put", !.todo = {[v \in {j.user} |-> Decision(j, p)]}]
      <4>1. jobs'[s] # Idle /\ jobs[s].kind # "toggle"
        BY <2>2, <3>1 DEF Decides
      <4>2. \E p : /\ p = Permissions(jobs[s].r) /\ jobs[s].user \in DOMAIN p
                   /\ jobs'[s] = [jobs[s] EXCEPT !.step = "put",
                                    !.todo = {[v \in {jobs[s].user} |-> Decision(jobs[s], p)]}]
        <5>1. DOMAIN jobs = Slots
          BY DEF TypeInv, JobsOK
        <5> QED BY <1>1, <4>1, <5>1 DEF ReadServed
      <4> QED BY <4>2, Zenon
    <3>3. j.r \in Resources /\ j.user \in Users /\ j.was \in [Users -> SUBSET Scopes]
      BY <2>1, <3>1 DEF JobOK, Writers
    <3>4. Perm(p) /\ p[j.user] = shares[j.r][j.user]
      BY <3>2, <3>3, PermissionsFacts DEF TypeInv
    <3> HIDE DEF j, k
    <3> DEFINE put == [v \in {j.user} |-> Decision(j, p)]
    <3>5. /\ Perm(put) /\ DOMAIN put = {j.user}
          /\ put[j.user] = IF j.approve THEN p[j.user] \cup Wanted ELSE p[j.user]
      <4>1. JobOK(j) /\ j.kind = "decide" /\ Perm(p) /\ j.user \in DOMAIN p
        BY <2>1, <3>1, <3>2, <3>4
      <4> QED BY <4>1, DecisionFacts, Zenon
    <3>6. k = [j EXCEPT !.step = "put", !.todo = {put}]
      BY <3>2
    <3> HIDE DEF put
    <3>7. /\ k.step = "put" /\ k.todo = {put} /\ k.r = j.r /\ k.user = j.user /\ k.was = j.was
          /\ k.approve = j.approve /\ k.alone = j.alone /\ k.failed = j.failed
      <4>1. JobOK(j) /\ j.kind = "decide"
        BY <2>1, <3>1
      <4>2. {"kind", "r", "step", "todo", "failed", "alone", "user", "approve", "was"} \subseteq DOMAIN j
        BY <4>1 DEF JobOK, Writers
      <4> QED BY <3>6, <4>2
    <3>8. shares[j.r] = j.was
      <4>1. Decides(j)
        BY <2>1, <2>2, <3>1, <3>7, BusyFacts DEF Decides
      <4> QED BY <2>1, <4>1 DEF DecideInv, OnCourse, j
    <3>9. put[j.user] = Due(k)[j.user]
      BY <3>3, <3>4, <3>5, <3>7, <3>8 DEF Due
    <3>10. /\ shares'[k.r] = k.was /\ k.step = "put" /\ k.todo # {}
           /\ \A q \in k.todo : q[k.user] = Due(k)[k.user]
      BY <2>1, <3>7, <3>8, <3>9
    <3> QED BY <3>10 DEF OnCourse
  <2> QED BY <2>1, <2>2, OthersOnCourse DEF DecideInv
<1>2. CASE ToggleEnds(s)
  <2>1. UNCHANGED shares /\ jobs'[s] = Idle /\ \A t \in Slots : t # s => jobs'[t] = jobs[t]
    BY <1>2, ToggleEndsFacts
  <2> QED BY <2>1, OthersOnCourse DEF DecideInv, Decides
<1>3. ASSUME NEW put, PutServed(s, put) PROVE DecideInv'
  <2> DEFINE j == jobs[s]
             k == jobs'[s]
             r == jobs[s].r
             new == [u \in Users |-> IF u \in DOMAIN put THEN put[u] ELSE shares[r][u]]
  <2>1. Called(s, put) /\ shares' = [shares EXCEPT ![r] = new] /\ k.failed = j.failed
    BY <1>3, PutFacts
  <2>2. /\ JobOK(j) /\ r \in Resources /\ put \in j.todo /\ k.kind = j.kind /\ k.r = r
        /\ k.step = j.step /\ k.alone = j.alone /\ k.todo = j.todo \ {put}
        /\ j.kind = "decide" => k.user = j.user /\ k.was = j.was /\ k.approve = j.approve
        /\ \A t \in Slots : t # s => jobs'[t] = IF jobs[t] # Idle THEN Calm(jobs[t]) ELSE jobs[t]
    BY <2>1 DEF Called, JobOK
  <2>3. ASSUME Decides(k) PROVE OnCourse(k, shares')
    <3>1. j.kind = "decide" /\ Decides(j)
      BY <2>1, <2>2, <2>3, BusyFacts DEF Decides
    <3>2. /\ DOMAIN put = {j.user} /\ j.user \in Users /\ j.was \in [Users -> SUBSET Scopes]
          /\ k.todo = {} /\ j.step = "put"
      BY <2>2, <3>1 DEF JobOK, Writers
    <3>3. shares[r] = j.was /\ put[j.user] = Due(j)[j.user]
      BY <2>2, <3>1 DEF DecideInv, OnCourse
    <3>4. shares'[r] = new
      BY <2>1, <2>2 DEF TypeInv
    <3>5. new = Due(j)
      BY <3>2, <3>3 DEF Due
    <3>6. Due(k) = Due(j)
      BY <2>2, <3>1 DEF Due
    <3>7. k.todo = {} /\ k.step = "put" /\ shares'[k.r] = Due(k)
      BY <2>2, <3>2, <3>4, <3>5, <3>6
    <3> QED BY <3>7 DEF OnCourse
  <2> QED BY <2>2, <2>3, OthersOnCourse DEF DecideInv, Decides
<1>4. CASE CallFails(s)
  <2>1. UNCHANGED shares
    BY <1>4, FailsFacts DEF server
  <2>2. ~Decides(jobs'[s])
    BY <1>4, FailsFacts DEF Decides
  <2>3. \A t \in Slots : t # s =>
          jobs'[t] = jobs[t] \/ (jobs[t] # Idle /\ jobs'[t] = Calm(jobs[t]))
    BY <1>4, FailsFacts DEF Called
  <2> QED BY <2>1, <2>2, <2>3, OthersOnCourse DEF DecideInv
<1>5. CASE JobEnds(s)
  <2>1. /\ UNCHANGED shares /\ jobs'[s] = Idle
        /\ \A t \in Slots : t # s =>
             jobs'[t] = jobs[t] \/ (jobs[t] # Idle /\ jobs'[t] = Calm(jobs[t]))
    BY <1>5, EndsFacts DEF server
  <2> QED BY <2>1, OthersOnCourse DEF DecideInv, Decides
<1> QED BY <1>1, <1>2, <1>3, <1>4, <1>5 DEF Goes

LEMMA NextOnCourse == TypeInv /\ DecideInv /\ [Next]_vars => DecideInv'
<1> SUFFICES ASSUME TypeInv, DecideInv, [Next]_vars PROVE DecideInv'
  OBVIOUS
<1>1. ASSUME NEW s \in Slots, Clicked(s) PROVE DecideInv'
  <2>1. ASSUME Decides(jobs'[s]) PROVE OnCourse(jobs'[s], shares')
    <3>1. /\ jobs'[s].step = "read" /\ jobs'[s].todo = {} /\ jobs'[s].r \in Resources
          /\ jobs'[s].was = shares[jobs'[s].r] /\ UNCHANGED shares
      BY <1>1, <2>1, ClickStarts DEF Decides
    <3> QED BY <3>1 DEF OnCourse
  <2>2. UNCHANGED shares /\ \A t \in Slots : t # s => jobs'[t] = jobs[t]
    BY <1>1, ClickStarts
  <2> QED BY <2>1, <2>2, OthersOnCourse DEF DecideInv
<1>2. CASE CloseDialog
  <2>1. UNCHANGED shares /\ jobs' = Disturb(0)
    BY <1>2 DEF CloseDialog, server
  <2>2. \A t \in Slots : jobs'[t] = jobs[t] \/ (jobs[t] # Idle /\ jobs'[t] = Calm(jobs[t]))
    BY <2>1, DisturbFacts DEF TypeInv
  <2> QED BY <2>1, <2>2, OthersOnCourse DEF DecideInv
<1>3. CASE UNCHANGED <<shares, jobs>>
  BY <1>3, OthersOnCourse DEF DecideInv
<1>4. (\E r \in Resources, field \in Fields : ToggleKnown(r, field)) => UNCHANGED <<shares, jobs>>
  BY DEF ToggleKnown, server
<1>5. (\/ SetParams \/ (\E r \in Resources : RequestsServed(r)) \/ FetchArrives \/ FetchFails
       \/ (\E r \in Resources, u \in Users : RequestMade(r, u)))
        => UNCHANGED <<shares, jobs>>
  BY DEF SetParams, RequestsServed, FetchArrives, FetchFails, RequestMade, server
<1>6. UNCHANGED vars => UNCHANGED <<shares, jobs>>
  BY DEF vars
<1> QED BY <1>1, <1>2, <1>3, <1>4, <1>5, <1>6, GoesOnCourse DEF Next

\* A handler that a step overtakes is still under way.
LEMMA StillBusy ==
  ASSUME TypeInv, NEW s \in Slots, jobs[s] # Idle
  PROVE  Calm(jobs[s]) # Idle
  BY CalmFacts, BusyFacts DEF TypeInv, JobsOK

\* Where a decision ends with its calls gone well: in the last step of its handler.
LEMMA AnswerStep ==
  ASSUME TypeInv, DecideInv, [Next]_vars, NEW s \in Slots, jobs[s] # Idle, jobs'[s] = Idle,
         jobs[s].kind = "decide", jobs[s].step = "put", jobs[s].alone, ~jobs[s].failed
  PROVE  shares[jobs[s].r] = Due(jobs[s])
<1>1. CASE JobEnds(s)
  <2>1. jobs[s].todo = {}
    BY <1>1, EndsFacts
  <2> QED BY <2>1 DEF DecideInv, Decides, OnCourse
<1>2. ASSUME NEW t \in Slots, Clicked(t) PROVE FALSE
  BY <1>2, ClickStarts
<1>3. ASSUME NEW t \in Slots, Goes(t), t # s PROVE FALSE
  <2>1. jobs'[s] = jobs[s] \/ jobs'[s] = Calm(jobs[s])
    BY <1>3, ReadFacts, ToggleEndsFacts, PutFacts, FailsFacts, EndsFacts DEF Goes, Called
  <2> QED BY <2>1, StillBusy
<1>4. CASE Goes(s)
  <2>1. ~ReadServed(s) /\ ~ToggleEnds(s)
    BY DEF ReadServed, ToggleEnds
  <2>2. ASSUME NEW put, PutServed(s, put) PROVE FALSE
    BY <2>2, PutFacts, BusyFacts DEF Called
  <2>3. ~CallFails(s)
    BY FailsFacts, BusyFacts DEF Called
  <2> QED BY <1>1, <1>4, <2>1, <2>2, <2>3 DEF Goes
<1>5. CASE CloseDialog
  <2>1. jobs' = Disturb(0)
    BY <1>5 DEF CloseDialog
  <2>2. jobs'[s] = jobs[s] \/ jobs'[s] = Calm(jobs[s])
    BY <2>1, DisturbFacts DEF TypeInv
  <2> QED BY <2>2, StillBusy
<1>6. \/ \E r \in Resources, field \in Fields : ToggleKnown(r, field)
      \/ SetParams \/ (\E r \in Resources : RequestsServed(r)) \/ FetchArrives \/ FetchFails
      \/ \E r \in Resources, u \in Users : RequestMade(r, u)
      \/ UNCHANGED vars
      => UNCHANGED jobs
  BY DEF ToggleKnown, SetParams, RequestsServed, FetchArrives, FetchFails, RequestMade, vars
<1> QED BY <1>2, <1>3, <1>4, <1>5, <1>6 DEF Next

\* An answer that nothing has overtaken gives the user what he asked for, or nothing,
\* and takes no scope from him or from anybody else, whatever the page has cached.
THEOREM AcceptAddsHolds == Spec => AcceptAdds
<1>1. Init => DecideInv
  BY DEF Init, DecideInv, Decides
<1>2. TypeInv /\ DecideInv /\ [Next]_vars =>
        [\A s \in Slots :
           LET job == jobs[s]
           IN (job # Idle /\ jobs'[s] = Idle /\ job.kind = "decide" /\ job.step = "put"
                 /\ job.alone /\ ~job.failed)
                => shares[job.r] = [job.was EXCEPT ![job.user] =
                                      IF job.approve THEN @ \cup Wanted ELSE @]]_vars
  BY AnswerStep DEF Due
<1> QED BY <1>1, <1>2, InitTypes, NextTypes, NextOnCourse, PTL DEF Spec, AcceptAdds
-----------------------------------------------------------------------------
(* What the page shows of the shares.                                       *)

\* A handler that writes the shares of a resource, with no failed call, and that will
\* make every row ask again when it ends.
Writes(j, r) == j # Idle /\ j.kind \in Writers /\ j.r = r /\ ~j.failed
Writer(r) == \E s \in Slots : Writes(jobs[s], r)

\* `d' is what the page knows of the resource.
Fresh(d, r) == d.known => (Given(d.permissions) = Given(shares[r]) \/ Writer(r))

\* What a toggle that nothing has overtaken will set.
SeenFresh(j) ==
  (j # Idle /\ j.kind = "toggle" /\ j.alone) =>
    /\ \A r \in Resources \ j.past : r # j.r => Fresh(j.seen[r], r)
    /\ j.step = "go" => Given(j.got) = Given(shares[j.r])

SharesInv ==
  /\ \A r \in Resources \ behind : Fresh(details[r], r)
  /\ \A s \in Slots : SeenFresh(jobs[s])

\* The server's answer names what is given, whether or not it lists the requestors.
LEMMA GivenFacts ==
  ASSUME TypeInv, NEW r \in Resources, NEW p, p = Permissions(r)
  PROVE  Given(p) = Given(shares[r])
<1>1. /\ Perm(p) /\ Holders(r) \subseteq DOMAIN p
      /\ \A u \in DOMAIN p : p[u] = shares[r][u]
  BY PermissionsFacts DEF TypeInv
<1>2. DOMAIN shares[r] = Users
  BY DEF TypeInv
<1>3. {v \in DOMAIN p : p[v] # {}} = {v \in DOMAIN shares[r] : shares[r][v] # {}}
  BY <1>1, <1>2 DEF Perm, Holders
<1> DEFINE held == {v \in DOMAIN shares[r] : shares[r][v] # {}}
<1>4. \A u \in held : p[u] = shares[r][u]
  BY <1>1, <1>3
<1> HIDE DEF held
<1>5. {<<u, p[u]>> : u \in held} = {<<u, shares[r][u]>> : u \in held}
  BY <1>4
<1> QED BY <1>3, <1>5 DEF Given, held

\* A writer is still there after a step of a handler that is none, or stays one.
LEMMA WriterKept ==
  ASSUME TypeInv, NEW s, NEW r,
         \A t \in Slots : t # s => \/ jobs'[t] = jobs[t]
                                   \/ jobs[t] # Idle /\ jobs'[t] = Calm(jobs[t]),
         s \in Slots => (~Writes(jobs[s], r) \/ Writes(jobs'[s], r))
  PROVE  Writer(r) => Writer(r)'
<1> SUFFICES ASSUME Writer(r) PROVE Writer(r)'
  OBVIOUS
<1>1. PICK t \in Slots : Writes(jobs[t], r)
  BY DEF Writer
<1>2. CASE t = s
  BY <1>1, <1>2 DEF Writer
<1>3. CASE t # s
  <2>1. Writes(jobs'[t], r)
    <3>1. CASE jobs'[t] = Calm(jobs[t])
      BY <1>1, <3>1, CalmFacts, BusyFacts DEF Writes, TypeInv, JobsOK
    <3> QED BY <1>1, <1>3, <3>1
  <2> QED BY <2>1 DEF Writer
<1> QED BY <1>2, <1>3

\* A step that leaves the shares alone, takes no writer away and sets no details.
LEMMA ShownKept ==
  ASSUME SharesInv, UNCHANGED <<shares, behind>>, \A r \in Resources : Writer(r) => Writer(r)',
         \A r \in Resources : /\ details'[r].known = details[r].known
                              /\ details'[r].permissions = details[r].permissions
  PROVE  \A r \in Resources \ behind' : Fresh(details[r], r)'
  BY DEF SharesInv, Fresh

\* The toggles that a step leaves alone, and those it overtakes.
LEMMA SeenKept ==
  ASSUME TypeInv, SharesInv, NEW s \in Slots,
         \/ /\ jobs'[s] = jobs[s] /\ UNCHANGED shares
            /\ \A r \in Resources : Writer(r) => Writer(r)'
         \/ jobs[s] # Idle /\ jobs'[s] = Calm(jobs[s])
         \/ jobs'[s] = Idle
  PROVE  SeenFresh(jobs[s])'
<1>1. CASE /\ jobs'[s] = jobs[s] /\ UNCHANGED shares
           /\ \A r \in Resources : Writer(r) => Writer(r)'
  <2>1. SeenFresh(jobs[s])
    BY DEF SharesInv
  <2>2. ASSUME NEW r \in Resources, Fresh(jobs[s].seen[r], r) PROVE Fresh(jobs[s].seen[r], r)'
    BY <1>1, <2>2 DEF Fresh
  <2> QED BY <1>1, <2>1, <2>2 DEF SeenFresh
<1>2. CASE jobs[s] # Idle /\ jobs'[s] = Calm(jobs[s])
  <2>1. JobOK(jobs[s])
    BY <1>2 DEF TypeInv, JobsOK
  <2>2. ~jobs'[s].alone
    BY <1>2, <2>1, CalmFacts
  <2> QED BY <2>2 DEF SeenFresh
<1>3. CASE jobs'[s] = Idle
  BY <1>3 DEF SeenFresh
<1> QED BY <1>1, <1>2, <1>3

LEMMA ReadShares ==
  ASSUME TypeInv, SharesInv, NEW s \in Slots, ReadServed(s)
  PROVE  SharesInv'
<1> DEFINE j == jobs[s]
           k == jobs'[s]
<1>1. /\ UNCHANGED <<shares, behind, details>> /\ JobOK(j) /\ j.step = "read"
      /\ \A t \in Slots : t # s => jobs'[t] = jobs[t]
  BY ReadFacts DEF server, table
<1>2. \A r : ~Writes(j, r)
  BY <1>1 DEF JobOK, Writes, Writers
<1>3. \A r \in Resources : Writer(r) => Writer(r)'
  BY <1>1, <1>2, WriterKept
<1>4. SeenFresh(jobs[s])'
  <2>1. CASE k = Idle
    BY <2>1, SeenKept
  <2>2. ASSUME j.kind = "toggle", NEW p, p = Permissions(j.r), k = [j EXCEPT !.step = "go", !.got = p]
        PROVE  SeenFresh(jobs[s])'
    <3>1. {"kind", "r", "step", "alone", "seen", "past", "got"} \subseteq DOMAIN j /\ j.r \in Resources
      BY <1>1, <2>2 DEF JobOK, Writers
    <3>2. SeenFresh(j)
      BY DEF SharesInv
    <3> HIDE DEF j, k
    <3>3. /\ k.kind = j.kind /\ k.r = j.r /\ k.alone = j.alone /\ k.seen = j.seen /\ k.past = j.past
          /\ k.got = p
      BY <2>2, <3>1
    <3>4. Given(k.got) = Given(shares[k.r])
      BY <1>1, <2>2, <3>1, <3>3, GivenFacts
    <3>5. j # Idle
      BY <1>1, BusyFacts
    <3>6. k.alone => \A r \in Resources \ k.past : r # k.r => Fresh(k.seen[r], r)
      BY <2>2, <3>2, <3>3, <3>5 DEF SeenFresh
    <3>7. \A d : \A r \in Resources : Fresh(d, r) =>
            (d.known => (Given(d.permissions) = Given(shares'[r]) \/ Writer(r)'))
      BY <1>1, <1>3 DEF Fresh
    <3>8. k.alone => \A r \in Resources \ k.past : r # k.r =>
            (k.seen[r].known => (Given(k.seen[r].permissions) = Given(shares'[r]) \/ Writer(r)'))
      BY <3>6, <3>7
    <3> QED BY <1>1, <3>4, <3>8 DEF SeenFresh, Fresh, k
  <2>3. ASSUME j.kind = "decide", NEW put, k = [j EXCEPT !.step = "put", !.todo = {put}]
        PROVE  SeenFresh(jobs[s])'
    <3>1. {"kind"} \subseteq DOMAIN j
      BY <1>1 DEF JobOK
    <3>2. k.kind = "decide"
      BY <2>3, <3>1
    <3> QED BY <3>2 DEF SeenFresh
  <2> QED BY <2>1, <2>2, <2>3, ReadFacts
<1> QED BY <1>1, <1>3, <1>4, ShownKept, SeenKept DEF SharesInv
LEMMA EndShares ==
  ASSUME TypeInv, SharesInv, NEW s \in Slots, ToggleEnds(s)
  PROVE  SharesInv'
<1> DEFINE j == jobs[s]
<1>1. /\ JobOK(j) /\ j.kind = "toggle" /\ j.step = "go" /\ UNCHANGED shares
      /\ \A q \in Resources : q # j.r => details'[q] = j.seen[q]
      /\ details'[j.r].permissions = j.got
      /\ behind' = IF j.alone THEN (behind \cup j.past) \ {j.r} ELSE Resources
      /\ jobs'[s] = Idle /\ \A t \in Slots : t # s => jobs'[t] = jobs[t]
  BY ToggleEndsFacts
<1>2. j # Idle
  BY <1>1, BusyFacts
<1>3. \A r \in Resources : Writer(r) => Writer(r)'
  BY <1>1, WriterKept DEF Writes, Writers
<1>4. \A t \in Slots : SeenFresh(jobs[t])'
  BY <1>1, <1>3, SeenKept
<1>5. ASSUME NEW r \in Resources \ behind' PROVE Fresh(details[r], r)'
  <2>1. j.alone
    BY <1>1, <1>5
  <2>2. SeenFresh(j)
    BY DEF SharesInv
  <2>3. CASE r = j.r
    BY <1>1, <1>2, <2>1, <2>2, <2>3 DEF SeenFresh, Fresh
  <2>4. CASE r # j.r
    <3>1. r \in Resources \ j.past /\ details'[r] = j.seen[r]
      BY <1>1, <1>5, <2>1, <2>4
    <3>2. Fresh(j.seen[r], r)
      BY <1>1, <1>2, <2>1, <2>2, <2>4, <3>1 DEF SeenFresh
    <3> QED BY <1>1, <1>3, <3>1, <3>2 DEF Fresh
  <2> QED BY <2>3, <2>4
<1> QED BY <1>4, <1>5 DEF SharesInv

LEMMA PutShares ==
  ASSUME TypeInv, SharesInv, NEW s \in Slots, NEW put, PutServed(s, put)
  PROVE  SharesInv'
<1> DEFINE j == jobs[s]
           k == jobs'[s]
           new == [u \in Users |-> IF u \in DOMAIN put THEN put[u] ELSE shares[j.r][u]]
<1>1. /\ Called(s, put) /\ k.failed = j.failed /\ shares' = [shares EXCEPT ![j.r] = new]
      /\ behind' = IF j.kind = "decide" \/ j.failed THEN behind \cup {j.r} ELSE behind
      /\ UNCHANGED details
  BY PutFacts
<1>2. /\ JobOK(j) /\ JobOK(k) /\ j.r \in Resources /\ k.r = j.r /\ k.kind = j.kind /\ j.kind # "toggle"
      /\ \A t \in Slots : t # s => jobs'[t] = IF jobs[t] # Idle THEN Calm(jobs[t]) ELSE jobs[t]
  BY <1>1 DEF Called, JobOK
<1>3. k # Idle
  BY <1>2, BusyFacts
<1>4. \A r \in Resources : Writer(r) => Writer(r)'
  <2>1. \A r \in Resources : Writes(j, r) => Writes(k, r)
    BY <1>1, <1>2, <1>3 DEF Writes
  <2> QED BY <1>2, <2>1, WriterKept
<1>5. \A t \in Slots : SeenFresh(jobs[t])'
  <2>1. SeenFresh(jobs[s])'
    BY <1>2 DEF SeenFresh
  <2>2. \A t \in Slots : t # s => SeenFresh(jobs[t])'
    BY <1>2, SeenKept
  <2> QED BY <2>1, <2>2
<1> HIDE DEF new
<1>6. ASSUME NEW r \in Resources \ behind' PROVE Fresh(details[r], r)'
  <2>1. Fresh(details[r], r)
    BY <1>1, <1>6 DEF SharesInv
  <2>2. CASE r # j.r
    <3>1. shares'[r] = shares[r]
      BY <1>1, <2>2 DEF TypeInv
    <3> QED BY <1>1, <1>4, <2>1, <3>1 DEF Fresh
  <2>3. CASE r = j.r
    <3>1. j.kind \in Writers /\ ~j.failed
      BY <1>1, <1>2, <1>6, <2>3 DEF JobOK
    <3>2. Writes(k, r)
      BY <1>1, <1>2, <1>3, <2>3, <3>1 DEF Writes
    <3>3. Writer(r)'
      BY <3>2 DEF Writer
    <3> QED BY <3>3 DEF Fresh
  <2> QED BY <2>2, <2>3
<1> QED BY <1>5, <1>6 DEF SharesInv

LEMMA FailShares ==
  ASSUME TypeInv, SharesInv, NEW s \in Slots, CallFails(s)
  PROVE  SharesInv'
<1>1. JobOK(jobs[s]) /\ UNCHANGED <<shares, details>>
  BY FailsFacts DEF server
<1>2. CASE /\ jobs'[s] = Idle /\ jobs[s].step = "read" /\ UNCHANGED behind
           /\ \A t \in Slots : t # s => jobs'[t] = jobs[t]
  <2>1. \A r : ~Writes(jobs[s], r)
    BY <1>1, <1>2 DEF JobOK, Writes, Writers
  <2>2. \A r \in Resources : Writer(r) => Writer(r)'
    BY <1>2, <2>1, WriterKept
  <2> QED BY <1>1, <1>2, <2>2, ShownKept, SeenKept DEF SharesInv
<1>3. ASSUME NEW put \in jobs[s].todo, Called(s, put), behind' = behind \cup {jobs[s].r}
      PROVE  SharesInv'
  <2>1. /\ jobs[s].kind # "toggle" /\ jobs'[s].kind = jobs[s].kind /\ jobs[s].r \in Resources
        /\ \A t \in Slots : t # s => jobs'[t] = IF jobs[t] # Idle THEN Calm(jobs[t]) ELSE jobs[t]
    BY <1>3 DEF Called, JobOK
  <2>2. \A t \in Slots : SeenFresh(jobs[t])'
    <3>1. SeenFresh(jobs[s])'
      BY <2>1 DEF SeenFresh
    <3>2. \A t \in Slots : t # s => SeenFresh(jobs[t])'
      BY <2>1, SeenKept
    <3> QED BY <3>1, <3>2
  <2>3. ASSUME NEW r \in Resources \ behind' PROVE Fresh(details[r], r)'
    <3>1. r # jobs[s].r /\ Fresh(details[r], r)
      BY <1>3, <2>3 DEF SharesInv
    <3>2. ~Writes(jobs[s], r)
      BY <3>1 DEF Writes
    <3>3. Writer(r) => Writer(r)'
      BY <2>1, <3>2, WriterKept
    <3> QED BY <1>1, <3>1, <3>3 DEF Fresh
  <2> QED BY <2>2, <2>3 DEF SharesInv
<1> QED BY <1>2, <1>3, FailsFacts

\* Every row asks again.
LEMMA ResetShares ==
  ASSUME TypeInv, Reset
  PROVE  \A r \in Resources : Fresh(details[r], r)'
  BY ResetFacts DEF Fresh

LEMMA EndsShares ==
  ASSUME TypeInv, SharesInv, NEW s \in Slots, JobEnds(s)
  PROVE  SharesInv'
<1>1. /\ JobOK(jobs[s]) /\ UNCHANGED shares /\ jobs'[s] = Idle
      /\ \A t \in Slots : t # s => jobs'[t] = IF jobs[t] # Idle THEN Calm(jobs[t]) ELSE jobs[t]
  BY EndsFacts DEF server
<1>2. \A t \in Slots : SeenFresh(jobs[t])'
  BY <1>1, SeenKept
<1>3. CASE Reset
  BY <1>2, <1>3, ResetShares DEF SharesInv
<1>4. CASE UNCHANGED table /\ (jobs[s].failed \/ jobs[s].kind = "decide")
  <2>1. \A r : ~Writes(jobs[s], r)
    BY <1>4 DEF Writes, Writers
  <2>2. \A r \in Resources : Writer(r) => Writer(r)'
    BY <1>1, <2>1, WriterKept
  <2> QED BY <1>1, <1>2, <1>4, <2>2, ShownKept DEF SharesInv, table
<1> QED BY <1>3, <1>4, EndsFacts

LEMMA ClickShares ==
  ASSUME TypeInv, SharesInv, NEW s \in Slots, Clicked(s)
  PROVE  SharesInv'
<1>1. /\ UNCHANGED <<shares, details, behind>> /\ jobs[s] = Idle
      /\ \A t \in Slots : t # s => jobs'[t] = jobs[t]
      /\ jobs'[s].kind = "toggle" =>
           jobs'[s].step = "read" /\ jobs'[s].seen = details /\ jobs'[s].past = behind
  BY ClickStarts
<1>2. \A r \in Resources : Writer(r) => Writer(r)'
  BY <1>1, WriterKept DEF Writes
<1>3. \A r \in Resources \ behind' : Fresh(details[r], r)'
  BY <1>1, <1>2, ShownKept
<1>4. SeenFresh(jobs[s])'
  <2>1. CASE jobs'[s].kind = "toggle"
    <3>1. jobs'[s].seen = details' /\ jobs'[s].past = behind' /\ jobs'[s].step # "go"
      BY <1>1, <2>1
    <3> QED BY <1>3, <3>1 DEF SeenFresh, Fresh
  <2>2. CASE jobs'[s].kind # "toggle"
    BY <2>2 DEF SeenFresh
  <2> QED BY <2>1, <2>2
<1> QED BY <1>1, <1>2, <1>3, <1>4, SeenKept DEF SharesInv

LEMMA NextShares == TypeInv /\ SharesInv /\ [Next]_vars => SharesInv'
<1> SUFFICES ASSUME TypeInv, SharesInv, [Next]_vars PROVE SharesInv'
  OBVIOUS
<1>1. ASSUME NEW s \in Slots, Goes(s) PROVE SharesInv'
  BY <1>1, ReadShares, EndShares, PutShares, FailShares, EndsShares DEF Goes
<1>2. ASSUME UNCHANGED <<shares, jobs, behind>>,
             \A r \in Resources : /\ details'[r].known = details[r].known
                                  /\ details'[r].permissions = details[r].permissions
      PROVE  SharesInv'
  <2>1. \A r \in Resources : Writer(r) => Writer(r)'
    BY <1>2 DEF Writer
  <2> QED BY <1>2, <2>1, ShownKept, SeenKept DEF SharesInv
<1>3. ASSUME NEW r \in Resources, NEW field \in Fields, ToggleKnown(r, field) PROVE SharesInv'
  <2>1. UNCHANGED <<shares, jobs, behind>>
    BY <1>3 DEF ToggleKnown, server
  <2> QED BY <1>2, <1>3, <2>1, ToggleKnownTypes
<1>4. CASE CloseDialog
  <2>1. Reset /\ jobs' = Disturb(0)
    BY <1>4 DEF CloseDialog
  <2>2. \A t \in Slots : jobs'[t] = Idle \/ (jobs[t] # Idle /\ jobs'[t] = Calm(jobs[t]))
    BY <2>1, DisturbFacts DEF TypeInv, Slots
  <2>3. \A t \in Slots : SeenFresh(jobs[t])'
    BY <2>2, SeenKept
  <2> QED BY <2>1, <2>3, ResetShares DEF SharesInv
<1>5. (\/ SetParams \/ (\E r \in Resources : RequestsServed(r)) \/ FetchArrives \/ FetchFails
       \/ (\E r \in Resources, u \in Users : RequestMade(r, u)) \/ UNCHANGED vars)
        => UNCHANGED <<shares, jobs, behind, details>>
  BY DEF SetParams, RequestsServed, FetchArrives, FetchFails, RequestMade, vars, server, table
<1> QED BY <1>1, <1>2, <1>3, <1>4, <1>5, ClickShares DEF Next

\* When no handler is under way, the permissions that the page goes by are those of the
\* server, except after an accepted request, a call that failed, or a toggle whose
\* awaits something has overtaken.
THEOREM SharesShownHolds == Spec => []SharesShown
<1>1. Init => SharesInv
  <2>1. Init => \A r \in Resources : ~details[r].known
    <3>1. \A b \in BOOLEAN : [open |-> {}, known |-> b, permissions |-> <<>>].known = b
      OBVIOUS
    <3>2. ~Nothing.known
      BY <3>1, Zenon DEF Nothing
    <3> QED BY <3>2 DEF Init
  <2> QED BY <2>1 DEF Init, SharesInv, Fresh, SeenFresh
<1>2. SharesInv => SharesShown
  BY DEF SharesInv, SharesShown, Fresh, Writer, Writes
<1> QED BY <1>1, <1>2, InitTypes, NextTypes, NextShares, PTL DEF Spec
=============================================================================
