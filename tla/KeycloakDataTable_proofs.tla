----------------------- MODULE KeycloakDataTable_proofs -----------------------
(***************************************************************************)
(* What holds of KeycloakDataTable for any items, searches and page sizes: *)
(* the spinner ends, a table at rest shows its page, the checkboxes agree  *)
(* with the selection, and a selection survives paging.                    *)
(*                                                                         *)
(* A step of the table is a chain of renders, so most of the argument is   *)
(* about one render: what it keeps of a good state of the component.       *)
(***************************************************************************)
EXTENDS KeycloakDataTable, FiniteSetTheorems, TLAPS

\* One call at most is awaited, and it asks for the page unless an effect is to come.
OneRequest(t) == \A q, r \in t.requests : q = r
AsksPage(t)   == \A r \in t.requests : t.due \/ r.query = t.page

\* A paginated table has no data of its own.
NoCache(paged, t) ==
  paged => /\ ~t.unPaginatedData.loaded
           /\ \A r \in t.requests : ~r.data.loaded

\* The rows are a page of some of the hits: for the memo the page of the toolbar, for
\* a paginated table the one that was asked for.
PageOf(rows, q) == \E found \in SUBSET Hits[q.search] : rows = Slice(found, q)
MemoFits(paged, t, q) ==
  /\ t.filteredData.on <=> (~paged /\ q.search # NoSearch)
  /\ t.filteredData.on =>
       /\ t.filteredData.flagged = t.filteredData.rows \cap t.selected
       /\ PageOf(t.filteredData.rows, q)
RowsFit(paged, t) ==
  /\ t.flagged \subseteq t.rows
  /\ t.shared => (t.filteredData.on /\ t.rows = t.filteredData.rows)
  /\ paged => PageOf(t.rows, t.shown)

Good(paged, t) ==
  /\ t \in Table
  /\ OneRequest(t) /\ AsksPage(t) /\ NoCache(paged, t)
  /\ MemoFits(paged, t, t.page) /\ RowsFit(paged, t)

\* The spinner, the flags of the rows, and the rest.
Awaited(t) == t.loading => t.requests # {}
Flagged(t) ==
  (~t.loading /\ ~t.due /\ ~t.filteredData.on) =>
    t.flagged \ t.behind = (t.rows \cap t.selected) \ t.behind
Rests(paged, t) ==
  (~t.due /\ t.requests = {}) =>
    IF paged THEN t.shown = t.page
    ELSE /\ t.filteredData.on \/ t.rows = Slice(t.unPaginatedData.items, t.page)
         /\ t.page.first = 0 \/ t.page.first < Cardinality(t.unPaginatedData.items)

Outside ==
  /\ list \subseteq Items /\ kind \in {"pages", "once", "array"}
  /\ mounted \in BOOLEAN /\ acting \in BOOLEAN

TableInv ==
  /\ Outside /\ Good(isPaginated, table) /\ Awaited(table) /\ Flagged(table)
  /\ mounted => Rests(isPaginated, table)
  /\ ~mounted => table.requests = {}

-----------------------------------------------------------------------------
(* Pages and the memo.                                                      *)

LEMMA SliceFacts ==
  ASSUME NEW S, NEW q PROVE Slice(S, q) \subseteq S /\ Slice({}, q) = {}
  BY DEF Slice, Part

\* The memo, made anew.
LEMMA FilterFacts ==
  ASSUME NEW t \in Table, NEW d, d = Filter(t)
  PROVE  /\ d \in [on : BOOLEAN, rows : SUBSET Items, flagged : SUBSET Items]
         /\ d.on <=> (~isPaginated /\ t.page.search # NoSearch)
         /\ d.on => d.flagged = d.rows \cap t.selected /\ PageOf(d.rows, t.page)
<1> DEFINE found == t.unPaginatedData.items \cap Hits[t.page.search]
<1>1. t.page.search \in Searches /\ t.selected \subseteq Items /\ t.unPaginatedData.items \subseteq Items
  BY DEF Table, Query, Cache
<1>2. Slice(found, t.page) \subseteq found /\ found \subseteq Items /\ found \in SUBSET Hits[t.page.search]
  BY <1>1, SliceFacts
<1>3. PageOf(Slice(found, t.page), t.page)
  BY <1>2 DEF PageOf
<1>4. CASE isPaginated \/ t.page.search = NoSearch
  BY <1>4 DEF Filter, Off
<1>5. CASE ~(isPaginated \/ t.page.search = NoSearch)
  <2>1. d = [on |-> TRUE, rows |-> Slice(found, t.page), flagged |-> Slice(found, t.page) \cap t.selected]
    BY <1>5 DEF Filter
  <2> HIDE DEF found
  <2> QED BY <1>2, <1>3, <1>5, <2>1
<1> QED BY <1>4, <1>5

-----------------------------------------------------------------------------
(* One render.                                                              *)

Reset(q) == [q EXCEPT !.first = 0]

\* What the effect of t asks for and sets.
LEMMA AskedFacts ==
  ASSUME Outside, NEW t \in Table, NEW r, r = Asked(t)
  PROVE  /\ r \in Request /\ r.selected = t.selected
         /\ (~NewSearch(t) \/ ~isPaginated) => r.query = t.page
         /\ (NewSearch(t) /\ isPaginated) => r.query = [t.page EXCEPT !.first = 0]
         /\ (isPaginated /\ ~t.unPaginatedData.loaded) => ~r.data.loaded
<1>1. [t.page EXCEPT !.first = 0] \in Query /\ t.page \in Query
  BY TableAssumption DEF Table, Query
<1>2. AtHand(t) \in Cache /\ (isPaginated => AtHand(t) = t.unPaginatedData)
  BY DEF AtHand, Cache, Loaded, Table, Outside, isPaginated
<1>3. t.selected \in SUBSET Items
  BY DEF Table
<1> QED BY <1>1, <1>2, <1>3 DEF Asked, Request

\* Without an effect to come, a render adds nothing but the memo.
LEMMA PlainRender ==
  ASSUME NEW t \in Table, NEW next \in Table, NEW again \in BOOLEAN, ~t.due,
         NEW u, u = Render(t, next, again)
  PROVE  /\ u \in Table
         /\ u.due = (again \/ next.page # t.page)
         /\ u.filteredData = Memo(t, next)
         /\ u.shared = (next.shared /\ next.page = t.page)
         /\ u.page = next.page /\ u.loading = next.loading
         /\ u.unPaginatedData = next.unPaginatedData /\ u.selected = next.selected
         /\ u.rows = next.rows /\ u.flagged = next.flagged
         /\ u.requests = next.requests /\ u.shown = next.shown /\ u.behind = next.behind
<1> DEFINE new == [next EXCEPT !.due = FALSE]
<1>1. new = Flushed(t, next)
  BY DEF Flushed
<1>2. new \in Table /\ new.page = next.page /\ new.selected = next.selected
      /\ new.unPaginatedData = next.unPaginatedData /\ new.filteredData = next.filteredData
  BY DEF Table
<1>3. Memo(t, new) = Memo(t, next)
  BY <1>2 DEF Memo, Filter
<1>4. Memo(t, next) \in [on : BOOLEAN, rows : SUBSET Items, flagged : SUBSET Items]
  BY FilterFacts DEF Memo, Table
<1>5. u = [new EXCEPT !.due = again \/ new.page # t.page,
                      !.filteredData = Memo(t, new),
                      !.shared = @ /\ new.page = t.page]
  BY <1>1 DEF Render
<1>6. u = [next EXCEPT !.due = again \/ next.page # t.page,
                      !.filteredData = Memo(t, next),
                      !.shared = @ /\ next.page = t.page]
  BY <1>5, <1>2, <1>3 DEF Table
<1> HIDE DEF new
<1> QED BY <1>4, <1>6 DEF Table

\* With one to come, there is a new request, and the spinner turns.
WithEffect(t, next, again, u) ==
  /\ u \in Table
  /\ u.due = (again \/ u.page # t.page)
  /\ NewSearch(t) => u.page = Reset(next.page)
  /\ ~NewSearch(t) => u.page = next.page
  /\ u.page = t.page => u.filteredData = next.filteredData
  /\ u.page # t.page => u.filteredData = Filter(u)
  /\ u.shared = (next.shared /\ u.page = t.page)
  /\ u.loading = TRUE /\ u.requests = {Asked(t)}
  /\ u.unPaginatedData = next.unPaginatedData /\ u.selected = next.selected
  /\ u.rows = next.rows /\ u.flagged = next.flagged
  /\ u.shown = next.shown /\ u.behind = next.behind

LEMMA EffectRender ==
  ASSUME Outside, NEW t \in Table, NEW next \in Table, NEW again \in BOOLEAN, t.due
  PROVE  WithEffect(t, next, again, Render(t, next, again))
<1> DEFINE u   == Render(t, next, again)
           p   == IF NewSearch(t) THEN [next.page EXCEPT !.first = 0] ELSE next.page
           new == [next EXCEPT !.due = FALSE, !.requests = {Asked(t)}, !.loading = TRUE,
                               !.prevSearch = t.page.search, !.page = p]
<1>0. p \in Query /\ t.page.search \in Searches
  BY TableAssumption DEF Table, Query
<1>1. new = Flushed(t, next)
  BY DEF Flushed, Effect, Abort, Table, Query
<1>2. Asked(t) \in Request
  BY AskedFacts
<1> HIDE DEF p
<1>3. new \in Table /\ new.page = p /\ new.selected = next.selected
      /\ new.unPaginatedData = next.unPaginatedData /\ new.filteredData = next.filteredData
      /\ new.loading = TRUE /\ new.requests = {Asked(t)} /\ new.rows = next.rows
      /\ new.flagged = next.flagged /\ new.shown = next.shown /\ new.behind = next.behind
      /\ new.shared = next.shared
  BY <1>0, <1>2 DEF Table
<1> HIDE DEF new
<1>4. Memo(t, new) \in [on : BOOLEAN, rows : SUBSET Items, flagged : SUBSET Items]
  BY <1>3, FilterFacts DEF Memo, Table
<1> DEFINE memo == Memo(t, new)
           due  == again \/ new.page # t.page
           kept == new.shared /\ new.page = t.page
<1>5. u = [new EXCEPT !.due = due, !.filteredData = memo, !.shared = kept]
  BY <1>1 DEF Render
<1>6. due \in BOOLEAN /\ kept \in BOOLEAN
  OBVIOUS
<1>7. due = (again \/ p # t.page) /\ kept = (next.shared /\ p = t.page)
  BY <1>3
<1>8. memo = IF p = t.page THEN next.filteredData ELSE Filter(new)
  BY <1>3 DEF Memo
<1>12. memo \in [on : BOOLEAN, rows : SUBSET Items, flagged : SUBSET Items]
  BY <1>4
<1> HIDE DEF memo, due, kept, u
<1>9. /\ u \in Table /\ u.page = new.page /\ u.selected = new.selected
      /\ u.unPaginatedData = new.unPaginatedData /\ u.filteredData = memo
      /\ u.loading = new.loading /\ u.requests = new.requests /\ u.rows = new.rows
      /\ u.flagged = new.flagged /\ u.shown = new.shown /\ u.behind = new.behind
      /\ u.shared = kept /\ u.due = due
  <2>1. new \in Table
    BY <1>3
  <2> QED BY <2>1, <1>12, <1>5, <1>6 DEF Table
<1>10. Filter(u) = Filter(new)
  BY <1>9 DEF Filter
<1>11. WithEffect(t, next, again, u)
  BY <1>3, <1>7, <1>8, <1>9, <1>10 DEF p, Reset, WithEffect
<1> QED BY <1>11 DEF u

\* A render of a good component is good, if what its state is set to is.
LEMMA RenderIsGood ==
  ASSUME Outside, NEW t, Good(isPaginated, t), NEW next \in Table, NEW again \in BOOLEAN,
         OneRequest(next), NoCache(isPaginated, next), RowsFit(isPaginated, next), MemoFits(isPaginated, next, t.page),
         ~t.due => \A r \in next.requests : r.query = t.page,
         NEW u, u = Render(t, next, again)
  PROVE  Good(isPaginated, u)
<1>0. t \in Table
  BY DEF Good
<1>1. CASE ~t.due
  <2>1. /\ u \in Table /\ u.due = (again \/ next.page # t.page)
        /\ u.filteredData = Memo(t, next) /\ u.shared = (next.shared /\ next.page = t.page)
        /\ u.page = next.page /\ u.unPaginatedData = next.unPaginatedData
        /\ u.selected = next.selected /\ u.rows = next.rows /\ u.flagged = next.flagged
        /\ u.requests = next.requests /\ u.shown = next.shown
    BY <1>0, <1>1, PlainRender
  <2>2. OneRequest(u) /\ NoCache(isPaginated, u)
    BY <2>1 DEF OneRequest, NoCache
  <2>3. AsksPage(u)
    <3> SUFFICES ASSUME ~u.due, NEW r \in u.requests PROVE r.query = u.page
      BY DEF AsksPage
    <3>1. ~again /\ next.page = t.page
      BY <2>1
    <3> QED BY <1>1, <2>1, <3>1
  <2>4. MemoFits(isPaginated, u, u.page)
    BY <2>1, FilterFacts DEF MemoFits, Memo
  <2>5. RowsFit(isPaginated, u)
    BY <2>1 DEF RowsFit, Memo
  <2> QED BY <2>1, <2>2, <2>3, <2>4, <2>5 DEF Good
<1>2. CASE t.due
  <2>0. WithEffect(t, next, again, u)
    BY <1>0, <1>2, EffectRender
  <2>1. /\ u \in Table /\ u.due = (again \/ u.page # t.page)
        /\ NewSearch(t) => u.page = Reset(next.page)
        /\ ~NewSearch(t) => u.page = next.page
        /\ u.page = t.page => u.filteredData = next.filteredData
        /\ u.page # t.page => u.filteredData = Filter(u)
        /\ u.shared = (next.shared /\ u.page = t.page)
        /\ u.requests = {Asked(t)}
        /\ u.unPaginatedData = next.unPaginatedData /\ u.selected = next.selected
        /\ u.rows = next.rows /\ u.flagged = next.flagged /\ u.shown = next.shown
    BY <2>0 DEF WithEffect
  <2>2. OneRequest(u)
    BY <2>1 DEF OneRequest
  <2>3. NoCache(isPaginated, u)
    BY <1>0, <2>1, AskedFacts DEF NoCache, Good
  <2>4. AsksPage(u)
    <3> SUFFICES ASSUME ~u.due PROVE Asked(t).query = u.page
      BY <2>1 DEF AsksPage
    <3>1. u.page = t.page
      BY <2>1
    <3>2. CASE NewSearch(t)
      <4>1. u.page = [next.page EXCEPT !.first = 0] /\ next.page \in Query /\ t.page \in Query
        BY <1>0, <2>1, <3>2 DEF Table, Reset
      <4>2. t.page.first = 0
        BY <3>1, <4>1 DEF Query
      <4>3. [t.page EXCEPT !.first = 0] = t.page
        BY <4>1, <4>2 DEF Query
      <4> QED BY <1>0, <3>1, <4>3, AskedFacts
    <3> QED BY <1>0, <3>1, <3>2, AskedFacts
  <2>5. MemoFits(isPaginated, u, u.page)
    BY <2>1, FilterFacts DEF MemoFits
  <2>6. RowsFit(isPaginated, u)
    BY <2>1 DEF RowsFit
  <2> QED BY <2>1, <2>2, <2>3, <2>4, <2>5, <2>6 DEF Good
<1> QED BY <1>1, <1>2

\* What else a render keeps: the spinner, the flags, the selection, and that a table
\* with a request or an effect to come is not at rest.
Keeps(t, next, again, u) ==
  /\ u.selected = next.selected
  /\ u.rows = next.rows /\ u.flagged = next.flagged /\ u.shown = next.shown
  /\ u.behind = next.behind /\ u.unPaginatedData = next.unPaginatedData
  /\ t.due => u.requests # {} /\ u.loading = TRUE
  /\ next.requests # {} => u.requests # {}
  /\ again => u.due
  /\ (~u.due /\ ~t.due) => (u.page = t.page /\ next.page = t.page)
  /\ ~t.due => (u.loading = next.loading /\ u.page = next.page)
  /\ (~t.due /\ ~u.due) => u.filteredData = next.filteredData
  /\ ~t.due => u.requests = next.requests
  /\ Awaited(next) => Awaited(u)
  /\ Flagged([next EXCEPT !.due = t.due]) => Flagged(u)

LEMMA RenderKeeps ==
  ASSUME Outside, NEW t \in Table, NEW next \in Table, NEW again \in BOOLEAN
  PROVE  Keeps(t, next, again, Render(t, next, again))
<1> DEFINE u == Render(t, next, again)
<1>0. u = Render(t, next, again)
  OBVIOUS
<1> SUFFICES Keeps(t, next, again, u)
  OBVIOUS
<1> HIDE DEF u
<1>1. CASE ~t.due
  <2>1. /\ u.due = (again \/ next.page # t.page)
        /\ u.filteredData = Memo(t, next)
        /\ u.page = next.page /\ u.loading = next.loading
        /\ u.unPaginatedData = next.unPaginatedData /\ u.selected = next.selected
        /\ u.rows = next.rows /\ u.flagged = next.flagged
        /\ u.requests = next.requests /\ u.shown = next.shown /\ u.behind = next.behind
    BY <1>0, <1>1, PlainRender
  <2>2. ~u.due => u.filteredData = next.filteredData
    BY <2>1 DEF Memo
  <2>3. Flagged([next EXCEPT !.due = t.due]) => Flagged(u)
    BY <1>1, <2>1, <2>2 DEF Flagged, Table
  <2>4. again => u.due
    BY <2>1
  <2>5. ~u.due => next.page = t.page
    BY <2>1
  <2>6. Awaited(next) => Awaited(u)
    BY <2>1 DEF Awaited
  <2> QED BY <1>1, <2>1, <2>2, <2>3, <2>4, <2>5, <2>6 DEF Keeps
<1>2. CASE t.due
  <2>1. WithEffect(t, next, again, u)
    BY <1>0, <1>2, EffectRender
  <2>3. again => u.due
    BY <2>1 DEF WithEffect
  <2>4. Awaited(u) /\ Flagged(u)
    BY <2>1 DEF WithEffect, Awaited, Flagged
  <2> QED BY <1>2, <2>1, <2>3, <2>4 DEF WithEffect, Keeps
<1> QED BY <1>1, <1>2

-----------------------------------------------------------------------------
(* What the actions set, and render.                                        *)

\* The page is changed, or nothing is.
Turned(paged, t, u) ==
  /\ Good(paged, u) /\ u.selected = t.selected
  /\ Awaited(t) => Awaited(u)
  /\ Flagged(t) => Flagged(u)
  /\ Rests(paged, t) => Rests(paged, u)

LEMMA PageStep ==
  ASSUME Outside, NEW t, Good(isPaginated, t), NEW p \in Query, NEW again \in BOOLEAN
  PROVE  Turned(isPaginated, t, Render(t, [t EXCEPT !.page = p], again))
<1> DEFINE next == [t EXCEPT !.page = p]
           u    == Render(t, next, again)
<1>0. t \in Table
  BY DEF Good
<1>1. /\ next \in Table /\ next.page = p /\ next.loading = t.loading
      /\ next.unPaginatedData = t.unPaginatedData /\ next.selected = t.selected
      /\ next.rows = t.rows /\ next.flagged = t.flagged /\ next.filteredData = t.filteredData
      /\ next.shared = t.shared /\ next.due = t.due /\ next.requests = t.requests
      /\ next.shown = t.shown /\ next.behind = t.behind
  BY <1>0 DEF Table
<1>2. u = Render(t, next, again)
  OBVIOUS
<1> SUFFICES Turned(isPaginated, t, u)
  OBVIOUS
<1> HIDE DEF next, u
<1>3. Good(isPaginated, u)
  <2>1. OneRequest(next) /\ NoCache(isPaginated, next) /\ RowsFit(isPaginated, next)
        /\ MemoFits(isPaginated, next, t.page)
    BY <1>1 DEF Good, OneRequest, NoCache, RowsFit, MemoFits
  <2>2. ~t.due => \A r \in next.requests : r.query = t.page
    BY <1>1 DEF Good, AsksPage
  <2> QED BY <1>1, <1>2, <2>1, <2>2, RenderIsGood
<1>4. [next EXCEPT !.due = t.due] = next
  BY <1>1 DEF Table
<1>5. Awaited(t) = Awaited(next) /\ Flagged(t) = Flagged(next)
  BY <1>1 DEF Awaited, Flagged
<1>6. /\ u.selected = next.selected
      /\ u.rows = next.rows /\ u.shown = next.shown
      /\ u.unPaginatedData = next.unPaginatedData
      /\ t.due => u.requests # {}
      /\ (~u.due /\ ~t.due) => (u.page = t.page /\ next.page = t.page)
      /\ (~t.due /\ ~u.due) => u.filteredData = next.filteredData
      /\ ~t.due => u.requests = next.requests
      /\ Awaited(next) => Awaited(u)
      /\ Flagged(next) => Flagged(u)
  <2>1. Keeps(t, next, again, u)
    BY <1>0, <1>1, <1>2, RenderKeeps
  <2> QED BY <1>1, <1>4, <2>1 DEF Keeps
<1>7. ASSUME Rests(isPaginated, t) PROVE Rests(isPaginated, u)
  BY <1>1, <1>6, <1>7 DEF Rests
<1> QED BY <1>1, <1>3, <1>5, <1>6, <1>7 DEF Turned

\* setRows(convertToColumns(..)) and setLoading(false).
LEMMA ShownStep ==
  ASSUME Outside, NEW t, Good(isPaginated, t), NEW r \in Request, NEW items \in SUBSET Items,
         isPaginated => PageOf(items, r.query),
         NEW u, u = Shown(t, r, items)
  PROVE  /\ Good(isPaginated, u) /\ u.selected = t.selected
         /\ Awaited(u) /\ Flagged(u)
         /\ (~u.due /\ u.requests = {}) =>
              /\ ~t.due /\ t.requests = {} /\ u.page = t.page
              /\ u.rows = items /\ u.shown = r.query
              /\ u.filteredData = t.filteredData /\ u.unPaginatedData = t.unPaginatedData
<1> DEFINE next   == Columns(t, r, items)
           filled == Render(t, next, FALSE)
           last   == [filled EXCEPT !.loading = FALSE]
<1>0. t \in Table
  BY DEF Good
<1>1. /\ next \in Table /\ next.page = t.page /\ next.selected = t.selected
      /\ next.unPaginatedData = t.unPaginatedData /\ next.requests = t.requests
      /\ next.filteredData = t.filteredData /\ next.shared = FALSE
      /\ next.rows = items /\ next.flagged = items \cap r.selected
      /\ next.shown = r.query /\ next.behind = Changed(r.selected, t.selected)
  BY <1>0 DEF Table, Columns, Request, Changed
<1> HIDE DEF next
<1>2. Good(isPaginated, filled)
  <2>1. OneRequest(next) /\ NoCache(isPaginated, next) /\ RowsFit(isPaginated, next)
        /\ MemoFits(isPaginated, next, t.page)
    BY <1>1 DEF Good, OneRequest, NoCache, RowsFit, MemoFits
  <2>2. ~t.due => \A q \in next.requests : q.query = t.page
    BY <1>1 DEF Good, AsksPage
  <2> QED BY <1>1, <2>1, <2>2, RenderIsGood
<1>3. /\ filled.selected = next.selected /\ filled.rows = next.rows
      /\ filled.flagged = next.flagged /\ filled.shown = next.shown
      /\ filled.behind = next.behind /\ filled.unPaginatedData = next.unPaginatedData
      /\ t.due => filled.requests # {}
      /\ (~filled.due /\ ~t.due) => filled.page = t.page
      /\ (~t.due /\ ~filled.due) => filled.filteredData = next.filteredData
      /\ ~t.due => filled.requests = next.requests
  <2>1. Keeps(t, next, FALSE, filled)
    BY <1>0, <1>1, RenderKeeps
  <2> HIDE DEF filled
  <2> QED BY <1>1, <2>1 DEF Keeps
<1>4. u = Render(filled, last, FALSE)
  BY DEF Shown, next
<1> HIDE DEF filled
<1>5. filled \in Table
  BY <1>2 DEF Good
<1>6. /\ last \in Table /\ last.page = filled.page /\ last.loading = FALSE
      /\ last.unPaginatedData = filled.unPaginatedData /\ last.selected = filled.selected
      /\ last.rows = filled.rows /\ last.flagged = filled.flagged
      /\ last.filteredData = filled.filteredData /\ last.shared = filled.shared
      /\ last.due = filled.due /\ last.requests = filled.requests
      /\ last.shown = filled.shown /\ last.behind = filled.behind
  BY <1>5 DEF Table
<1> HIDE DEF last
<1>7. Good(isPaginated, u)
  <2>1. OneRequest(last) /\ NoCache(isPaginated, last) /\ RowsFit(isPaginated, last)
        /\ MemoFits(isPaginated, last, filled.page)
    BY <1>2, <1>6 DEF Good, OneRequest, NoCache, RowsFit, MemoFits
  <2>2. ~filled.due => \A q \in last.requests : q.query = filled.page
    BY <1>2, <1>6 DEF Good, AsksPage
  <2> QED BY <1>2, <1>4, <1>6, <2>1, <2>2, RenderIsGood
<1>8. [last EXCEPT !.due = filled.due] = last
  BY <1>5, <1>6 DEF Table
<1>9. /\ u.selected = last.selected /\ u.rows = last.rows /\ u.shown = last.shown
      /\ u.unPaginatedData = last.unPaginatedData
      /\ filled.due => u.requests # {}
      /\ last.requests # {} => u.requests # {}
      /\ (~u.due /\ ~filled.due) => (u.page = filled.page /\ last.page = filled.page)
      /\ (~filled.due /\ ~u.due) => u.filteredData = last.filteredData
      /\ ~filled.due => u.requests = last.requests
      /\ Awaited(last) => Awaited(u)
      /\ Flagged(last) => Flagged(u)
  <2>1. Keeps(filled, last, FALSE, u)
    BY <1>4, <1>5, <1>6, RenderKeeps
  <2> QED BY <1>6, <1>8, <2>1 DEF Keeps
<1>10. Awaited(last)
  BY <1>6 DEF Awaited
<1>11. Flagged(last)
  BY <1>1, <1>3, <1>6 DEF Flagged, Changed
<1>12. ASSUME ~u.due, u.requests = {}
       PROVE  /\ ~t.due /\ t.requests = {} /\ u.page = t.page
              /\ u.rows = items /\ u.shown = r.query
              /\ u.filteredData = t.filteredData /\ u.unPaginatedData = t.unPaginatedData
  <2>1. ~filled.due /\ filled.requests = {}
    BY <1>6, <1>9, <1>12
  <2>2. ~t.due
    BY <1>3, <2>1
  <2> QED BY <1>1, <1>3, <1>6, <1>9, <1>12, <2>1, <2>2
<1> QED BY <1>1, <1>3, <1>6, <1>7, <1>9, <1>10, <1>11, <1>12

\* Cutting the page out of all the data.
LEMMA CutStep ==
  ASSUME Outside, ~isPaginated, NEW t, Good(isPaginated, t), NEW r \in Request,
         NEW items \in SUBSET Items, t.unPaginatedData.items = items,
         (~t.due /\ t.requests = {}) => r.query = t.page,
         NEW u, u = Cut(t, r, items)
  PROVE  /\ Good(isPaginated, u) /\ u.selected = t.selected
         /\ Awaited(u) /\ Flagged(u) /\ Rests(isPaginated, u)
<1>0. /\ t \in Table /\ r.query \in Query /\ IsFiniteSet(items)
      /\ Cardinality(items) \in Nat /\ r.query.first \in Nat
  <2>1. t \in Table /\ r.query \in Query
    BY DEF Good, Request
  <2>2. IsFiniteSet(items)
    BY FS_Subset, TableAssumption
  <2>3. r.query.first \in Nat
    BY <2>1, TableAssumption DEF Query
  <2> QED BY <2>1, <2>2, <2>3, FS_CardinalityType
<1>1. CASE Cardinality(items) > r.query.first
  <2> DEFINE cut == Slice(items, r.query)
  <2>1. u = Shown(t, r, cut)
    BY <1>1 DEF Cut
  <2>2. cut \in SUBSET Items
    BY SliceFacts
  <2> HIDE DEF cut
  <2>3. /\ Good(isPaginated, u) /\ u.selected = t.selected
        /\ Awaited(u) /\ Flagged(u)
        /\ (~u.due /\ u.requests = {}) =>
             /\ ~t.due /\ t.requests = {} /\ u.page = t.page
             /\ u.rows = cut /\ u.unPaginatedData = t.unPaginatedData
    BY <2>1, <2>2, ShownStep
  <2>4. Rests(isPaginated, u)
    <3> SUFFICES ASSUME ~u.due, u.requests = {}
                 PROVE  /\ u.rows = Slice(u.unPaginatedData.items, u.page)
                        /\ u.page.first < Cardinality(u.unPaginatedData.items)
      BY DEF Rests
    <3>1. u.page = r.query /\ u.unPaginatedData.items = items /\ u.rows = cut
      BY <2>3
    <3> QED BY <1>0, <1>1, <3>1 DEF cut
  <2> QED BY <2>3, <2>4
<1>2. CASE ~(Cardinality(items) > r.query.first)
  <2> DEFINE p    == [t.page EXCEPT !.first = 0]
             next == [t EXCEPT !.page = p]
             back == Render(t, next, FALSE)
  <2>1. p \in Query /\ p.first = 0 /\ next \in Table /\ next.page = p
        /\ next.unPaginatedData = t.unPaginatedData /\ next.requests = t.requests
    BY <1>0, TableAssumption DEF Table, Query
  <2>2. Good(isPaginated, back) /\ back.selected = t.selected
    <3>1. back = Render(t, [t EXCEPT !.page = p], FALSE) /\ FALSE \in BOOLEAN /\ p \in Query
      BY <2>1
    <3> HIDE DEF back, next, p
    <3>2. Turned(isPaginated, t, back)
      BY <3>1, PageStep
    <3> QED BY <3>2 DEF Turned
  <2>3. Keeps(t, next, FALSE, back)
    BY <1>0, <2>1, RenderKeeps
  <2>4. u = Shown(back, r, items)
    BY <1>0, <1>2 DEF Cut, Table
  <2> HIDE DEF back, next, p
  <2>5. /\ Good(isPaginated, u) /\ u.selected = back.selected
        /\ Awaited(u) /\ Flagged(u)
        /\ (~u.due /\ u.requests = {}) =>
             /\ ~back.due /\ back.requests = {} /\ u.page = back.page
             /\ u.rows = items /\ u.unPaginatedData = back.unPaginatedData
    BY <2>2, <2>4, ShownStep
  <2>6. Rests(isPaginated, u)
    <3> SUFFICES ASSUME ~u.due, u.requests = {}
                 PROVE  /\ u.rows = Slice(u.unPaginatedData.items, u.page)
                        /\ u.page.first = 0
      BY DEF Rests
    <3>1. ~t.due /\ t.requests = {}
      BY <2>1, <2>3, <2>5 DEF Keeps
    <3>2. back.page = t.page /\ t.page = p /\ back.unPaginatedData = t.unPaginatedData
      BY <2>1, <2>3, <2>5, <3>1 DEF Keeps
    <3>3. r.query.first = 0 /\ u.page.first = 0
      BY <2>1, <2>5, <3>1, <3>2
    <3>4. Cardinality(items) = 0
      BY <1>0, <1>2, <3>3
    <3>5. items = {}
      BY <1>0, <3>4, FS_EmptySet
    <3> QED BY <2>5, <3>2, <3>3, <3>5, SliceFacts
  <2> QED BY <2>2, <2>5, <2>6
<1> QED BY <1>1, <1>2

\* The callback of useFetch, after which r is not awaited any more.
LEMMA CallbackStep ==
  ASSUME Outside, NEW t, Good(isPaginated, t), t.requests = {}, NEW r \in Request,
         ~t.due => r.query = t.page,
         NEW items \in SUBSET Items, isPaginated => PageOf(items, r.query),
         NEW u, u = Callback(t, r, items)
  PROVE  /\ Good(isPaginated, u) /\ u.selected = t.selected
         /\ Awaited(u) /\ Flagged(u) /\ Rests(isPaginated, u)
<1>0. t \in Table
  BY DEF Good
<1>1. CASE isPaginated
  <2>1. u = Shown(t, r, items)
    BY <1>1 DEF Callback
  <2>2. /\ Good(isPaginated, u) /\ u.selected = t.selected
        /\ Awaited(u) /\ Flagged(u)
        /\ (~u.due /\ u.requests = {}) =>
             /\ ~t.due /\ u.page = t.page /\ u.shown = r.query
    BY <2>1, ShownStep
  <2>3. Rests(isPaginated, u)
    BY <1>1, <2>2 DEF Rests
  <2> QED BY <2>2, <2>3
<1>2. CASE ~isPaginated
  <2> DEFINE next == [t EXCEPT !.unPaginatedData = Loaded(items)]
             held == Render(t, next, FALSE)
  <2>1. /\ next \in Table /\ next.page = t.page /\ next.selected = t.selected
        /\ next.unPaginatedData.items = items /\ next.requests = {}
        /\ next.rows = t.rows /\ next.flagged = t.flagged
        /\ next.filteredData = t.filteredData /\ next.shared = t.shared
        /\ next.shown = t.shown
    BY <1>0 DEF Table, Loaded, Cache
  <2>2. u = Cut(held, r, items)
    BY <1>2 DEF Callback
  <2> HIDE DEF next
  <2>3. Keeps(t, next, FALSE, held)
    BY <1>0, <2>1, RenderKeeps
  <2>4. Good(isPaginated, held)
    <3>1. OneRequest(next) /\ NoCache(isPaginated, next) /\ RowsFit(isPaginated, next)
          /\ MemoFits(isPaginated, next, t.page)
      BY <1>2, <2>1 DEF Good, OneRequest, NoCache, RowsFit, MemoFits
    <3> QED BY <2>1, <3>1, RenderIsGood
  <2> HIDE DEF held
  <2>5. /\ held.unPaginatedData.items = items /\ held.selected = t.selected
        /\ (~held.due /\ held.requests = {}) => r.query = held.page
    BY <2>1, <2>3 DEF Keeps
  <2> QED BY <1>2, <2>2, <2>4, <2>5, CutStep
<1> QED BY <1>1, <1>2

\* A click on a row, or on all of them.
LEMMA SelectStep ==
  ASSUME TableInv, NEW flags, flags \subseteq Data, NEW which \in {"one", "all"},
         OnSelect(flags, which)
  PROVE  /\ Good(isPaginated, table') /\ Awaited(table') /\ Flagged(table')
         /\ Rests(isPaginated, table) => Rests(isPaginated, table')
         /\ table.requests # {} => table'.requests # {}
         /\ table'.selected \ Data = table.selected \ Data
<1> DEFINE on   == table.filteredData.on
           same == which = "all" \/ table.shared \/ ~on
           memo == IF on THEN [table.filteredData EXCEPT !.flagged = flags] ELSE table.filteredData
           next == [table EXCEPT !.selected = Kept(Data) \cup flags,
                                 !.filteredData = memo,
                                 !.rows = IF which = "all" THEN Data ELSE @,
                                 !.flagged = IF same THEN flags ELSE @,
                                 !.shared = on /\ same,
                                 !.behind = IF same THEN {} ELSE @]
<1>0. table \in Table /\ Good(isPaginated, table) /\ Outside
  BY DEF TableInv, Good
<1>1. Data \subseteq Items /\ flags \subseteq Items /\ Kept(Data) \subseteq Items
  BY <1>0 DEF Data, Table, Kept
<1>2. same \in BOOLEAN /\ on \in BOOLEAN
  BY <1>0 DEF Table
<1>3. /\ memo \in [on : BOOLEAN, rows : SUBSET Items, flagged : SUBSET Items]
      /\ memo.on = on /\ memo.rows = table.filteredData.rows
      /\ on => memo.flagged = flags
  BY <1>0, <1>1 DEF Table
<1>4. table' = Render(table, next, FALSE)
  BY DEF OnSelect
<1>5. (which # "all" /\ same) => (table.shared \/ ~on)
  OBVIOUS
<1> HIDE DEF memo, same, on
<1>6. /\ next \in Table /\ next.page = table.page /\ next.requests = table.requests
      /\ next.loading = table.loading /\ next.due = table.due /\ next.shown = table.shown
      /\ next.unPaginatedData = table.unPaginatedData
      /\ next.selected = Kept(Data) \cup flags /\ next.filteredData = memo
      /\ next.rows = (IF which = "all" THEN Data ELSE table.rows)
      /\ next.flagged = (IF same THEN flags ELSE table.flagged)
      /\ next.shared = (on /\ same)
  BY <1>0, <1>1, <1>2, <1>3 DEF Table
<1> HIDE DEF next
<1>7. Data = IF on THEN table.filteredData.rows ELSE table.rows
  BY DEF Data, on
<1>8. next.selected \cap Data = flags /\ next.selected \ Data = table.selected \ Data
  BY <1>6 DEF Kept
<1>9. MemoFits(isPaginated, next, table.page)
  BY <1>0, <1>3, <1>6, <1>7, <1>8 DEF Good, MemoFits, on
<1>10. RowsFit(isPaginated, next)
  <2>1. same => (next.flagged = flags /\ next.rows = Data)
    <3>1. (which # "all" /\ same) => table.rows = Data
      BY <1>0, <1>5, <1>7 DEF Good, RowsFit
    <3> QED BY <1>6, <3>1
  <2>2. next.flagged \subseteq next.rows
    <3>1. ~same => which # "all"
      BY DEF same
    <3> QED BY <1>0, <1>6, <2>1, <3>1 DEF Good, RowsFit
  <2>3. next.shared => (next.filteredData.on /\ next.rows = next.filteredData.rows)
    BY <1>3, <1>6, <1>7, <2>1
  <2>4. ASSUME isPaginated PROVE PageOf(next.rows, next.shown)
    <3>1. ~on
      BY <1>0, <2>4 DEF Good, MemoFits, on
    <3>2. next.rows = table.rows
      BY <1>6, <1>7, <3>1
    <3> QED BY <1>0, <1>6, <2>4, <3>2 DEF Good, RowsFit
  <2> QED BY <2>2, <2>3, <2>4 DEF RowsFit
<1>11. OneRequest(next) /\ NoCache(isPaginated, next)
  BY <1>0, <1>6 DEF Good, OneRequest, NoCache
<1>12. Good(isPaginated, table')
  <2>1. ~table.due => \A r \in next.requests : r.query = table.page
    BY <1>0, <1>6 DEF Good, AsksPage
  <2> QED BY <1>0, <1>4, <1>6, <1>9, <1>10, <1>11, <2>1, RenderIsGood
<1>13. Keeps(table, next, FALSE, table')
  BY <1>0, <1>4, <1>6, RenderKeeps
<1>14. [next EXCEPT !.due = table.due] = next
  BY <1>0, <1>6 DEF Table
<1>15. Flagged(next)
  <2>1. ~on => (same /\ next.rows = Data)
    BY <1>6, <1>7 DEF same
  <2>2. ~on => next.flagged = next.rows \cap next.selected
    BY <1>6, <1>8, <2>1
  <2> QED BY <1>3, <1>6, <2>2 DEF Flagged
<1>16. Awaited(next)
  BY <1>6 DEF TableInv, Awaited
<1>17. ASSUME Rests(isPaginated, table) PROVE Rests(isPaginated, table')
  <2> SUFFICES ASSUME ~table'.due, table'.requests = {}
               PROVE  IF isPaginated THEN table'.shown = table'.page
                      ELSE /\ \/ table'.filteredData.on
                              \/ table'.rows = Slice(table'.unPaginatedData.items, table'.page)
                           /\ \/ table'.page.first = 0
                              \/ table'.page.first < Cardinality(table'.unPaginatedData.items)
    BY DEF Rests
  <2>1. ~table.due /\ table.requests = {}
    BY <1>6, <1>13 DEF Keeps
  <2>2. /\ table'.page = table.page /\ table'.shown = table.shown
        /\ table'.unPaginatedData = table.unPaginatedData /\ table'.rows = next.rows
        /\ table'.filteredData.on = on
    BY <1>3, <1>6, <1>13, <2>1 DEF Keeps
  <2>3. ~on => next.rows = table.rows
    BY <1>6, <1>7
  <2> QED BY <1>17, <2>1, <2>2, <2>3 DEF Rests, on
<1>18. Awaited(table') /\ Flagged(table')
  BY <1>13, <1>14, <1>15, <1>16 DEF Keeps
<1>19. /\ table.requests # {} => table'.requests # {}
       /\ table'.selected \ Data = table.selected \ Data
  BY <1>6, <1>8, <1>13 DEF Keeps
<1> QED BY <1>12, <1>17, <1>18, <1>19

\* A component that has just been made.
LEMMA FreshIsGood ==
  ASSUME NEW m \in PageSizes, NEW paged \in BOOLEAN, NEW due \in BOOLEAN,
         NEW t, t = Fresh(m, due)
  PROVE  Good(paged, t) /\ Awaited(t) /\ Flagged(t) /\ (t.due => Rests(paged, t))
<1>1. At(0, m, NoSearch) \in Query /\ At(0, m, NoSearch).search = NoSearch
  BY TableAssumption DEF At, Query
<1>2. /\ t \in Table /\ t.page = At(0, m, NoSearch) /\ t.loading = FALSE
      /\ t.selected = {} /\ t.rows = {} /\ t.flagged = {} /\ t.filteredData = Off
      /\ t.shared = FALSE /\ t.requests = {} /\ t.shown = At(0, m, NoSearch)
      /\ t.unPaginatedData = NotLoaded /\ t.due = due
  BY <1>1, TableAssumption DEF Fresh, Table, Cache, NotLoaded, Off
<1>3. PageOf({}, At(0, m, NoSearch))
  BY SliceFacts DEF PageOf
<1>4. OneRequest(t) /\ AsksPage(t) /\ NoCache(paged, t)
  BY <1>2 DEF OneRequest, AsksPage, NoCache, NotLoaded
<1>5. MemoFits(paged, t, t.page) /\ RowsFit(paged, t)
  BY <1>1, <1>2, <1>3 DEF MemoFits, RowsFit, Off
<1> QED BY <1>2, <1>4, <1>5 DEF Good, Awaited, Flagged, Rests

-----------------------------------------------------------------------------
(* The actions.                                                             *)

\* Dividing by a page size.
LEMMA DivFacts ==
  ASSUME NEW a \in Nat, NEW b \in Nat \ {0}
  PROVE  a \div b \in Nat /\ (a >= b => a \div b >= 1)
  OBVIOUS

LEMMA TimesFacts == ASSUME NEW a \in Nat, NEW b \in Nat PROVE a * b \in Nat
  OBVIOUS

\* What the toolbar computes for `first' is a number.
LEMMA ToolbarFacts ==
  ASSUME TableInv
  PROVE  /\ table.page.first \in Nat /\ table.page.max \in PageSizes
         /\ table.page.max \in Nat \ {0} /\ table.page.search \in Searches
         /\ Page \in Nat /\ Count \in Nat
<1>0. table.page \in Query
  BY DEF TableInv, Good, Table
<1>1. /\ table.page.first \in Nat /\ table.page.max \in PageSizes
      /\ table.page.max \in Nat \ {0} /\ table.page.search \in Searches
  <2>1. /\ table.page.first \in 0..MaxFirst /\ table.page.max \in PageSizes
        /\ table.page.search \in Searches
    BY <1>0 DEF Query
  <2>2. PageSizes \subseteq Nat \ {0} /\ 0..MaxFirst \subseteq Nat
    BY TableAssumption
  <2> QED BY <2>1, <2>2
<1>2. 2 * table.page.first + table.page.max \in Nat /\ 2 * table.page.max \in Nat \ {0}
  BY <1>1
<1>3. Page \in Nat
  BY <1>2, DivFacts DEF Page
<1>4. Data \subseteq Items
  BY DEF TableInv, Good, Table, Data
<1>5. Count \in Nat
  BY <1>4, TableAssumption, FS_Subset, FS_CardinalityType DEF Count
<1> QED BY <1>1, <1>3, <1>5

\* A step that turns the page, and leaves the rest of the table alone.
LEMMA TurnStep ==
  ASSUME TableInv, mounted, UNCHANGED <<kind, mounted>>, Outside',
         Turned(isPaginated, table, table')
  PROVE  TableInv' /\ (mounted' => table'.selected \ Data = table.selected \ Data)
<1>1. isPaginated' = isPaginated
  BY DEF isPaginated
<1>2. Rests(isPaginated, table)
  BY DEF TableInv
<1>3. /\ Good(isPaginated, table') /\ Awaited(table') /\ Flagged(table')
      /\ Rests(isPaginated, table') /\ table'.selected = table.selected
  BY <1>2 DEF Turned, TableInv
<1> QED BY <1>1, <1>3 DEF TableInv

LEMMA GoStep ==
  ASSUME TableInv, NEW f \in Nat, NEW m \in PageSizes, NEW s \in Searches, Go(f, m, s)
  PROVE  TableInv' /\ (mounted' => table'.selected \ Data = table.selected \ Data)
<1>1. At(f, m, s) \in Query
  BY TableAssumption DEF Go, At, Query
<1>2. table' = Render(table, [table EXCEPT !.page = At(f, m, s)], FALSE)
  BY DEF Go
<1>3. Turned(isPaginated, table, table')
  BY <1>1, <1>2, PageStep DEF TableInv
<1>4. mounted /\ UNCHANGED <<list, kind, mounted, acting>>
  BY DEF Go, ToolbarShown
<1>5. Outside'
  BY <1>4 DEF TableInv, Outside
<1> QED BY <1>3, <1>4, <1>5, TurnStep

\* A render of its own, for a new key or array, or for none.
LEMMA SamePage ==
  ASSUME Outside, NEW t, Good(isPaginated, t), NEW again \in BOOLEAN
  PROVE  Turned(isPaginated, t, Render(t, t, again))
<1>1. t \in Table /\ t.page \in Query
  BY DEF Good, Table
<1>2. [t EXCEPT !.page = t.page] = t
  BY <1>1 DEF Table
<1>3. Turned(isPaginated, t, Render(t, [t EXCEPT !.page = t.page], again))
  BY <1>1, PageStep
<1> QED BY <1>2, <1>3

LEMMA RunEffectsStep ==
  ASSUME TableInv, RunEffects
  PROVE  TableInv' /\ (mounted' => table'.selected \ Data = table.selected \ Data)
<1>1. Turned(isPaginated, table, table')
  BY SamePage DEF TableInv, RunEffects
<1>2. Outside'
  BY DEF TableInv, Outside, RunEffects
<1> QED BY <1>1, <1>2, TurnStep DEF RunEffects

LEMMA RowActionReturnsStep ==
  ASSUME TableInv, RowActionReturns
  PROVE  TableInv' /\ (mounted' => table'.selected \ Data = table.selected \ Data)
<1> DEFINE p     == [table.page EXCEPT !.search = NoSearch]
           found == IF isPaginated \/ table.page.search = NoSearch
                    THEN table
                    ELSE Render(table, [table EXCEPT !.page.search = NoSearch], FALSE)
<1>1. p \in Query /\ [table EXCEPT !.page.search = NoSearch] = [table EXCEPT !.page = p]
  BY TableAssumption DEF TableInv, Good, Table, Query
<1>2. Turned(isPaginated, table, found)
  <2>1. Turned(isPaginated, table, table)
    BY DEF Turned, TableInv
  <2>2. Turned(isPaginated, table, Render(table, [table EXCEPT !.page = p], FALSE))
    <3> HIDE DEF p
    <3> QED BY <1>1, PageStep DEF TableInv
  <2> HIDE DEF p
  <2> QED BY <1>1, <2>1, <2>2
<1> HIDE DEF found
<1>3. table' = Render(found, found, TRUE)
  BY DEF RowActionReturns, found
<1>4. Turned(isPaginated, found, table')
  BY <1>2, <1>3, SamePage DEF TableInv, Turned
<1>5. Turned(isPaginated, table, table')
  BY <1>2, <1>4 DEF Turned
<1>6. mounted /\ UNCHANGED <<list, kind, mounted>> /\ Outside'
  BY DEF TableInv, Outside, RowActionReturns
<1> QED BY <1>5, <1>6, TurnStep

LEMMA ListChangesStep ==
  ASSUME TableInv, NEW i \in Items, ListChanges(i)
  PROVE  TableInv' /\ (mounted' => table'.selected \ Data = table.selected \ Data)
<1>1. Turned(isPaginated, table, Render(table, table, TRUE)) /\ Turned(isPaginated, table, table)
  BY SamePage DEF TableInv, Turned
<1>2. Turned(isPaginated, table, table')
  BY <1>1 DEF ListChanges
<1>3. mounted /\ UNCHANGED <<kind, mounted>> /\ Outside'
  BY DEF TableInv, Outside, ListChanges
<1> QED BY <1>2, <1>3, TurnStep

LEMMA RowActionStep ==
  ASSUME TableInv, NEW i \in Items, RowAction(i)
  PROVE  TableInv' /\ (mounted' => table'.selected \ Data = table.selected \ Data)
<1>1. Turned(isPaginated, table, table')
  BY DEF Turned, TableInv, RowAction
<1>2. mounted /\ UNCHANGED <<kind, mounted>> /\ Outside'
  BY DEF TableInv, Outside, RowAction, TableShown
<1> QED BY <1>1, <1>2, TurnStep

\* A click: the flags are of rows that are shown.
LEMMA ClickStep ==
  ASSUME TableInv, mounted, NEW flags, flags \subseteq Data, NEW which \in {"one", "all"},
         OnSelect(flags, which), UNCHANGED <<list, kind, mounted, acting>>
  PROVE  TableInv' /\ (mounted' => table'.selected \ Data = table.selected \ Data)
<1>1. /\ Good(isPaginated, table') /\ Awaited(table') /\ Flagged(table')
      /\ Rests(isPaginated, table')
      /\ table'.selected \ Data = table.selected \ Data
  BY SelectStep DEF TableInv
<1>2. isPaginated' = isPaginated /\ Outside'
  BY DEF isPaginated, TableInv, Outside
<1> QED BY <1>1, <1>2 DEF TableInv

LEMMA FlagsFacts == ASSUME TableInv PROVE Flags \subseteq Data
  BY DEF TableInv, Good, RowsFit, MemoFits, Flags, Data

LEMMA SelectRowStep ==
  ASSUME TableInv, NEW i \in Items, SelectRow(i)
  PROVE  TableInv' /\ (mounted' => table'.selected \ Data = table.selected \ Data)
<1>1. Visible \subseteq Data
  BY DEF Visible, Part
<1>2. mounted /\ i \in Data
  BY <1>1 DEF SelectRow, TableShown
<1> DEFINE flags == IF i \in Flags THEN Flags \ {i} ELSE Flags \cup {i}
<1>3. flags \subseteq Data
  BY <1>2, FlagsFacts
<1>4. OnSelect(flags, "one") /\ UNCHANGED <<list, kind, mounted, acting>>
  BY DEF SelectRow
<1> HIDE DEF flags
<1> QED BY <1>2, <1>3, <1>4, ClickStep

LEMMA SelectAllStep ==
  ASSUME TableInv, NEW b \in BOOLEAN, SelectAll(b)
  PROVE  TableInv' /\ (mounted' => table'.selected \ Data = table.selected \ Data)
<1> DEFINE flags == IF b THEN Data ELSE {}
<1>1. flags \subseteq Data
  OBVIOUS
<1>2. mounted /\ OnSelect(flags, "all") /\ UNCHANGED <<list, kind, mounted, acting>>
  BY DEF SelectAll, TableShown
<1> HIDE DEF flags
<1> QED BY <1>1, <1>2, ClickStep

LEMMA ResolvedStep ==
  ASSUME TableInv, NEW r \in table.requests, Resolved(r)
  PROVE  TableInv' /\ (mounted' => table'.selected \ Data = table.selected \ Data)
<1> DEFINE t     == [table EXCEPT !.requests = @ \ {r}]
           items == IF r.data.loaded THEN r.data.items ELSE Answer(r.query)
<1>1. table \in Table /\ r \in Request /\ r.query \in Query /\ Outside
  BY DEF TableInv, Good, Table, Request
<1>2. mounted
  BY DEF TableInv
<1>3. /\ t \in Table /\ t.page = table.page /\ t.selected = table.selected
      /\ t.due = table.due /\ t.rows = table.rows /\ t.flagged = table.flagged
      /\ t.filteredData = table.filteredData /\ t.shared = table.shared
      /\ t.shown = table.shown /\ t.unPaginatedData = table.unPaginatedData
      /\ t.requests = table.requests \ {r}
  BY <1>1 DEF Table
<1>4. t.requests = {}
  BY <1>3 DEF TableInv, Good, OneRequest
<1>5. items \in SUBSET Items /\ (isPaginated => PageOf(items, r.query))
  <2>1. r.data.items \in SUBSET Items
    BY <1>1 DEF Request, Cache
  <2>2. isPaginated => ~r.data.loaded
    BY DEF TableInv, Good, NoCache
  <2>3. list \cap Hits[r.query.search] \subseteq Items
    BY <1>1 DEF Outside
  <2>4. Answer(r.query) \in SUBSET Items
    BY <1>1, <2>3, SliceFacts DEF Answer, Outside
  <2>5. isPaginated => PageOf(Answer(r.query), r.query)
    BY DEF Answer, PageOf
  <2> QED BY <2>1, <2>2, <2>4, <2>5
<1>6. ~t.due => r.query = t.page
  BY <1>3 DEF TableInv, Good, AsksPage
<1>7. table' = Callback(t, r, items) /\ UNCHANGED <<list, kind, mounted, acting>>
  BY DEF Resolved
<1> HIDE DEF t, items
<1>8. Good(isPaginated, t)
  <2>1. OneRequest(t) /\ AsksPage(t) /\ NoCache(isPaginated, t)
    BY <1>3, <1>4 DEF TableInv, Good, OneRequest, AsksPage, NoCache
  <2>2. MemoFits(isPaginated, t, t.page) /\ RowsFit(isPaginated, t)
    BY <1>3 DEF TableInv, Good, MemoFits, RowsFit
  <2> QED BY <1>3, <2>1, <2>2 DEF Good
<1>9. /\ Good(isPaginated, table') /\ table'.selected = t.selected
      /\ Awaited(table') /\ Flagged(table') /\ Rests(isPaginated, table')
  BY <1>1, <1>4, <1>5, <1>6, <1>7, <1>8, CallbackStep
<1>10. isPaginated' = isPaginated /\ Outside' /\ mounted'
  BY <1>2, <1>7 DEF isPaginated, TableInv, Outside
<1> QED BY <1>3, <1>9, <1>10 DEF TableInv

LEMMA GoneStep ==
  ASSUME TableInv, Gone PROVE TableInv' /\ ~mounted'
<1>1. table.page.max \in PageSizes
  BY ToolbarFacts
<1>2. table' = Fresh(table.page.max, FALSE)
  BY DEF Gone
<1>3. isPaginated \in BOOLEAN
  BY DEF isPaginated
<1>4. /\ Good(isPaginated, table') /\ Awaited(table') /\ Flagged(table')
  BY <1>1, <1>2, <1>3, FreshIsGood
<1>5. table'.requests = {}
  BY <1>2 DEF Fresh
<1>6. isPaginated' = isPaginated /\ Outside' /\ ~mounted'
  BY DEF Gone, isPaginated, TableInv, Outside
<1> QED BY <1>4, <1>5, <1>6 DEF TableInv

LEMMA TableInvInit == ASSUME Init PROVE TableInv
<1>1. PICK m \in PageSizes : table = Fresh(m, TRUE)
  BY DEF Init
<1>3. isPaginated \in BOOLEAN /\ table.due /\ mounted
  BY <1>1 DEF isPaginated, Fresh, Init
<1>4. /\ Good(isPaginated, table) /\ Awaited(table) /\ Flagged(table)
      /\ Rests(isPaginated, table)
  BY <1>1, <1>3, FreshIsGood
<1>5. Outside
  BY DEF Init, Outside
<1> QED BY <1>3, <1>4, <1>5 DEF TableInv

\* One step of the toolbar: the page it goes to is one.
LEMMA ToolbarStep ==
  ASSUME TableInv,
         \/ OnNextClick \/ OnPreviousClick
         \/ \E m \in PageSizes : OnPerPageSelect(m)
         \/ \E s \in Searches : SetSearch(s)
  PROVE  TableInv' /\ (mounted' => table'.selected \ Data = table.selected \ Data)
<1> USE ToolbarFacts
<1>1. CASE OnNextClick
  <2>1. (Page + 1) * table.page.max \in Nat
    BY TimesFacts
  <2> QED BY <1>1, <2>1, GoStep DEF OnNextClick
<1>2. CASE OnPreviousClick
  <2>1. Page > 0 => (Page - 1) * table.page.max \in Nat
    <3>1. Page > 0 => Page - 1 \in Nat
      OBVIOUS
    <3> QED BY <3>1, TimesFacts
  <2> QED BY <1>2, <2>1, GoStep DEF OnPreviousClick
<1>3. ASSUME NEW m \in PageSizes, OnPerPageSelect(m)
      PROVE  TableInv' /\ (mounted' => table'.selected \ Data = table.selected \ Data)
  <2> DEFINE last    == (Count + Page * table.page.max + m - 1) \div m
             newPage == IF Page + 1 < last THEN Page + 1 ELSE last
  <2>1. Count > 0 /\ Go(newPage - 1, m, table.page.search)
    BY <1>3 DEF OnPerPageSelect
  <2>2. m \in Nat \ {0} /\ Page * table.page.max \in Nat
    BY TableAssumption, TimesFacts
  <2> DEFINE sum == Count + Page * table.page.max + m - 1
  <2>3. sum \in Nat /\ sum >= m
    BY <2>1, <2>2
  <2> HIDE DEF sum
  <2>4. sum \div m \in Nat /\ sum \div m >= 1
    BY <2>2, <2>3, DivFacts
  <2>5. last \in Nat /\ last >= 1
    BY <2>4 DEF sum
  <2> HIDE DEF last
  <2>6. newPage - 1 \in Nat
    BY <2>5
  <2> HIDE DEF newPage
  <2> QED BY <2>1, <2>6, GoStep
<1>4. ASSUME NEW s \in Searches, SetSearch(s)
      PROVE  TableInv' /\ (mounted' => table'.selected \ Data = table.selected \ Data)
  BY <1>4, GoStep DEF SetSearch
<1> QED BY <1>1, <1>2, <1>3, <1>4

LEMMA TableInvStep ==
  ASSUME TableInv, [Next]_vars
  PROVE  TableInv' /\ (mounted' => table'.selected \ Data = table.selected \ Data)
<1>1. CASE User
  <2>1. ASSUME NEW i \in Items, SelectRow(i) \/ RowAction(i)
        PROVE  TableInv' /\ (mounted' => table'.selected \ Data = table.selected \ Data)
    BY <2>1, SelectRowStep, RowActionStep
  <2>2. ASSUME NEW b \in BOOLEAN, SelectAll(b)
        PROVE  TableInv' /\ (mounted' => table'.selected \ Data = table.selected \ Data)
    BY <2>2, SelectAllStep
  <2> QED BY <1>1, <2>1, <2>2, ToolbarStep, RowActionReturnsStep DEF User
<1>2. CASE RunEffects
  BY <1>2, RunEffectsStep
<1>3. CASE Network
  <2>1. PICK r \in table.requests : Resolved(r) \/ Rejected(r)
    BY <1>3 DEF Network
  <2> QED BY <2>1, ResolvedStep, GoneStep DEF Rejected
<1>4. CASE Unmount
  BY <1>4, GoneStep DEF Unmount
<1>5. ASSUME NEW i \in Items, ListChanges(i)
      PROVE  TableInv' /\ (mounted' => table'.selected \ Data = table.selected \ Data)
  BY <1>5, ListChangesStep
<1>6. CASE UNCHANGED vars
  BY <1>6 DEF vars, TableInv, Outside, Good, OneRequest, AsksPage, NoCache, MemoFits,
             RowsFit, Awaited, Flagged, Rests, isPaginated
<1> QED BY <1>1, <1>2, <1>3, <1>4, <1>5, <1>6 DEF Next

-----------------------------------------------------------------------------
(* Theorems.                                                                *)

\* The invariant, of which the rest is a consequence.
THEOREM TableInvHolds == Spec => []TableInv
<1>1. Init => TableInv
  BY TableInvInit
<1>2. TableInv /\ [Next]_vars => TableInv'
  BY TableInvStep
<1> QED BY <1>1, <1>2, PTL DEF Spec

\* The state of the table (KeycloakDataTable.tsx:205-222) keeps its types.
THEOREM TypeCorrect == Spec => []TypeOK
<1>1. TableInv => TypeOK
  BY DEF TableInv, Outside, Good, RowsFit, TypeOK
<1> QED BY <1>1, TableInvHolds, PTL

\* The spinner that the effect turns on (KeycloakDataTable.tsx:315) always has a request
\* that will end it, though answers are taken between a commit and its effect.
THEOREM SpinnerEndsHolds == Spec => []SpinnerEnds
<1>1. TableInv => SpinnerEnds
  BY DEF TableInv, Good, OneRequest, Awaited, SpinnerEnds
<1> QED BY <1>1, TableInvHolds, PTL

\* At rest, the rows are those of the toolbar's page, page size and search
\* (KeycloakDataTable.tsx:281-340).
THEOREM PageShownHolds == Spec => []PageShown
<1>1. ASSUME TableInv, AtRest PROVE PageShown
  <2>1. /\ Good(isPaginated, table) /\ Awaited(table) /\ Rests(isPaginated, table)
        /\ ~table.due /\ table.requests = {}
    BY <1>1 DEF TableInv, AtRest
  <2>2. ~table.loading
    BY <2>1 DEF Awaited
  <2>3. IF isPaginated THEN table.shown = table.page
        ELSE /\ table.filteredData.on \/ table.rows = Slice(table.unPaginatedData.items, table.page)
             /\ table.page.first = 0 \/ table.page.first < Cardinality(table.unPaginatedData.items)
    BY <2>1 DEF Rests
  <2>4. PageOf(Data, table.page)
    <3>1. CASE table.filteredData.on
      BY <2>1, <3>1 DEF Good, MemoFits, Data
    <3>2. CASE ~table.filteredData.on /\ isPaginated
      BY <2>1, <2>3, <3>2 DEF Good, RowsFit, Data
    <3>3. CASE ~table.filteredData.on /\ ~isPaginated
      <4>1. table.page.search = NoSearch
        BY <2>1, <3>3 DEF Good, MemoFits
      <4>2. table.unPaginatedData.items \in SUBSET Hits[table.page.search]
        BY <2>1, <4>1, TableAssumption DEF Good, Table, Cache
      <4> QED BY <2>3, <3>3, <4>2 DEF PageOf, Data
    <3> QED BY <3>1, <3>2, <3>3
  <2> QED BY <2>2, <2>3, <2>4 DEF PageShown, PageOf
<1>2. TableInv => PageShown
  BY <1>1 DEF PageShown
<1> QED BY <1>2, TableInvHolds, PTL

\* The flags of the rows (KeycloakDataTable.tsx:246, 367, 372) are the selection that
\* onSelect was given.
THEOREM CheckboxesAreTrueHolds == Spec => []CheckboxesAreTrue
<1>1. ASSUME TableInv, TableShown, ~table.due, NEW i \in Data
      PROVE  \/ i \in Flags <=> i \in table.selected
             \/ i \in table.behind /\ ~table.filteredData.on
  <2>1. CASE table.filteredData.on
    <3>1. Flags = Data \cap table.selected
      BY <1>1, <2>1 DEF TableInv, Good, MemoFits, Data, Flags
    <3> QED BY <1>1, <3>1
  <2>2. CASE ~table.filteredData.on
    <3>1. Flags \ table.behind = (Data \cap table.selected) \ table.behind
      BY <1>1, <2>2 DEF TableInv, Flagged, TableShown, Data, Flags
    <3> QED BY <1>1, <2>2, <3>1
  <2> QED BY <2>1, <2>2
<1>2. TableInv => CheckboxesAreTrue
  BY <1>1 DEF CheckboxesAreTrue
<1> QED BY <1>2, TableInvHolds, PTL

\* Nothing but a click on a row of the page selects or deselects it
\* (KeycloakDataTable.tsx:377-382).
THEOREM SelectionKeptHolds == Spec => SelectionKept
<1>1. TableInv /\ [Next]_vars =>
        [mounted' => table'.selected \ Data = table.selected \ Data]_vars
  BY TableInvStep
<1> QED BY <1>1, TableInvHolds, PTL DEF Spec, SelectionKept
=============================================================================
