-------------------------- MODULE KeycloakDataTable --------------------------
(***************************************************************************)
(* The table of the admin console (KeycloakDataTable.tsx with the toolbar  *)
(* PaginatingTableToolbar.tsx and useFetch of AdminClient.tsx): paging,    *)
(* searching, selecting, row actions and refreshing, while answers of the  *)
(* loader come late, out of order or not at all, and others change the     *)
(* list on the server.                                                     *)
(*                                                                         *)
(* The console is rendered with the `render' of before React 18            *)
(* (main.tsx:19).  So the effects of a commit are not run with it but some *)
(* time later, at the latest before the next render; and outside of a      *)
(* handler of React every setState is a render of its own.  `Render' is    *)
(* one render with its commit, and `due' says that its effect is to come.  *)
(*                                                                         *)
(* An item is a number, and lists are ordered by it: a page is a set.  A   *)
(* table is paginated by its loader ("pages"), or gets the whole list,     *)
(* from a loader ("once") or as a property ("array").                      *)
(* Detail columns, disabled rows and searches of the caller (isSearching)  *)
(* are left out, as is the page size that is stored for the next table.    *)
(***************************************************************************)
EXTENDS Integers, FiniteSets

CONSTANTS
  Items,        \* what may be on the list
  Hits,         \* Hits[s]: the items that match the search s
  PageSizes,    \* what the toolbar offers
  MaxFirst      \* bound on `first'

NoSearch == ""
Searches == DOMAIN Hits

ASSUME TableAssumption ==
  /\ Items \subseteq Nat /\ IsFiniteSet(Items)
  /\ Hits \in [Searches -> SUBSET Items]
  /\ NoSearch \in Searches /\ Hits[NoSearch] = Items
  /\ PageSizes \subseteq Nat \ {0}
  /\ MaxFirst \in Nat

VARIABLES
  list,      \* external: the items on the server, or in the property
  kind,      \* "pages": isPaginated; "once", "array": what the loader is
  mounted,
  acting,    \* onRowClick of a row action is awaited
  table      \* the component: its state, as committed, and its requests

vars == <<list, kind, mounted, acting, table>>

(***************************************************************************)
(* The fields of `table'.                                                  *)
(*   page             the state `first', `max' and `search'                *)
(*   loading, unPaginatedData, selected                                    *)
(*   rows, flagged    the state `rows', and those with `selected' set      *)
(*   filteredData     the memo of the search: used when `on'               *)
(*   shared           `rows' holds the row objects of filteredData         *)
(*   due              the dependencies of useFetch changed in the last     *)
(*                    commit, and its effect has not run                   *)
(*   prevSearch                                                            *)
(*   requests         the calls that useFetch awaits; nothing is done with *)
(*                    what an aborted one comes to, so it is not kept      *)
(*   shown            history: the query `rows' answers                    *)
(*   behind           history: the items that were (de)selected after the  *)
(*                    request that brought `rows' was made                 *)
(***************************************************************************)

isPaginated == kind = "pages"

Query == [first : 0..MaxFirst, max : PageSizes, search : Searches]
At(f, m, s) == [first |-> f, max |-> m, search |-> s]

Cache == [loaded : BOOLEAN, items : SUBSET Items]
NotLoaded == [loaded |-> FALSE, items |-> {}]
Loaded(items) == [loaded |-> TRUE, items |-> items]
Off == [on |-> FALSE, rows |-> {}, flagged |-> {}]

\* A call of adminClientCall: what it asks for and, if the data are at hand, what it
\* resolves with at once; and the selection that its callback knows.
Request == [query : Query, data : Cache, selected : SUBSET Items]

Table ==
  [page : Query, loading : BOOLEAN, unPaginatedData : Cache, selected : SUBSET Items,
   rows : SUBSET Items, flagged : SUBSET Items,
   filteredData : [on : BOOLEAN, rows : SUBSET Items, flagged : SUBSET Items],
   shared : BOOLEAN, due : BOOLEAN, prevSearch : Searches, requests : SUBSET Request,
   shown : Query, behind : SUBSET Items]

-----------------------------------------------------------------------------
Rank(S, i) == Cardinality({j \in S : j < i})
Part(S, from, size) == {i \in S : from <= Rank(S, i) /\ Rank(S, i) < from + size}

\* A page and one row more, which tells the toolbar that there is another page.
Slice(S, q) == Part(S, q.first, q.max + 1)

Data == IF table.filteredData.on THEN table.filteredData.rows ELSE table.rows
Flags == IF table.filteredData.on THEN table.filteredData.flagged ELSE table.flagged
Visible == Part(Data, 0, table.page.max)

\* Promises whose data are at hand go on before anything else happens.
Microtask == \E r \in table.requests : r.data.loaded

TableShown   == mounted /\ ~table.loading /\ Data # {}
ToolbarShown == mounted /\ (table.loading \/ Data # {} \/ table.page.search # NoSearch)

-----------------------------------------------------------------------------
(* Rendering.                                                               *)

\* Mutant of Abort: the cleanup of the effect is missing.
Abort_Not(rs) == rs

\* The cleanup of useFetch: then() and catch() of an aborted call do nothing.
Abort(rs) == {}

NewSearch(t) == t.prevSearch = NoSearch /\ t.page.search # NoSearch

\* The data that adminClientCall has without calling the loader.
AtHand(t) == IF kind = "array" THEN Loaded(list) ELSE t.unPaginatedData

\* What the effect of the committed state t calls.
Asked(t) ==
  [query    |-> IF NewSearch(t) /\ isPaginated THEN [t.page EXCEPT !.first = 0] ELSE t.page,
   data     |-> AtHand(t),
   selected |-> t.selected]

\* The effect of useFetch, after the commit of t; what it sets is added to what the
\* next render gets.
Effect(t, next) ==
  [next EXCEPT !.requests = Abort(@) \cup {Asked(t)},
               !.prevSearch = t.page.search,
               !.loading = TRUE,
               !.page.first = IF NewSearch(t) THEN 0 ELSE @]

\* useMemo: search the cached data, of which there may be none yet.
Filter(t) ==
  IF isPaginated \/ t.page.search = NoSearch
  THEN Off
  ELSE LET found == Slice(t.unPaginatedData.items \cap Hits[t.page.search], t.page)
       IN [on |-> TRUE, rows |-> found, flagged |-> found \cap t.selected]

\* Mutant of Memo: it does not follow the page.
Memo_SearchOnly(t, next) ==
  IF next.page.search = t.page.search THEN next.filteredData ELSE Filter(next)

Memo(t, next) == IF next.page = t.page THEN next.filteredData ELSE Filter(next)

\* The effect of the commit before is run first.
Flushed(t, next) == [IF t.due THEN Effect(t, next) ELSE next EXCEPT !.due = FALSE]

(***************************************************************************)
(* The component has committed t, and its state was set to `next': a       *)
(* render and a commit.  `again' when key or array, the other dependencies *)
(* of useFetch, are new.                                                   *)
(***************************************************************************)
Render(t, next, again) ==
  LET new == Flushed(t, next)
  IN [new EXCEPT !.due = again \/ new.page # t.page,
                 !.filteredData = Memo(t, new),
                 !.shared = @ /\ new.page = t.page]

\* The state that the first render gives the component.
Fresh(m, due) ==
  [page |-> At(0, m, NoSearch), loading |-> FALSE, unPaginatedData |-> NotLoaded,
   selected |-> {}, rows |-> {}, flagged |-> {}, filteredData |-> Off,
   shared |-> FALSE, due |-> due, prevSearch |-> NoSearch, requests |-> {},
   shown |-> At(0, m, NoSearch), behind |-> {}]

\* The table is mounted; the effect of its first render is to come.
Init ==
  /\ list \in SUBSET Items
  /\ kind \in {"pages", "once", "array"}
  /\ mounted = TRUE /\ acting = FALSE
  /\ \E m \in PageSizes : table = Fresh(m, TRUE)

\* React gets to the effects, or something else on the page is rendered.
RunEffects ==
  /\ mounted /\ table.due /\ ~Microtask
  /\ table' = Render(table, table, FALSE)
  /\ UNCHANGED <<list, kind, mounted, acting>>

-----------------------------------------------------------------------------
(* The toolbar.                                                             *)

\* Math.round(first / max)
Page == (2 * table.page.first + table.page.max) \div (2 * table.page.max)
Count == Cardinality(Data)

Go(f, m, s) ==
  /\ ~Microtask /\ ToolbarShown
  /\ f <= MaxFirst /\ At(f, m, s) # table.page
  /\ table' = Render(table, [table EXCEPT !.page = At(f, m, s)], FALSE)
  /\ UNCHANGED <<list, kind, mounted, acting>>

OnNextClick ==
  Count > table.page.max /\ Go((Page + 1) * table.page.max, table.page.max, table.page.search)

OnPreviousClick ==
  Page > 0 /\ Go((Page - 1) * table.page.max, table.page.max, table.page.search)

\* The pager passes the page on which it goes on, and the toolbar takes one less
\* than its number for `first'.
OnPerPageSelect(m) ==
  /\ Count > 0
  /\ LET last == (Count + Page * table.page.max + m - 1) \div m
         newPage == IF Page + 1 < last THEN Page + 1 ELSE last
     IN Go(newPage - 1, m, table.page.search)

SetSearch(s) == Go(table.page.first, table.page.max, s)

-----------------------------------------------------------------------------
(* The rows.                                                                *)

\* Mutant of Kept: only what is on the page stays selected.
Kept_None(data) == {}

\* differenceBy: what was selected on other pages.
Kept(data) == table.selected \ data

\* _onSelect, for one row or for all (the hidden row is one of all): the row objects
\* are changed in their place, so `rows' follows when it holds the same.
OnSelect(flags, rows) ==
  LET on == table.filteredData.on
      same == rows = "all" \/ table.shared \/ ~on
  IN table' = Render(table,
       [table EXCEPT
         !.selected = Kept(Data) \cup flags,
         !.filteredData = IF on THEN [@ EXCEPT !.flagged = flags] ELSE @,
         !.rows = IF rows = "all" THEN Data ELSE @,
         !.flagged = IF same THEN flags ELSE @,
         !.shared = on /\ same,
         !.behind = IF same THEN {} ELSE @], FALSE)

SelectRow(i) ==
  /\ ~Microtask /\ TableShown /\ i \in Visible
  /\ OnSelect(IF i \in Flags THEN Flags \ {i} ELSE Flags \cup {i}, "one")
  /\ UNCHANGED <<list, kind, mounted, acting>>

SelectAll(isSelected) ==
  /\ ~Microtask /\ TableShown
  /\ OnSelect(IF isSelected THEN Data ELSE {}, "all")
  /\ UNCHANGED <<list, kind, mounted, acting>>

\* convertAction: onRowClick deletes the item and resolves with true.  Where the
\* list is a property, the parent changes it (ListChanges).
RowAction(i) ==
  /\ ~Microtask /\ TableShown /\ i \in Visible /\ ~acting
  /\ acting' = TRUE
  /\ list' = IF kind = "array" THEN list ELSE list \ {i}
  /\ UNCHANGED <<kind, mounted, table>>

\* What follows the await: setSearch("") and refresh(), a render each.
RowActionReturns ==
  /\ ~Microtask /\ acting /\ mounted
  /\ acting' = FALSE
  /\ LET found == IF isPaginated \/ table.page.search = NoSearch
                  THEN table
                  ELSE Render(table, [table EXCEPT !.page.search = NoSearch], FALSE)
     IN table' = Render(found, found, TRUE)
  /\ UNCHANGED <<list, kind, mounted>>

-----------------------------------------------------------------------------
(* The answers.                                                             *)

\* External: the server's answer, a page or, not paginated, the list.
Answer(q) == IF isPaginated THEN Slice(list \cap Hits[q.search], q) ELSE list

Changed(S, T) == (S \ T) \cup (T \ S)

\* Mutants of Columns: what is selected is forgotten; the flags of before are kept.
Columns_Unflagged(t, r, items) ==
  [t EXCEPT !.rows = items, !.flagged = {}, !.shared = FALSE,
            !.shown = r.query, !.behind = Changed(r.selected, t.selected)]

Columns_OldFlags(t, r, items) ==
  [t EXCEPT !.rows = items, !.shared = FALSE,
            !.shown = r.query, !.behind = Changed(r.selected, t.selected)]

\* convertToColumns, with the selection of the render that made the request.
Columns(t, r, items) ==
  [t EXCEPT !.rows = items, !.flagged = items \cap r.selected, !.shared = FALSE,
            !.shown = r.query, !.behind = Changed(r.selected, t.selected)]

\* setRows(convertToColumns(..)) and setLoading(false), a render each.
Shown(t, r, items) ==
  LET filled == Render(t, Columns(t, r, items), FALSE)
  IN Render(filled, [filled EXCEPT !.loading = FALSE], FALSE)

\* Mutant of Cut: a page beyond the end is kept.
Cut_Kept(t, r, items) == Shown(t, r, Slice(items, r.query))

\* The page is cut out of all the data, or `first' set to 0 and all the rows shown.
Cut(t, r, items) ==
  IF Cardinality(items) > r.query.first
  THEN Shown(t, r, Slice(items, r.query))
  ELSE Shown(Render(t, [t EXCEPT !.page.first = 0], FALSE), r, items)

\* The callback of useFetch.
Callback(t, r, items) ==
  IF isPaginated
  THEN Shown(t, r, items)
  ELSE Cut(Render(t, [t EXCEPT !.unPaginatedData = Loaded(items)], FALSE), r, items)

\* then() of useFetch.
Resolved(r) ==
  /\ r.data.loaded \/ ~Microtask
  /\ LET items == IF r.data.loaded THEN r.data.items ELSE Answer(r.query)
     IN table' = Callback([table EXCEPT !.requests = @ \ {r}], r, items)
  /\ UNCHANGED <<list, kind, mounted, acting>>

\* The table goes, its requests are aborted and its state is thrown away.
Gone ==
  /\ mounted' = FALSE /\ acting' = FALSE
  /\ table' = Fresh(table.page.max, FALSE)
  /\ UNCHANGED <<list, kind>>

\* catch() of useFetch: the error boundary takes the place of the table.
Rejected(r) == ~Microtask /\ Gone

Unmount == ~Microtask /\ mounted /\ Gone

\* External: somebody else adds or removes an item.  Once the loader is not called any
\* more, changes do not reach its table; a new array is a new dependency of useFetch.
ListChanges(i) ==
  /\ ~Microtask /\ mounted
  /\ kind = "once" => (~table.unPaginatedData.loaded \/ table.requests # {})
  /\ list' = IF i \in list THEN list \ {i} ELSE list \cup {i}
  /\ table' = IF kind = "array" THEN Render(table, table, TRUE) ELSE table
  /\ UNCHANGED <<kind, mounted, acting>>

User ==
  \/ OnNextClick \/ OnPreviousClick
  \/ \E m \in PageSizes : OnPerPageSelect(m)
  \/ \E s \in Searches : SetSearch(s)
  \/ \E i \in Items : SelectRow(i) \/ RowAction(i)
  \/ \E b \in BOOLEAN : SelectAll(b)
  \/ RowActionReturns

Network == \E r \in table.requests : Resolved(r) \/ Rejected(r)

Next == User \/ RunEffects \/ Network \/ Unmount \/ \E i \in Items : ListChanges(i)

Spec == Init /\ [][Next]_vars

-----------------------------------------------------------------------------
(* Properties.                                                              *)

\* Every variable stays in the range the code gives it, and only rows are flagged.
TypeOK ==
  /\ list \subseteq Items /\ kind \in {"pages", "once", "array"}
  /\ mounted \in BOOLEAN /\ acting \in BOOLEAN
  /\ table \in Table /\ table.flagged \subseteq table.rows

\* One request at most is waited for, and the spinner never turns without one that
\* will stop it, whatever answers are taken between a commit and its effect.  (The
\* spinner may stop too early: an answer of before, taken in that gap, turns off
\* the one that the effect has just turned on.)
SpinnerEnds ==
  /\ \A q, r \in table.requests : q = r
  /\ table.loading => table.requests # {}

AtRest == mounted /\ ~table.due /\ table.requests = {}

\* A table at rest, with no effect to come and no answer awaited, shows the page, page
\* size and search of its toolbar, whatever came in between: what it shows is that page
\* of some of the hits; and one that is not paginated does not stand beyond its data.
PageShown ==
  AtRest =>
    /\ ~table.loading
    /\ \E found \in SUBSET Hits[table.page.search] : Data = Slice(found, table.page)
    /\ IF isPaginated THEN table.shown = table.page
       ELSE /\ table.filteredData.on \/ table.rows = Slice(table.unPaginatedData.items, table.page)
            /\ table.page.first = 0 \/ table.page.first < Cardinality(table.unPaginatedData.items)

\* The checkboxes show what onSelect has reported, on every page, under every search
\* and after every refresh, but for the moment before an effect; and a row that is
\* clicked between a request and its answer may show what it was before.
CheckboxesAreTrue ==
  (TableShown /\ ~table.due) =>
    \A i \in Data : \/ i \in Flags <=> i \in table.selected
                    \/ i \in table.behind /\ ~table.filteredData.on

\* "Keeps selected items when paginating" (KeycloakDataTable.tsx:377): nothing but
\* a click on a row of the page selects or deselects it.
SelectionKept == [][mounted' => table'.selected \ Data = table.selected \ Data]_vars
=============================================================================
