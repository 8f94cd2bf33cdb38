---------------------------- MODULE ExecutionList ----------------------------
(***************************************************************************)
(* execution-model.ts: the rows of an authentication flow, as the server   *)
(* lists them with level and index, turned into a tree of executions, and  *)
(* the change that a row dropped at another place asks for.                *)
(*                                                                         *)
(* Rows are named by their place, and a tree gives each its executionList: *)
(* tree[i] is the sequence of the rows directly below row i, empty for a   *)
(* row without executionList, and tree[0] the one of the flow itself.      *)
(***************************************************************************)
EXTENDS Integers, Sequences, SequencesExt

Levels(rows) == {-1} \cup {rows[i].level : i \in DOMAIN rows}

HasChild(rows, i) == i < Len(rows) /\ rows[i].level < rows[i + 1].level

\* Mutant of Transform: the row after a sub-flow is left out, the index is not stepped back.
Transform_SkipsRow(rows) ==
  LET T[at \in (1..Len(rows) + 1) \X Levels(rows)] ==
        IF at[1] > Len(rows) THEN [list |-> <<>>, next |-> at[1]]
        ELSE IF rows[at[1]].level <= at[2] THEN [list |-> <<>>, next |-> at[1] + 1]
        ELSE LET i    == at[1]
                 next == IF HasChild(rows, i) THEN T[<<i + 1, rows[i].level>>].next ELSE i + 1
                 rest == T[<<next, at[2]>>]
             IN [list |-> <<i>> \o rest.list, next |-> rest.next]
  IN T

\* transformToExpandableList from the row at[1] on, inside a row of the level at[2]: the
\* rows that go into its list, and the first that does not.
Transform(rows) ==
  LET T[at \in (1..Len(rows) + 1) \X Levels(rows)] ==
        IF at[1] > Len(rows) \/ rows[at[1]].level <= at[2] THEN [list |-> <<>>, next |-> at[1]]
        ELSE LET i    == at[1]
                 next == IF HasChild(rows, i) THEN T[<<i + 1, rows[i].level>>].next ELSE i + 1
                 rest == T[<<next, at[2]>>]
             IN [list |-> <<i>> \o rest.list, next |-> rest.next]
  IN T

Expandable(rows) ==
  [i \in 0..Len(rows) |->
     IF i = 0 THEN Transform(rows)[<<1, -1>>].list
     ELSE IF HasChild(rows, i) THEN Transform(rows)[<<i + 1, rows[i].level>>].list
     ELSE <<>>]

\* order, from the place at[2] in the list of row at[1] on: the rows from top to bottom
\* without those of the sub-flows in `collapsed'.
Order(rows, collapsed) ==
  LET tree == Expandable(rows)
      O[at \in (0..Len(rows)) \X (1..Len(rows) + 1)] ==
        IF at[2] > Len(tree[at[1]]) THEN <<>>
        ELSE LET i == tree[at[1]][at[2]]
             IN <<rows[i]>> \o (IF rows[i].id \in collapsed THEN <<>> ELSE O[<<i, 1>>])
                            \o O[<<at[1], at[2] + 1>>]
  IN O[<<0, 1>>]

NoParent == "none"

\* getParentNodes: the first row with rows below it that is one level up.
ParentNode(rows, level) ==
  LET parents == {i \in DOMAIN rows : HasChild(rows, i) /\ rows[i].level + 1 = level}
  IN IF parents = {} THEN NoParent ELSE rows[CHOOSE i \in parents : \A j \in parents : i <= j].id

Find(list, id) == CHOOSE i \in DOMAIN list : list[i].id = id

\* Mutant of GetChange: the place is looked up in the order that was drawn.
GetChange_DrawnPlace(rows, collapsed, id, place) ==
  LET order == Order(rows, collapsed)
      old   == order[Find(order, id)]
  IN [level |-> FALSE, old |-> old.index, new |-> place - 1, parent |-> NoParent]

\* getChange: what the row that stands at the place of the drop tells about it.  The
\* parent comes from the flat list, whose rows have no executionList: the change into a
\* sub-flow counts from 0, although the server appends.
GetChange(rows, collapsed, id, place) ==
  LET order == Order(rows, collapsed)
      old   == order[Find(order, id)]
      new   == order[place]
  IN IF new.level = old.level
     THEN [level |-> FALSE, old |-> old.index, new |-> new.index, parent |-> NoParent]
     ELSE [level |-> TRUE, new |-> new.index,
           old    |-> IF new.level > 0 THEN 0 ELSE Len(Expandable(rows)[0]),
           parent |-> IF new.level > 0 THEN ParentNode(rows, new.level) ELSE NoParent]
=============================================================================
