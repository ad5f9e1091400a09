----------------------------- MODULE TablePage -----------------------------
(***************************************************************************)
(* A page of the web console with an editable table: js/core/gt_table.js,  *)
(* over the remote calls of js/core/gt_base.js, as book_list.html of the   *)
(* demo sets it up: a query form, page buttons, and buttons that add,      *)
(* update and remove a row (the pages of arMgr use subsets of these).      *)
(*                                                                         *)
(* The page has one thread, and a remote call blocks it, so a handler is   *)
(* one step; what other administrators do to the table of the service      *)
(* happens between the steps.  A row of the table is an object, which the  *)
(* table, the form and the dialog share: rows are cells of a heap.  What   *)
(* the browser shows of a row is what was in it when it was drawn.         *)
(***************************************************************************)
EXTENDS Integers, SequencesExt

CONSTANTS
    Title,         \* what a book can be called
    NoTitle,       \* the name of a book nobody has named; as a filter: no filter
    RowsPerPage,   \* Pagination.rowsPerPage
    MaxOid,        \* bound: books ever inserted
    MaxDialogs,    \* bound: how often the dialog is opened
    AddRow,        \* where handleActions put the object every addition edits
    MaxTrouble     \* bound: writes of other administrators, and calls that go wrong

ASSUME TablePageAssumption ==
    /\ NoTitle \notin Title
    /\ RowsPerPage \in Nat \ {0}
    /\ MaxOid \in Nat /\ MaxDialogs \in Nat /\ MaxTrouble \in Nat
    /\ AddRow = 0

VARIABLES
    books,       \* the table of the service: oid -> title
    nextOid,     \* the key of the next book inserted
    ready,       \* autoLoad is done and the handlers are bound
    rows,        \* GTable.rows
    heap,        \* the row objects
    drawn,       \* the rows of the DOM, in order: the object and what is shown
    selected,    \* SelectionModel.selectedIndices, positions from 1
    pagination,  \* FspParameter.pagination: startIndex and totalCount
    filter,      \* FspParameter.filterGroup
    buttons,     \* which page buttons are enabled
    options,     \* how many pages the list of pages offers
    dialog,      \* the edit dialog
    trouble,     \* how often another administrator has written or a call gone wrong
    since,       \* for the properties: who has written since the last load
    loaded       \* for the properties: the keys of the last load

server == <<books, nextOid>>
table  == <<rows, heap, drawn, selected, loaded>>
paging == <<pagination, filter, buttons, options>>
vars   == <<server, ready, table, paging, dialog, trouble, since>>

NoOid == 0
Oid   == 1 .. MaxOid

Name == Title \cup {NoTitle}

Row == [oid : Oid \cup {NoOid}, title : Name]

BlankRow == [oid |-> NoOid, title |-> NoTitle]

\* The objects that can be alive at once: a page, the one that is added, and
\* the one the dialog holds.
Cell == 0 .. RowsPerPage + 1

\* A write that is carried out is answered, or its answer is lost; one that
\* fails before it throws, and the handler has changed nothing.
Outcome == {"ok", "lost"}

Trouble == trouble < MaxTrouble /\ trouble' = trouble + 1

\* What addRow and updateRow hand to the dialog: window.__editingParams.
Params == [action : {"add", "update"}, row : Cell, index : Nat]
NoParams == [action |-> "none", row |-> AddRow, index |-> 0]

\* The members of a finite set of numbers in ascending order.
Ascending(S) ==
    CHOOSE seq \in [1 .. Cardinality(S) -> S] :
        \A i, j \in 1 .. Cardinality(S) : i < j => seq[i] < seq[j]

-----------------------------------------------------------------------------
(* BookService. *)

\* list, as FspParameterUtils.query answers it: the keys that match, in order.
Matching(f) ==
    Ascending({o \in DOMAIN books : f = NoTitle \/ books[o] = f})

Slice(list, start) ==
    SubSeq(list, start + 1, Min({start + RowsPerPage, Len(list)}))

Insert(title) ==
    /\ nextOid <= MaxOid
    /\ books' = [o \in DOMAIN books \cup {nextOid} |->
                    IF o = nextOid THEN title ELSE books[o]]
    /\ nextOid' = nextOid + 1

\* update and delete answer false, and do nothing, when there is no such book.
Update(row) ==
    /\ books' = [o \in DOMAIN books |-> IF o = row.oid THEN row.title ELSE books[o]]
    /\ UNCHANGED nextOid

Delete(row) ==
    /\ books' = [o \in DOMAIN books \ {row.oid} |-> books[o]]
    /\ UNCHANGED nextOid

-----------------------------------------------------------------------------
(* Pagination. *)

HasNextPage(p)  == p.totalCount < 0 \/ p.startIndex + RowsPerPage < p.totalCount
HasPrevPage(p)  == p.totalCount = -1 \/ p.startIndex > 0
HasFirstPage(p) == p.startIndex > 0
HasLastPage(p)  == p.totalCount # -1 /\ p.startIndex + RowsPerPage < p.totalCount

EnabledButtons(p) ==
    {a \in {"nextPage", "prevPage", "firstPage", "lastPage"} :
        \/ a = "nextPage" /\ HasNextPage(p)
        \/ a = "prevPage" /\ HasPrevPage(p)
        \/ a = "firstPage" /\ HasFirstPage(p)
        \/ a = "lastPage" /\ HasLastPage(p)}

\* Slip: the next page begins one row too late.
StartAfterSkipping(p, action) ==
    CASE action = "nextPage" -> p.startIndex + RowsPerPage + 1
      [] action = "prevPage" -> Max({p.startIndex - RowsPerPage, 0})
      [] action = "firstPage" -> 0
      [] action = "lastPage"  -> p.startIndex

\* lastPage computes where the last page begins and does not go there.
StartAfter(p, action) ==
    CASE action = "nextPage" ->
             IF HasNextPage(p) THEN p.startIndex + RowsPerPage ELSE p.startIndex
      [] action = "prevPage" ->
             IF HasPrevPage(p) THEN Max({p.startIndex - RowsPerPage, 0}) ELSE p.startIndex
      [] action = "firstPage" -> 0
      [] action = "lastPage"  -> p.startIndex

PageCount(p) ==
    IF p.totalCount <= 0 THEN p.totalCount
    ELSE (p.totalCount + RowsPerPage - 1) \div RowsPerPage

ResetPagination == [startIndex |-> 0, totalCount |-> -1]

-----------------------------------------------------------------------------
(* The table: GTable with the TableBuilder under it. *)

\* The cells that a load may not reuse.
Held == {AddRow, dialog.first.row}

\* reload: the rows of the answer replace the rows of the table.
Reload(keys) ==
    LET cells == SubSeq(Ascending(Cell \ Held), 1, Len(keys))
        row(c) == LET k == keys[CHOOSE i \in DOMAIN cells : cells[i] = c]
                  IN [oid |-> k, title |-> books[k]]
    IN /\ rows' = cells
       /\ heap' = [c \in Cell |-> IF c \in Held THEN heap[c]
                                  ELSE IF c \in Range(cells) THEN row(c)
                                  ELSE BlankRow]
       /\ drawn' = [i \in DOMAIN cells |-> [cell |-> cells[i], shown |-> row(cells[i])]]
       /\ selected' = {}
       /\ loaded' = Range(keys)

\* appendRow: the row goes last, in the table and on the screen, and is selected.
AppendRow(c) ==
    /\ rows' = Append(rows, c)
    /\ drawn' = Append(drawn, [cell |-> c, shown |-> heap[c]])
    /\ selected' = {Len(rows')}
    /\ UNCHANGED <<heap, loaded>>

\* updateRow: what is drawn at i is removed and drawn again.
UpdateRow(i, c) ==
    /\ rows' = [rows EXCEPT ![i] = c]
    /\ drawn' = [drawn EXCEPT ![i] = [cell |-> c, shown |-> heap[c]]]
    /\ selected' = {i}
    /\ UNCHANGED <<heap, loaded>>

\* Slip: the row that is deleted stays selected.
DeleteRowSelected(i) ==
    /\ rows' = RemoveAt(rows, i)
    /\ drawn' = RemoveAt(drawn, i)
    /\ UNCHANGED <<selected, heap, loaded>>

\* Slip: the row stays on the screen.
DeleteRowShown(i) ==
    /\ rows' = RemoveAt(rows, i)
    /\ selected' = selected \ {i}
    /\ UNCHANGED <<drawn, heap, loaded>>

\* deleteRow
DeleteRow(i) ==
    /\ rows' = RemoveAt(rows, i)
    /\ drawn' = RemoveAt(drawn, i)
    /\ selected' = selected \ {i}
    /\ UNCHANGED <<heap, loaded>>

-----------------------------------------------------------------------------
(* Loading. *)

\* _loadData and reload: the parameters of the page go to the service, which
\* answers with the rows and with the parameters; it may count the rows anew
\* or keep the count it was sent.
Load(f, p) ==
    LET list == Matching(f)
    IN /\ \E count \in {Len(list)} \cup (IF p.totalCount = -1 THEN {} ELSE {p.totalCount}) :
             pagination' = [p EXCEPT !.totalCount = count]
       /\ buttons' = EnabledButtons(pagination')
       /\ Reload(Slice(list, p.startIndex))
       /\ since' = "nobody"

\* A call that throws leaves the page with the parameters it was called with.
LoadFails(p) ==
    /\ pagination' = p
    /\ since' = IF since = "nobody" THEN "us" ELSE since
    /\ Trouble
    /\ UNCHANGED <<buttons, table>>

LoadOrFail(f, p) ==
    /\ filter' = f
    /\ \/ Load(f, p) /\ UNCHANGED trouble
       \/ LoadFails(p)
    /\ UNCHANGED <<server, ready, options, dialog>>

\* A modal dialog takes every event of the page.
Listening == ready /\ ~dialog.open

\* autoLoad: the handlers are bound only when the first load succeeds.
AutoLoad ==
    /\ ~ready
    /\ Load(filter, pagination)
    /\ options' = Max({PageCount(pagination'), 0})
    /\ ready' = TRUE
    /\ UNCHANGED <<server, filter, dialog, trouble>>

\* queryAction
Query(f) == Listening /\ LoadOrFail(f, ResetPagination)

\* turnPageAction of a button
TurnPage(action) ==
    /\ Listening /\ action \in buttons
    /\ LoadOrFail(filter, [pagination EXCEPT !.startIndex = StartAfter(pagination, action)])

\* turnPageAction of the list of pages, whose options are those of the first
\* load; turnToPage throws when there is no such page now.
TurnToPage(i) ==
    /\ Listening /\ i < options /\ i < PageCount(pagination)
    /\ LoadOrFail(filter, [pagination EXCEPT !.startIndex = i * RowsPerPage])

\* rowClicked, with a SINGLE selection
Select(i) ==
    /\ Listening
    /\ selected' = {i}
    /\ UNCHANGED <<server, ready, rows, heap, drawn, loaded, paging, dialog, trouble, since>>

-----------------------------------------------------------------------------
(* Editing. *)

\* _createDialog: the dialog is made once, and its buttons keep the parameters
\* it was made with; the form is bound to the row of the present ones.
OpenDialog(params) ==
    /\ dialog.times < MaxDialogs
    /\ dialog' = [open  |-> TRUE,
                  times |-> dialog.times + 1,
                  first |-> IF dialog.first = NoParams THEN params ELSE dialog.first,
                  last  |-> params]
    /\ UNCHANGED <<server, ready, table, paging, trouble, since>>

OpenAdd ==
    /\ Listening
    /\ OpenDialog([action |-> "add", row |-> AddRow, index |-> 0])

OpenUpdate ==
    /\ Listening
    /\ \E i \in selected :
          OpenDialog([action |-> "update", row |-> rows[i], index |-> i])

\* A control of the form writes into the object it is bound to.
Edit(title) ==
    /\ dialog.open
    /\ heap' = [heap EXCEPT ![dialog.last.row].title = title]
    /\ UNCHANGED <<server, ready, rows, drawn, selected, loaded, paging, dialog, trouble, since>>

CloseDialog == dialog' = [dialog EXCEPT !.open = FALSE, !.last = NoParams]

\* The edits of a dialog that is cancelled stay in the object.
Cancel ==
    /\ dialog.open
    /\ CloseDialog
    /\ UNCHANGED <<server, ready, table, paging, trouble, since>>

\* Of two writers the one that is not the user of this page counts.
Worse(a, b) == IF "others" \in {a, b} THEN "others" ELSE "us"

ActsOnOpened == dialog.first = dialog.last

Answered(outcome) == IF outcome = "ok" THEN UNCHANGED trouble ELSE Trouble

\* okClicked of addRow: what the service answers is not looked at.
OkAdd(outcome) ==
    LET row == heap[dialog.first.row]
    IN /\ Insert(row.title)
       /\ IF outcome = "ok"
          THEN AppendRow(dialog.first.row) /\ CloseDialog
          ELSE UNCHANGED <<table, dialog>>

\* Slip: the table is not told of what was written.
OkUpdateUntold(outcome) ==
    /\ Update(heap[dialog.first.row])
    /\ UNCHANGED table
    /\ IF outcome = "ok" THEN CloseDialog ELSE UNCHANGED dialog

\* okClicked of updateRow: neither; and the table throws, with the row already
\* written, when the index has been left behind by the rows.
OkUpdate(outcome) ==
    LET p == dialog.first
    IN /\ Update(heap[p.row])
       /\ IF outcome = "ok" /\ p.index \in DOMAIN rows
          THEN UpdateRow(p.index, p.row) /\ CloseDialog
          ELSE UNCHANGED <<table, dialog>>

\* The button 确定.
Ok(outcome) ==
    /\ dialog.open
    /\ \/ dialog.first.action = "add" /\ OkAdd(outcome)
       \/ dialog.first.action = "update" /\ OkUpdate(outcome)
    /\ since' = Worse(since, IF outcome = "ok" /\ ActsOnOpened THEN "us" ELSE "others")
    /\ Answered(outcome)
    /\ UNCHANGED <<ready, paging>>

\* removeRow: the row goes from the table when the service says it is gone.
RemoveRow(outcome) ==
    /\ Listening
    /\ \E i \in selected :
          LET row == heap[rows[i]]
          IN /\ row.oid \in DOMAIN books
             /\ Delete(row)
             /\ IF outcome = "ok" THEN DeleteRow(i) ELSE UNCHANGED table
    /\ since' = Worse(since, IF outcome = "ok" THEN "us" ELSE "others")
    /\ Answered(outcome)
    /\ UNCHANGED <<ready, paging, dialog>>

\* Another administrator writes.
Foreign ==
    /\ trouble < MaxTrouble /\ trouble' = trouble + 1
    /\ \/ \E t \in Name : Insert(t)
       \/ \E o \in DOMAIN books, t \in Name : Update([oid |-> o, title |-> t])
       \/ \E o \in DOMAIN books : Delete([oid |-> o, title |-> books[o]])
    /\ since' = "others"
    /\ UNCHANGED <<ready, table, paging, dialog>>

Init ==
    /\ nextOid \in 1 .. MaxOid + 1
    /\ books \in [1 .. nextOid - 1 -> Name]
    /\ trouble = 0
    /\ ready = FALSE
    /\ rows = <<>> /\ drawn = <<>> /\ selected = {} /\ loaded = {}
    /\ heap = [c \in Cell |-> BlankRow]
    /\ pagination = ResetPagination /\ filter = NoTitle
    /\ buttons = {} /\ options = 0
    /\ dialog = [open |-> FALSE, times |-> 0, first |-> NoParams, last |-> NoParams]
    /\ since = "nobody"

Next ==
    \/ AutoLoad
    \/ \E f \in Name : Query(f)
    \/ \E action \in {"nextPage", "prevPage", "firstPage", "lastPage"} : TurnPage(action)
    \/ \E i \in 0 .. options - 1 : TurnToPage(i)
    \/ \E i \in DOMAIN rows : Select(i)
    \/ OpenAdd
    \/ OpenUpdate
    \/ \E t \in Name : Edit(t)
    \/ Cancel
    \/ \E outcome \in Outcome : Ok(outcome) \/ RemoveRow(outcome)
    \/ Foreign

Spec == Init /\ [][Next]_vars

-----------------------------------------------------------------------------
(* Properties. *)

TypeOK ==
    /\ DOMAIN books \subseteq Oid /\ \A o \in DOMAIN books : books[o] \in Name
    /\ nextOid \in 1 .. MaxOid + 1
    /\ ready \in BOOLEAN
    /\ rows \in Seq(Cell)
    /\ heap \in [Cell -> Row]
    /\ drawn \in Seq([cell : Cell, shown : Row])
    /\ selected \subseteq DOMAIN rows
    /\ pagination.startIndex \in Nat /\ pagination.totalCount \in Nat \cup {-1}
    /\ filter \in Name
    /\ options \in Nat
    /\ dialog.open \in BOOLEAN /\ dialog.times \in 0 .. MaxDialogs
    /\ dialog.first \in Params \cup {NoParams} /\ dialog.last \in Params \cup {NoParams}
    /\ trouble \in 0 .. MaxTrouble
    /\ since \in {"nobody", "us", "others"}
    /\ loaded \subseteq Oid

\* The table and the screen hold the same rows in the same order, and a row
\* that a button acts on is the book the administrator sees there: the index
\* of a selection is taken from the screen and used in the table.
DrawnMatchesRows ==
    /\ Len(drawn) = Len(rows)
    /\ \A i \in DOMAIN rows : /\ drawn[i].cell = rows[i]
                              /\ drawn[i].shown.oid = heap[rows[i]].oid

\* While nobody else writes, and every answer arrives, and the dialog acts on
\* the row it was opened for, the page shows the books it loaded as the
\* service has them, those still there and no others, whatever was edited,
\* cancelled, refused or failed in between.
ShownIsStored ==
    LET keyed == {i \in DOMAIN drawn : drawn[i].shown.oid # NoOid}
    IN since # "others" =>
          /\ {drawn[i].shown.oid : i \in keyed} = loaded \cap DOMAIN books
          /\ \A i \in keyed : drawn[i].shown.title = books[drawn[i].shown.oid]

\* From a page as it was loaded that shows a book, the button of the next page
\* shows the matching books that follow the last one shown, and skips none.
NextPageFollows ==
    [][(TurnPage("nextPage") /\ since = "nobody" /\ since' = "nobody" /\ loaded # {})
       => LET after == {o \in DOMAIN books : /\ filter = NoTitle \/ books[o] = filter
                                             /\ \A k \in loaded : o > k}
          IN loaded' = Range(Slice(Ascending(after), 0))]_vars

\* What the button of the dialog writes is what the dialog was opened for.
\* (gt_table.js:1966: when the page is called again the parameters are handed
\* over by the method interface.)
OkActsOnOpened ==
    [][(\E outcome \in Outcome : Ok(outcome)) => ActsOnOpened]_vars
=============================================================================
