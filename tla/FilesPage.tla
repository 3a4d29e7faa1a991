------------------------------ MODULE FilesPage ------------------------------
(***************************************************************************)
(* The page of the file browser: the script that runs in the webview, with  *)
(* its path field, its rows in the order the user chose, and what has the   *)
(* keyboard. A page is a record, and every listener a function from page to *)
(* page; FileBrowser sends and receives its messages.                      *)
(*                                                                         *)
(* An entry is its path. Rows are counted from 1.                          *)
(***************************************************************************)
EXTENDS Integers, Sequences, SequencesExt, Ordering

CONSTANTS Hosts, NoHost,
          Paths,    \* absolute, normalised remote paths
          Blank,    \* the empty string
          Junk,     \* text that is no absolute path
          Kind,     \* what is at a path of a host: "directory", "file", "symlink", "other"
                    \* or "nothing"
          Size,     \* sizeBytes of an entry, or its mtime
          Fine,     \* the rank of an entry's name by localeCompare
          Coarse    \* and by compareNames, for which "a" and "A" are the same

ASSUME PageAssumption ==
  /\ NoHost \notin Hosts /\ {Blank, Junk} \cap Paths = {}
  /\ Kind \in [Hosts -> [Paths -> {"directory", "file", "symlink", "other", "nothing"}]]
  /\ Size \in [Paths -> Int] /\ Fine \in [Paths -> Int] /\ Coarse \in [Paths -> Int]

Texts == Paths \cup {Blank, Junk}

\* A listing, with the host and the directory it is of.
NoRows == [host |-> NoHost, dir |-> Blank, list |-> <<>>]

-----------------------------------------------------------------------------
\* Array.prototype.sort, which is stable.
Sorted(s, Compare(_, _)) ==
  LET first(j, i) == Compare(s[j], s[i]) < 0 \/ (Compare(s[j], s[i]) = 0 /\ j < i)
      below == [i \in DOMAIN s |-> {j \in DOMAIN s : first(j, i)}]
  IN [k \in DOMAIN s |-> s[Nth(below, k)]]

\* Directories come first, whatever the key.
Group(h, e) == IF Kind[h][e] = "directory" THEN 0 ELSE 1

Sign(by) == IF by.up THEN 1 ELSE -1

\* The comparison of sortEntries (and of sortBrowserEntries, its twin in core): the name,
\* always ascending, decides between equal keys.
Compared(h, by, a, b) ==
  LET key == IF by.key = "name" THEN Coarse[a] - Coarse[b] ELSE Size[a] - Size[b]
  IN CASE Group(h, a) # Group(h, b) -> Group(h, a) - Group(h, b)
       [] Group(h, a) = Group(h, b) /\ key # 0 -> key * Sign(by)
       [] OTHER -> Coarse[a] - Coarse[b]

SortEntries(rows, by) ==
  LET compare(a, b) == Compared(rows.host, by, a, b) IN Sorted(rows.list, compare)

-----------------------------------------------------------------------------
\* A page as it is loaded; the order of the rows survives (setState, getState).
NewPage(by) ==
  [rows |-> NoRows, shown |-> <<>>, by |-> by,
   field |-> Blank, title |-> Blank,   \* the path field, and its tooltip
   held |-> FALSE,      \* no code: whether the field is the user's, not the host's
   inField |-> FALSE,   \* the field has the keyboard
   inRow |-> 0,         \* or a row has, or nothing
   focused |-> 1,       \* focusedIndex
   tabbable |-> 1,      \* the row with tabIndex 0
   recent |-> <<>>, offline |-> FALSE, error |-> "none"]

Within(pg, i) == IF i > Len(pg.shown) THEN Len(pg.shown) ELSE i
AtLeast1(i) == IF i < 1 THEN 1 ELSE i

\* renderRows: new elements, so that none of them has the keyboard.
RenderRows(pg) ==
  LET drawn == [pg EXCEPT !.shown = SortEntries(pg.rows, pg.by)]
      index == AtLeast1(Within(drawn, pg.focused))
  IN [drawn EXCEPT !.inRow = 0, !.focused = index, !.tabbable = index]

\* render: "do not clobber a path the user is part-way through typing".
Render(pg, state) ==
  RenderRows([pg EXCEPT !.rows = state.rows, !.recent = state.recent,
                        !.offline = state.offline, !.error = state.error,
                        !.field = IF pg.inField THEN @ ELSE state.path,
                        !.title = IF pg.inField THEN @ ELSE state.path,
                        !.held = pg.inField])

-----------------------------------------------------------------------------
\* A row gets the keyboard: its focus listener.
Focus(pg, i) == [pg EXCEPT !.inField = FALSE, !.inRow = i, !.focused = i]

\* focusRow, for a click, the arrows, Home and End.
FocusRow(pg, i) ==
  IF pg.shown = <<>> THEN pg
  ELSE LET index == AtLeast1(Within(pg, i))
       IN [Focus(pg, index) EXCEPT !.focused = index, !.tabbable = index]

\* A click on one of the keys above the rows.
ClickSort(pg, key) ==
  RenderRows([pg EXCEPT !.by = [key |-> key, up |-> IF key = @.key THEN ~@.up ELSE TRUE],
                        !.inField = FALSE])

\* The path field: it gets the keyboard, text is typed, and it loses the keyboard.
EnterField(pg) == [pg EXCEPT !.inField = TRUE, !.inRow = 0]
Type(pg, text) == [pg EXCEPT !.field = text, !.held = TRUE]
Blur(pg) == [pg EXCEPT !.inField = FALSE]

\* Where a key pressed in the rows moves to.
Moves(pg) == {pg.focused + 1, pg.focused - 1, 1, Len(pg.shown)}
=============================================================================
