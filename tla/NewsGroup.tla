------------------------------- MODULE NewsGroup -------------------------------
(***************************************************************************)
(* app/newsgroup.cpp with engine/index.h and the selection of              *)
(* gui/newsgroup.cpp: the window that shows the headers of a newsgroup.    *)
(*                                                                         *)
(* The headers are in catalogs, files that an update of the group writes   *)
(* while the window is open.  The window has a block for each catalog and  *)
(* loads the headers of the newest one; older ones are loaded when the     *)
(* user asks for them.  All loaded headers are in one index, sorted by a   *)
(* column and parted in two: those that match the filter come first.       *)
(*                                                                         *)
(* The index holds no data.  A comparison reads the record of the header   *)
(* in the file, which the update changes when another part of the same     *)
(* posting arrives, and the user by marking or deleting it.                *)
(*                                                                         *)
(* An article is a record of the number of its catalog and its date.       *)
(***************************************************************************)
EXTENDS Integers, Sequences, FiniteSets

CONSTANTS
    Articles,       \* postings: [file, date]
    TotalParts,     \* the parts of a posting
    MaxParts,       \* bound on the headers that are stored for a posting
    MaxCommands     \* bound on what the user does

ASSUME NewsGroupAssumption ==
    /\ Articles \subseteq [file : Nat, date : Nat] /\ IsFiniteSet(Articles)
    /\ TotalParts \in Nat \ {0} /\ MaxParts \in Nat /\ MaxCommands \in Nat

VARIABLES
    catalogs,       \* file -> the articles in it, in the order of their offsets
    info,           \* article -> its record: [parts, bookmarked, deleted]
    pending,        \* the files that on_write is still to be called for
    open,           \* there is a window
    blocks,         \* blocks_: a sequence of [file, loaded, size]
    loading,        \* the file that loadData is reading, or NoFile
    items,          \* items_: a sequence of [article, selected]
    size,           \* size_: the first size items are shown
    sorting, ascending,
    show,           \* show_these_fileflags_
    numSelected,    \* numSelected_
    selection,      \* the rows that are selected in the view
    moved,          \* history: the articles whose sort key changed since the last
                    \* sort, and those
    unseen,         \* whose flags changed since the filter looked at them
    ncommands

index == <<items, size, sorting, ascending>>
window == <<open, blocks, show, numSelected, selection>>
history == <<moved, unseen>>
vars == <<catalogs, info, pending, loading, index, window, history, ncommands>>

Files  == {a.file : a \in Articles}
NoFile == -1

Item(a) == [article |-> a, selected |-> FALSE]
Listed == {items[i].article : i \in DOMAIN items}

\* A window that has just been opened: loadState sorts by age, newest first.
Empty ==
    /\ items' = <<>> /\ size' = 0 /\ sorting' = "date" /\ ascending' = FALSE
    /\ show' = {"broken", "deleted"}
    /\ numSelected' = 0 /\ selection' = {} /\ moved' = {} /\ unseen' = {}

Init ==
    /\ catalogs = [f \in Files |-> <<>>]
    /\ info = [a \in Articles |-> [parts |-> 0, bookmarked |-> FALSE, deleted |-> FALSE]]
    /\ pending = {} /\ open = FALSE /\ blocks = <<>> /\ loading = NoFile
    /\ items = <<>> /\ size = 0 /\ sorting = "date" /\ ascending = FALSE
    /\ show = {"broken", "deleted"} /\ numSelected = 0 /\ selection = {}
    /\ moved = {} /\ unseen = {} /\ ncommands = 0

-----------------------------------------------------------------------------
(* index.h                                                                 *)

\* The column of a record.
Key(a, col, inf) ==
    CASE col = "date"       -> a.date
      [] col = "size"       -> inf[a].parts
      [] col = "bookmarked" -> IF inf[a].bookmarked THEN 1 ELSE 0

\* less and greater
Before(a, b, inf) ==
    IF ascending THEN Key(a, sorting, inf) < Key(b, sorting, inf)
                 ELSE Key(a, sorting, inf) > Key(b, sorting, inf)

\* on_filter
Broken(a, inf) == inf[a].parts # TotalParts
Matches(a, inf, shown) ==
    /\ Broken(a, inf) => "broken" \in shown
    /\ inf[a].deleted => "deleted" \in shown

Shown(s, n)  == SubSeq(s, 1, n)
Hidden(s, n) == SubSeq(s, n + 1, Len(s))

\* std::lower_bound, which finds a place that fits its two neighbours.  It is
\* the right one if the range is sorted.
LowerBounds(s, a) ==
    {p \in 0 .. Len(s) :
        /\ p > 0 => Before(s[p].article, a, info)
        /\ p < Len(s) => ~Before(s[p + 1].article, a, info)}

InsertAfter(s, p, x) == SubSeq(s, 1, p) \o <<x>> \o SubSeq(s, p + 1, Len(s))

\* insert: the header goes to its place among those that match, or among the
\* others.
InsertVisible(a) ==  \* mutant: the filter is not asked
    \E p \in LowerBounds(Shown(items, size), a) :
        /\ items' = InsertAfter(Shown(items, size), p, Item(a)) \o Hidden(items, size)
        /\ size' = size + 1
insert(a) ==
    IF Matches(a, info, show)
    THEN \E p \in LowerBounds(Shown(items, size), a) :
            /\ items' = InsertAfter(Shown(items, size), p, Item(a)) \o Hidden(items, size)
            /\ size' = size + 1
    ELSE \E p \in LowerBounds(Hidden(items, size), a) :
            /\ items' = Shown(items, size) \o InsertAfter(Hidden(items, size), p, Item(a))
            /\ size' = size

\* std::sort, which is not stable.
IsSorted(s, inf) == \A i, j \in DOMAIN s : i < j => ~Before(s[j].article, s[i].article, inf)
SortedBy(s, col, up) ==
    LET key(x) == IF up THEN Key(x.article, col, info) ELSE -Key(x.article, col, info)
        n == Len(s)
        orders == {p \in [1 .. n -> 1 .. n] : \A i, j \in 1 .. n : p[i] = p[j] => i = j}
    IN  {[i \in 1 .. n |-> s[p[i]]] :
            p \in {q \in orders : \A i, j \in 1 .. n : i < j => key(s[q[i]]) <= key(s[q[j]])}}

Reversed(s) == [i \in 1 .. Len(s) |-> s[Len(s) + 1 - i]]

\* std::merge
RECURSIVE Merge(_, _, _)
Merge(s, t, inf) ==
    IF s = <<>> THEN t
    ELSE IF t = <<>> THEN s
    ELSE IF Before(Head(t).article, Head(s).article, inf)
    THEN <<Head(t)>> \o Merge(s, Tail(t), inf)
    ELSE <<Head(s)>> \o Merge(Tail(s), t, inf)

DeselectedNot(s) == s  \* mutant
\* deselect_non_visible
Deselected(s) == [i \in DOMAIN s |-> Item(s[i].article)]

\* filter: both ranges are parted into those that match and those that do not.
filter(inf, shown) ==
    LET matching(s) == SelectSeq(s, LAMBDA x : Matches(x.article, inf, shown))
        others(s)   == SelectSeq(s, LAMBDA x : ~Matches(x.article, inf, shown))
        s == Shown(items, size)
        h == Hidden(items, size)
        visible == Merge(matching(s), matching(h), inf)
    IN  /\ items' = visible \o Deselected(Merge(others(s), others(h), inf))
        /\ size' = Len(visible)

-----------------------------------------------------------------------------
(* The selection.                                                          *)

\* scanSelected: the first numSelected rows with the bit, after the model was
\* reset or its layout changed.
SelectedRows(s, n) == {i \in 1 .. n : s[i].selected}
ScanAll(s, n) == selection  \* mutant: the rows are kept
scanSelected(s, n) ==
    LET rows == SelectedRows(s, n)
    IN  {i \in rows : numSelected = 0 \/ Cardinality({j \in rows : j < i}) < numSelected}

Idle == open /\ loading = NoFile /\ pending = {}
Command == Idle /\ ncommands < MaxCommands /\ ncommands' = ncommands + 1

\* selectionChanged, with select for the old rows and for the new ones.
Select(rows) ==
    /\ Command /\ rows # selection
    /\ items' = [i \in DOMAIN items |->
                    [items[i] EXCEPT !.selected = i \in rows \/ (@ /\ i \notin selection)]]
    /\ numSelected' = Cardinality(rows)
    /\ selection' = rows
    /\ UNCHANGED <<catalogs, info, pending, open, blocks, loading, size, sorting, ascending,
                   show, history>>

-----------------------------------------------------------------------------
(* The update of the group: store::xperform and the calls of on_write.     *)

\* One more header of each of the postings in s.
Store(s) ==
    LET stored == {s[i] : i \in DOMAIN s}
        isNew(a) == info[a].parts = 0
        added(f) == SelectSeq(s, LAMBDA a : a.file = f /\ isNew(a))
    IN  /\ loading = NoFile /\ pending = {}
        /\ \A a \in stored : info[a].parts < MaxParts
        /\ catalogs' = [f \in Files |-> catalogs[f] \o added(f)]
        /\ info' = [a \in Articles |->
                        IF a \in stored THEN [info[a] EXCEPT !.parts = @ + 1] ELSE info[a]]
        /\ pending' = {a.file : a \in stored}
        /\ moved' = IF sorting = "size" THEN moved \cup (stored \cap Listed) ELSE moved
        /\ unseen' = unseen \cup (stored \cap Listed)
        /\ UNCHANGED <<loading, index, window, ncommands>>

BlockOf(f) == CHOOSE i \in DOMAIN blocks : blocks[i].file = f
Block(f, loaded) == [file |-> f, loaded |-> loaded, size |-> 0]

\* loadData, up to its loop: there may be nothing new.
StartLoading(f, known) ==
    loading' = IF Len(catalogs[f]) = known THEN NoFile ELSE f

\* newHeaderDataAvailable.  A new file is loaded if it is the newest.
IsNewest(f) == blocks = <<>> \/ f > blocks[1].file
PlaceOf(f) == Cardinality({i \in DOMAIN blocks : blocks[i].file > f})
HeaderData(f) ==
    /\ f \in pending /\ loading = NoFile
    /\ pending' = pending \ {f}
    /\ UNCHANGED <<catalogs, info, open, index, show, numSelected, selection, history, ncommands>>
    /\ \/ /\ ~open
          /\ UNCHANGED <<blocks, loading>>
       \/ /\ open /\ \E i \in DOMAIN blocks : blocks[i].file = f
          /\ UNCHANGED blocks
          /\ IF blocks[BlockOf(f)].loaded
             THEN StartLoading(f, blocks[BlockOf(f)].size)
             ELSE UNCHANGED loading
       \/ /\ open /\ \A i \in DOMAIN blocks : blocks[i].file # f
          /\ blocks' = InsertAfter(blocks, PlaceOf(f), Block(f, IsNewest(f)))
          /\ IF IsNewest(f) THEN StartLoading(f, 0) ELSE UNCHANGED loading

\* The loop of loadData: the next header of the catalog is inserted.
LoadNext ==
    /\ loading # NoFile
    /\ LET b == BlockOf(loading)
           n == blocks[b].size
       IN  /\ n < Len(catalogs[loading])
           /\ insert(catalogs[loading][n + 1])
           /\ blocks' = [blocks EXCEPT ![b].size = n + 1]
    /\ UNCHANGED <<catalogs, info, pending, loading, open, show, numSelected, selection,
                   sorting, ascending, history, ncommands>>

\* Its end: the model is reset and the selection found again.
LoadDone ==
    /\ loading # NoFile /\ blocks[BlockOf(loading)].size = Len(catalogs[loading])
    /\ loading' = NoFile
    /\ selection' = scanSelected(items, size)
    /\ UNCHANGED <<catalogs, info, pending, index, open, blocks, show, numSelected,
                   history, ncommands>>

-----------------------------------------------------------------------------
(* The window.                                                             *)

\* The files of the group, the newest first.
FilesInOrder(S) ==
    CHOOSE s \in [1 .. Cardinality(S) -> S] : \A i, j \in DOMAIN s : i < j => s[i] > s[j]

\* The window is created: init, and load of the first block.
Open ==
    /\ ~open /\ pending = {}
    /\ open' = TRUE
    /\ LET files == FilesInOrder({f \in Files : catalogs[f] # <<>>})
       IN  /\ blocks' = [i \in DOMAIN files |-> Block(files[i], i = 1)]
           /\ IF files = <<>> THEN UNCHANGED loading ELSE StartLoading(files[1], 0)
    /\ Empty
    /\ UNCHANGED <<catalogs, info, pending, ncommands>>

Close ==
    /\ Command
    /\ open' = FALSE /\ blocks' = <<>>
    /\ Empty
    /\ UNCHANGED <<catalogs, info, pending, loading>>

\* load: of the next block, or of the one that was chosen in the list of volumes.
Load(i) ==
    /\ Idle /\ ~blocks[i].loaded
    /\ blocks' = [blocks EXCEPT ![i].loaded = TRUE]
    /\ StartLoading(blocks[i].file, blocks[i].size)
    /\ UNCHANGED <<catalogs, info, pending, index, open, show, numSelected, selection,
                   history, ncommands>>

\* sort.  The view turns the order round when the column is the same; the
\* index takes the items for sorted then, and reverses them.
Sort(col, up) ==
    /\ Command
    /\ col = sorting => up # ascending
    /\ sorting' = col /\ ascending' = up
    /\ IF col = sorting
       THEN /\ items' = Reversed(Shown(items, size)) \o Reversed(Hidden(items, size))
            /\ UNCHANGED moved
       ELSE /\ \E s \in SortedBy(Shown(items, size), col, up),
                  h \in SortedBy(Hidden(items, size), col, up) : items' = s \o h
            /\ moved' = {}
    /\ selection' = scanSelected(items', size)
    /\ UNCHANGED <<catalogs, info, pending, loading, size, open, blocks, show, numSelected, unseen>>

\* setFlagFilter and applyFilter
ShowFlag(flag) ==
    /\ Command
    /\ show' = IF flag \in show THEN show \ {flag} ELSE show \cup {flag}
    /\ filter(info, show')
    /\ selection' = scanSelected(items', size')
    /\ unseen' = {}
    /\ UNCHANGED <<catalogs, info, pending, loading, sorting, ascending, open, blocks,
                   numSelected, moved>>

SelectedArticles == {items[i].article : i \in selection}

\* killSelected: the articles are deleted, or are not any longer.
killSelected ==
    /\ Command /\ selection # {}
    /\ info' = [a \in Articles |->
                    IF a \in SelectedArticles THEN [info[a] EXCEPT !.deleted = ~@] ELSE info[a]]
    /\ IF "deleted" \in show
       THEN UNCHANGED <<items, size, selection, unseen>>
       ELSE /\ filter(info', show)
            /\ selection' = scanSelected(items', size')
            /\ unseen' = {}
    /\ UNCHANGED <<catalogs, pending, loading, sorting, ascending, open, blocks, show,
                   numSelected, moved>>

bookmark ==
    /\ Command /\ selection # {}
    /\ info' = [a \in Articles |->
                    IF a \in SelectedArticles THEN [info[a] EXCEPT !.bookmarked = ~@] ELSE info[a]]
    /\ moved' = IF sorting = "bookmarked" THEN moved \cup SelectedArticles ELSE moved
    /\ UNCHANGED <<catalogs, pending, loading, index, window, unseen>>

Columns == {"date", "size", "bookmarked"}
Headers == {<<a>> : a \in Articles} \cup {s \in Articles \X Articles : s[1] # s[2]}

Next ==
    \/ \E s \in Headers : Store(s)
    \/ \E f \in Files : HeaderData(f)
    \/ LoadNext \/ LoadDone
    \/ Open \/ Close
    \/ \E i \in DOMAIN blocks : Load(i)
    \/ \E col \in Columns, up \in BOOLEAN : Sort(col, up)
    \/ \E flag \in {"broken", "deleted"} : ShowFlag(flag)
    \/ \E rows \in SUBSET (1 .. size) : Select(rows)
    \/ killSelected \/ bookmark

Spec == Init /\ [][Next]_vars

-----------------------------------------------------------------------------
(* Properties *)

Records == [parts : 0 .. MaxParts, bookmarked : BOOLEAN, deleted : BOOLEAN]
Bits == [article : Articles, selected : BOOLEAN]

TypeOK ==
    /\ catalogs \in [Files -> Seq(Articles)] /\ info \in [Articles -> Records]
    /\ pending \subseteq Files /\ open \in BOOLEAN /\ loading \in Files \cup {NoFile}
    /\ blocks \in Seq([file : Files, loaded : BOOLEAN, size : Nat])
    /\ items \in Seq(Bits) /\ size \in 0 .. Len(items)
    /\ sorting \in Columns /\ ascending \in BOOLEAN /\ show \subseteq {"broken", "deleted"}
    /\ numSelected \in Nat /\ selection \subseteq 1 .. size
    /\ moved \subseteq Articles /\ unseen \subseteq Articles

\* The blocks are in the order of their files, the newest first, and that one
\* is loaded; the index has all headers of the blocks that are loaded, each of
\* them once, whatever was stored while the window was open and however often.
LoadedOnce ==
    Idle =>
        /\ \A i, j \in DOMAIN blocks : i < j => blocks[i].file > blocks[j].file
        /\ blocks # <<>> => blocks[1].loaded
        /\ \A i, j \in DOMAIN items : items[i].article = items[j].article => i = j
        /\ Listed = {a \in Articles : info[a].parts > 0 /\
                        \E i \in DOMAIN blocks : blocks[i].loaded /\ blocks[i].file = a.file}

\* A header is shown when it matches the filter and only then, unless its
\* record was changed since the filter was last applied.
ShownMatch ==
    \A i \in DOMAIN items :
        items[i].article \notin unseen => (i <= size <=> Matches(items[i].article, info, show))

\* What is shown is in order, and what is hidden too, since a later filter
\* merges the two; unless a sort key was changed since the last sort.
InOrder == moved = {} => IsSorted(Shown(items, size), info) /\ IsSorted(Hidden(items, size), info)

\* The index has what the catalogs have, once, and shows it as it is asked to.
IndexMatches == TypeOK /\ LoadedOnce /\ ShownMatch /\ InOrder

\* The rows that are selected in the view are those of the headers that are
\* selected in the index, although both move.
SelectionMatches == Idle => selection = SelectedRows(items, size)

\* No header becomes selected but by the user, and one that was stays so while
\* it is shown.
Chosen == {items[i].article : i \in {j \in DOMAIN items : items[j].selected}}
SelectionKept ==
    [][\/ ~open \/ ~open' \/ \E rows \in SUBSET (1 .. size) : Select(rows)
       \/ Chosen' = Chosen \cap {items'[i].article : i \in 1 .. size'}]_vars
=============================================================================
