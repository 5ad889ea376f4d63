------------------------------- MODULE BTree -------------------------------
(***************************************************************************)
(* The B+tree (storage/btree/btree.go) on slotted pages (storage/page) and *)
(* its pages in memory and in the page file.  One tree holds the rows of   *)
(* all tables; a key is a number, ordered like the composite keys          *)
(* (tableID, primary key), and a row is a value with a size.  Sizes are in *)
(* units of a slot or more: only comparisons with the room on a page count.*)
(*                                                                         *)
(* An operation descends one page per step and, after a split, climbs back *)
(* one page per step, so operations of different clients interleave        *)
(* between pages (within a page they would even race on the bytes).        *)
(***************************************************************************)
EXTENDS Naturals, FiniteSets, SequencesExt

CONSTANTS
    Clients,     \* transactions at work; each has the write locks of its tables
    Keys,        \* composite keys
    TableOf,     \* key -> table
    TablesOf,    \* client -> the tables it has locked for writing
    Rows,        \* contents a row can have
    RowLen,      \* row -> length of its leaf cell
    InternalLen, \* length of an internal cell
    SlotSize,    \* page.SlotSize
    Capacity,    \* page.PageSize - page.HeaderSize
    Kinds,       \* operations the clients use
    Faults,      \* which of FaultKinds may happen
    MaxPages,    \* bound on the pages of the file
    MaxOps,      \* bound on the operations of a run
    NoPage, NoRow, NoClient

FaultKinds == {"poolFull", \* FetchPage fails: every frame is pinned or dirty
               "abort"}    \* clients roll back although no operation failed

ASSUME TreeAssumption ==
    /\ Keys \subseteq Nat
    /\ TableOf \in [Keys -> Nat] /\ \A k, l \in Keys : k < l => TableOf[k] <= TableOf[l]
    /\ TablesOf \in [Clients -> SUBSET Nat]
    /\ \A c, d \in Clients : c # d => TablesOf[c] \cap TablesOf[d] = {}
    /\ NoClient \notin Clients /\ NoPage \notin Nat
    /\ RowLen \in [Rows -> Nat \ {0}]
    /\ {InternalLen, SlotSize, Capacity, MaxPages, MaxOps} \subseteq Nat \ {0}
    /\ Kinds \subseteq {"insert", "update", "delete"}
    /\ Faults \subseteq FaultKinds

VARIABLES
    mem,    \* page ID -> page as the pool shows it
    disk,   \* page ID -> page in the file
    owner,  \* page ID -> client whose transaction last dirtied it, or NoClient
    root,   \* DiskManager.rootPageID, in memory and in the file header alike
    pc,     \* client -> idle, descend, grow (a child was split) or failed
    op,     \* client -> its operation
    ops,    \* history: operations begun so far
    misled, \* history: a failure met one of the places that cannot be undone:
            \* splitLeaf and splitInternal fail on a page already changed, or a
            \* root above an internal page is rolled back
    parted, \* history: splitInternal parted two cells with the same separator
    rows,   \* history: key -> row according to the operations that succeeded
    saved   \* history: key -> row according to the committed transactions

vars == <<mem, disk, owner, root, pc, op, ops, misled, parted, rows, saved>>

-----------------------------------------------------------------------------
(* Slotted pages (storage/page/page.go).  off is CellContentOffset above   *)
(* the header; next is RightmostChild, in a leaf the next leaf.            *)

Blank(type) == [type |-> type, cells |-> <<>>, off |-> Capacity, next |-> 0]

CellLen(cell) == IF "row" \in DOMAIN cell THEN RowLen[cell.row] ELSE InternalLen
FreeSpace(p)  == p.off - SlotSize * Len(p.cells)
\* Mutant: the slot is forgotten.
MutFits(p, cell) == FreeSpace(p) >= CellLen(cell)

Fits(p, cell) == FreeSpace(p) >= CellLen(cell) + SlotSize

\* InsertCellAt, when the cell fits.
InsertCellAt(p, i, cell) ==
    [p EXCEPT !.cells = InsertAt(@, i, cell), !.off = @ - CellLen(cell)]

\* The slot goes, the bytes of the cell are not reclaimed.
DeleteCell(p, i) == [p EXCEPT !.cells = RemoveAt(@, i)]

\* The loops over AddCell, which ignore that a cell may not fit.
AddCells(p, cells) ==
    LET f[n \in 0..Len(cells)] ==
            IF n = 0 THEN p
            ELSE IF Fits(f[n-1], cells[n])
                 THEN InsertCellAt(f[n-1], Len(f[n-1].cells) + 1, cells[n])
                 ELSE f[n-1]
    IN f[Len(cells)]

ResetPage(p) == [p EXCEPT !.cells = <<>>, !.off = Capacity]

-----------------------------------------------------------------------------
(* Searching a page.                                                       *)

FindInsertPos(p, k) ==
    LET i == SelectInSeq(p.cells, LAMBDA cell : cell.key > k)
    IN IF i = 0 THEN Len(p.cells) + 1 ELSE i

\* Mutant: the separator itself goes to the left.
MutFindChildPageID(p, k) ==
    LET i == SelectInSeq(p.cells, LAMBDA cell : k <= cell.key)
    IN IF i = 0 THEN p.next ELSE p.cells[i].child

FindChildPageID(p, k) ==
    LET i == SelectInSeq(p.cells, LAMBDA cell : k < cell.key)
    IN IF i = 0 THEN p.next ELSE p.cells[i].child

\* The position of k on a leaf, 0 if it is not there.
SearchInLeaf(p, k) ==
    LET i == SelectInSeq(p.cells, LAMBDA cell : cell.key >= k)
    IN IF i # 0 /\ p.cells[i].key = k THEN i ELSE 0

\* Mutant: the new cell stays last.
MutSortCells(cells) == cells

\* A bubble sort: cells with the same key keep their order.
SortCells(cells) ==
    LET UpTo(i) == {j \in DOMAIN cells : \/ cells[j].key < cells[i].key
                                         \/ cells[j].key = cells[i].key /\ j <= i}
    IN [n \in DOMAIN cells |-> cells[CHOOSE i \in DOMAIN cells : Cardinality(UpTo(i)) = n]]

-----------------------------------------------------------------------------
(* Reading the tree: Search and Scan, in an image of the pages.            *)

FindLeaf(img, k) ==
    LET f[p \in DOMAIN img] == IF img[p].type = "leaf" THEN p ELSE f[FindChildPageID(img[p], k)]
    IN f[root]

Search(img, k) ==
    LET leaf == img[FindLeaf(img, k)]
        i    == SearchInLeaf(leaf, k)
    IN IF i = 0 THEN NoRow ELSE leaf.cells[i].row

\* An internal page without cells is taken for a leaf; its rightmost child
\* then serves as the next leaf.
FindLeftmostLeaf(img) ==
    LET f[p \in DOMAIN img] == IF img[p].type = "leaf" \/ img[p].cells = <<>> THEN p
                               ELSE f[img[p].cells[1].child]
    IN f[root]

\* The pages a scan visits; no chain is longer than the file has pages.
Chain(img) ==
    LET seen[n \in 0..MaxPages] ==
            IF n = 0 THEN <<FindLeftmostLeaf(img)>>
            ELSE LET rest == seen[n-1]
                 IN IF img[Last(rest)].next = NoPage THEN rest ELSE Append(rest, img[Last(rest)].next)
    IN seen[MaxPages]

\* Scan skips the cells of earlier tables and stops at the first of a later one.
Scan(img, tb) ==
    LET chain == Chain(img)
        cells == FlattenSeq([i \in DOMAIN chain |-> img[chain[i]].cells])
        later == SelectInSeq(cells, LAMBDA cell : TableOf[cell.key] > tb)
        end   == IF later = 0 THEN Len(cells) ELSE later - 1
        found[n \in 0..end] ==
            IF n = 0 THEN <<>>
            ELSE LET rest == found[n-1]
                 IN IF TableOf[cells[n].key] = tb THEN Append(rest, cells[n]) ELSE rest
    IN found[end]

-----------------------------------------------------------------------------
Idle == [kind |-> "none", key |-> 0, row |-> NoRow, path |-> <<>>, page |-> 0,
         sep |-> 0, right |-> 0]

\* NewBTree on a new file: the root is an empty leaf.
Init ==
    /\ mem = [p \in {0} |-> [Blank("leaf") EXCEPT !.next = NoPage]]
    /\ disk = mem
    /\ owner = [p \in {0} |-> NoClient]
    /\ root = 0
    /\ pc = [c \in Clients |-> "idle"]
    /\ op = [c \in Clients |-> Idle] /\ ops = 0 /\ misled = FALSE /\ parted = FALSE
    /\ rows = [k \in Keys |-> NoRow] /\ saved = rows

Goto(c, where) == pc' = [pc EXCEPT ![c] = where]
Finish(c) == Goto(c, "idle") /\ op' = [op EXCEPT ![c] = Idle]
Fail(c)   == Goto(c, "failed") /\ op' = [op EXCEPT ![c] = Idle]

\* The pages img with those of new in place of theirs or added; one page.
Write(img, new) == [p \in DOMAIN img \cup DOMAIN new |->
                      IF p \in DOMAIN new THEN new[p] ELSE img[p]]
Only(p, contents) == [q \in {p} |-> contents]

\* AllocatePage takes the next page ID and writes an empty page at once.
NextPage == Cardinality(DOMAIN mem)
Allocate(type) ==
    /\ NextPage < MaxPages
    /\ disk' = Write(disk, Only(NextPage, Blank(type)))

\* Mutant: a new page is unpinned without being marked dirty.
MutFinishPages(c, new) ==
    /\ mem' = Write(mem, new)
    /\ owner' = Write(owner, [p \in DOMAIN new |-> IF p \in DOMAIN mem THEN c ELSE NoClient])

\* finishPage of the pages in new: a page ID -> contents function.
FinishPages(c, new) ==
    /\ mem' = Write(mem, new)
    /\ owner' = Write(owner, [p \in DOMAIN new |-> c])

\* The page of a failed FetchPage stays allocated, clean and unlinked.
AllocateInVain(type, changed) ==
    /\ Allocate(type)
    /\ mem' = Write(Write(mem, Only(NextPage, Blank(type))), changed)
    /\ owner' = Write(owner, Only(NextPage, NoClient))

\* Insert, Update and Delete read the root page ID and set out.  The executor
\* inserts a key once (uniqueness is not enforced); an update or a delete of a
\* key that does not exist fails.
Start(c, kind, k, r) ==
    /\ pc[c] = "idle" /\ TableOf[k] \in TablesOf[c] /\ kind \in Kinds
    /\ ops < MaxOps /\ ops' = ops + 1
    /\ kind = "insert" => rows[k] = NoRow
    /\ (kind = "delete") = (r = NoRow)
    /\ op' = [op EXCEPT ![c] = [Idle EXCEPT !.kind = kind, !.key = k, !.row = r, !.page = root]]
    /\ Goto(c, "descend")
    /\ UNCHANGED <<mem, disk, owner, root, misled, parted, rows, saved>>

\* One level of insertRecursive, updateRecursive or findLeaf.
Descend(c) ==
    /\ pc[c] = "descend"
    /\ mem[op[c].page].type = "internal"
    /\ op' = [op EXCEPT ![c].path = Append(@, op[c].page),
                        ![c].page = FindChildPageID(mem[@], op[c].key)]
    /\ UNCHANGED <<mem, disk, owner, root, pc, ops, misled, parted, rows, saved>>

\* FetchPage of the next page fails; nothing has been changed so far.
DescendFails(c) ==
    /\ "poolFull" \in Faults
    /\ pc[c] = "descend"
    /\ Fail(c)
    /\ UNCHANGED <<mem, disk, owner, root, ops, misled, parted, rows, saved>>

AtLeaf(c) == pc[c] = "descend" /\ mem[op[c].page].type = "leaf"
Leaf(c)   == mem[op[c].page]
NewCell(c) == [key |-> op[c].key, row |-> op[c].row]

KeyNotFound(c) ==
    /\ AtLeaf(c) /\ op[c].kind # "insert"
    /\ SearchInLeaf(Leaf(c), op[c].key) = 0
    /\ Fail(c)
    /\ UNCHANGED <<mem, disk, owner, root, ops, misled, parted, rows, saved>>

DeleteRow(c) ==
    /\ AtLeaf(c) /\ op[c].kind = "delete"
    /\ LET i == SearchInLeaf(Leaf(c), op[c].key) IN
         /\ i # 0
         /\ FinishPages(c, Only(op[c].page, DeleteCell(Leaf(c), i)))
    /\ rows' = [rows EXCEPT ![op[c].key] = NoRow]
    /\ Finish(c)
    /\ UNCHANGED <<disk, root, ops, misled, parted, saved>>

\* The leaf that takes the new cell: updateLeaf has removed the old one.
HasOldCell(c) == op[c].kind = "insert" \/ SearchInLeaf(Leaf(c), op[c].key) # 0
\* Mutant: updateLeaf leaves the old cell on the page.
MutTarget(c) == Leaf(c)
Target(c) == IF op[c].kind = "insert" THEN Leaf(c)
             ELSE DeleteCell(Leaf(c), SearchInLeaf(Leaf(c), op[c].key))

\* insertIntoLeaf and updateLeaf when the cell fits.
PutRow(c) ==
    /\ AtLeaf(c) /\ op[c].kind # "delete" /\ HasOldCell(c)
    /\ Fits(Target(c), NewCell(c))
    /\ FinishPages(c, Only(op[c].page,
          InsertCellAt(Target(c), FindInsertPos(Target(c), op[c].key), NewCell(c))))
    /\ rows' = [rows EXCEPT ![op[c].key] = op[c].row]
    /\ Finish(c)
    /\ UNCHANGED <<disk, root, ops, misled, parted, saved>>

\* What a child hands up after a split: keys below sep stay on page, the others
\* are on right.
HandUp(c, sep) ==
    /\ op' = [op EXCEPT ![c].sep = sep, ![c].right = NextPage]
    /\ Goto(c, "grow")

\* The cells are divided by number, whatever their sizes.
SplitLeaf(c) ==
    /\ AtLeaf(c) /\ op[c].kind # "delete" /\ HasOldCell(c)
    /\ ~Fits(Target(c), NewCell(c))
    /\ Allocate("leaf")
    /\ LET cells == SortCells(Append(Target(c).cells, NewCell(c)))
           mid   == Len(cells) \div 2
           left  == AddCells(ResetPage(Target(c)), SubSeq(cells, 1, mid))
           right == AddCells(Blank("leaf"), SubSeq(cells, mid + 1, Len(cells)))
       IN /\ FinishPages(c, [p \in {op[c].page, NextPage} |->
                              IF p = NextPage THEN [right EXCEPT !.next = Target(c).next]
                              ELSE [left EXCEPT !.next = NextPage]])
          /\ HandUp(c, cells[mid + 1].key)
    /\ rows' = [rows EXCEPT ![op[c].key] = op[c].row]
    /\ UNCHANGED <<root, ops, misled, parted, saved>>

\* Mutant: the page is emptied before the new one is fetched.
MutSplitLeafFails(c) ==
    /\ "poolFull" \in Faults
    /\ AtLeaf(c) /\ op[c].kind # "delete" /\ HasOldCell(c)
    /\ ~Fits(Target(c), NewCell(c))
    /\ AllocateInVain("leaf", Only(op[c].page, ResetPage(Target(c))))
    /\ misled' = (misled \/ op[c].kind = "update")
    /\ Fail(c)
    /\ UNCHANGED <<root, ops, parted, rows, saved>>

\* The new page cannot be fetched: updateLeaf has already taken the old cell off
\* the page in memory, which stays clean.
SplitLeafFails(c) ==
    /\ "poolFull" \in Faults
    /\ AtLeaf(c) /\ op[c].kind # "delete" /\ HasOldCell(c)
    /\ ~Fits(Target(c), NewCell(c))
    /\ AllocateInVain("leaf", Only(op[c].page, Target(c)))
    /\ misled' = (misled \/ op[c].kind = "update")
    /\ Fail(c)
    /\ UNCHANGED <<root, ops, parted, rows, saved>>

\* patchInternalAfterChildSplit: the pointer to the child, whose cells from sep
\* on have moved, becomes one to the new page; a cell for the child is added.
Parent(c) == mem[Last(op[c].path)]
Patched(c) ==
    LET i == SelectInSeq(Parent(c).cells, LAMBDA cell : cell.child = op[c].page)
    IN IF i = 0 THEN [Parent(c) EXCEPT !.next = op[c].right]
       ELSE [Parent(c) EXCEPT !.cells[i].child = op[c].right]
ChildCell(c) == [key |-> op[c].sep, child |-> op[c].page]

PatchInternal(c) ==
    /\ pc[c] = "grow" /\ op[c].path # <<>>
    /\ Fits(Patched(c), ChildCell(c))
    /\ FinishPages(c, Only(Last(op[c].path),
          InsertCellAt(Patched(c), FindInsertPos(Patched(c), op[c].sep), ChildCell(c))))
    /\ Finish(c)
    /\ UNCHANGED <<disk, root, ops, misled, parted, rows, saved>>

\* The key in the middle moves up; its child becomes the left page's last.
SplitInternal(c) ==
    /\ pc[c] = "grow" /\ op[c].path # <<>>
    /\ ~Fits(Patched(c), ChildCell(c))
    /\ Allocate("internal")
    /\ LET cells == SortCells(Append(Patched(c).cells, ChildCell(c)))
           mid   == Len(cells) \div 2
           left  == AddCells(ResetPage(Patched(c)), SubSeq(cells, 1, mid))
           right == AddCells(Blank("internal"), SubSeq(cells, mid + 2, Len(cells)))
       IN /\ FinishPages(c, [p \in {Last(op[c].path), NextPage} |->
                              IF p = NextPage THEN [right EXCEPT !.next = Patched(c).next]
                              ELSE [left EXCEPT !.next = cells[mid + 1].child]])
          /\ op' = [op EXCEPT ![c].sep = cells[mid + 1].key, ![c].right = NextPage,
                              ![c].page = Last(op[c].path), ![c].path = Front(@)]
          /\ parted' = (parted \/ cells[mid].key = cells[mid + 1].key)
    /\ UNCHANGED <<root, pc, ops, misled, rows, saved>>

SplitInternalFails(c) ==
    /\ "poolFull" \in Faults
    /\ pc[c] = "grow" /\ op[c].path # <<>>
    /\ ~Fits(Patched(c), ChildCell(c))
    /\ AllocateInVain("internal", Only(Last(op[c].path), Patched(c)))
    /\ misled' = TRUE
    /\ Fail(c)
    /\ UNCHANGED <<root, ops, parted, rows, saved>>

\* createNewRoot; SetRootPageID writes the file header at once.
CreateNewRoot(c) ==
    /\ pc[c] = "grow" /\ op[c].path = <<>>
    /\ Allocate("internal")
    /\ FinishPages(c, Only(NextPage,
          [AddCells(Blank("internal"), <<ChildCell(c)>>) EXCEPT !.next = op[c].right]))
    /\ root' = NextPage
    /\ Finish(c)
    /\ UNCHANGED <<ops, misled, parted, rows, saved>>

CreateNewRootFails(c) ==
    /\ "poolFull" \in Faults
    /\ pc[c] = "grow" /\ op[c].path = <<>>
    /\ AllocateInVain("internal", <<>>)
    /\ Fail(c)
    /\ UNCHANGED <<root, ops, misled, parted, rows, saved>>

-----------------------------------------------------------------------------
(* The end of a transaction, as far as pages are concerned.                *)

DirtyOf(c) == {p \in DOMAIN owner : owner[p] = c}
Own(c, f, g) == [k \in Keys |-> IF TableOf[k] \in TablesOf[c] THEN f[k] ELSE g[k]]

Commit(c) ==
    /\ pc[c] = "idle" /\ DirtyOf(c) # {}
    /\ disk' = [p \in DOMAIN disk |-> IF p \in DirtyOf(c) THEN mem[p] ELSE disk[p]]
    /\ owner' = [p \in DOMAIN owner |-> IF owner[p] = c THEN NoClient ELSE owner[p]]
    /\ saved' = Own(c, rows, saved)
    /\ UNCHANGED <<mem, root, pc, op, ops, misled, parted, rows>>

\* The root was created by c, above an internal page.  (Above the first leaf
\* the empty root that a rollback leaves still leads there: its child is page 0.)
NewHighRoot(c) == owner[root] = c /\ disk[root] = Blank("internal")
                  /\ \E p \in DOMAIN disk : p < root /\ disk[p].type = "internal"

\* Rollback re-reads the dirty pages and leaves the clean ones, the allocated
\* pages and the root page ID alone.  A crash of the process has this effect, too.
Rollback(c) ==
    /\ \/ pc[c] = "failed"
       \/ pc[c] = "idle" /\ DirtyOf(c) # {} /\ "abort" \in Faults
    /\ misled' = (misled \/ NewHighRoot(c))
    /\ mem' = [p \in DOMAIN mem |-> IF p \in DirtyOf(c) THEN disk[p] ELSE mem[p]]
    /\ owner' = [p \in DOMAIN owner |-> IF owner[p] = c THEN NoClient ELSE owner[p]]
    /\ rows' = Own(c, saved, rows)
    /\ Finish(c)
    /\ UNCHANGED <<disk, root, ops, parted, saved>>

Next ==
    \E c \in Clients :
        \/ \E k \in Keys, kind \in Kinds, r \in Rows \cup {NoRow} : Start(c, kind, k, r)
        \/ Descend(c) \/ DescendFails(c) \/ KeyNotFound(c)
        \/ DeleteRow(c) \/ PutRow(c)
        \/ SplitLeaf(c) \/ SplitLeafFails(c)
        \/ PatchInternal(c) \/ SplitInternal(c) \/ SplitInternalFails(c)
        \/ CreateNewRoot(c) \/ CreateNewRootFails(c)
        \/ Commit(c) \/ Rollback(c)

Spec == Init /\ [][Next]_vars

-----------------------------------------------------------------------------
(* Properties.                                                             *)

\* No operation is under way, and no failure met a place it cannot be undone at.
Quiet == ~misled /\ \A c \in Clients : pc[c] = "idle"

PageOK(p) ==
    /\ p.type \in {"leaf", "internal"}
    /\ FreeSpace(p) >= 0
    /\ p.next \in DOMAIN mem \cup {NoPage}
    /\ \A i \in DOMAIN p.cells :
         /\ p.cells[i].key \in Keys
         /\ p.type = "leaf" => p.cells[i].row \in Rows
         /\ p.type = "internal" => p.cells[i].child \in DOMAIN mem

TypeOK ==
    /\ DOMAIN mem = 0..(NextPage - 1) /\ DOMAIN disk = DOMAIN mem /\ NextPage <= MaxPages
    /\ \A p \in DOMAIN mem : PageOK(mem[p]) /\ PageOK(disk[p])
    /\ owner \in [DOMAIN mem -> Clients \cup {NoClient}]
    /\ root \in DOMAIN mem
    /\ pc \in [Clients -> {"idle", "descend", "grow", "failed"}]
    /\ rows \in [Keys -> Rows \cup {NoRow}] /\ saved \in [Keys -> Rows \cup {NoRow}]

\* Search finds every row that was stored and none that was not, however the
\* tree was split, and after rollbacks and operations that failed for a full
\* pool at any page (btree.go:40-58).
SearchExact == Quiet /\ ~parted => \A k \in Keys : Search(mem, k) = rows[k]

\* Search finds the rows also when a split has parted two cells with the same
\* separator: the cell for the child "is responsible for keys less than upKey"
\* (btree.go:296-298).
SearchReliable == Quiet => \A k \in Keys : Search(mem, k) = rows[k]

TableRows(tb, contents) == {[key |-> k, row |-> contents[k]] :
                             k \in {l \in Keys : TableOf[l] = tb /\ contents[l] # NoRow}}

\* A scan returns the rows of its table, each once, in key order, although it
\* shares leaves with other tables (btree.go:109-143).
ScanExact ==
    Quiet /\ ~parted => \A tb \in {TableOf[k] : k \in Keys} :
        LET found == Scan(mem, tb)
        IN /\ \A i \in 2..Len(found) : found[i-1].key < found[i].key
           /\ ToSet(found) = TableRows(tb, rows)

\* The leaves in the order of the tree are those of the chain: a scan and a
\* search never disagree about which leaf holds a range (splitLeaf, relinking).
ChainIsTree ==
    Quiet /\ ~parted => LET f[p \in DOMAIN mem] ==
                   IF mem[p].type = "leaf" THEN <<p>>
                   ELSE FlattenSeq([i \in DOMAIN mem[p].cells |-> f[mem[p].cells[i].child]])
                        \o f[mem[p].next]
             IN f[root] = SelectSeq(Chain(mem), LAMBDA p : mem[p].type = "leaf")

\* What a reader of the page file would find are the committed rows, while
\* transactions change and split pages in memory.
FileExact ==
    ~misled /\ ~parted => \A tb \in {TableOf[k] : k \in Keys} : ToSet(Scan(disk, tb)) = TableRows(tb, saved)

\* A frame that is not dirty shows the page of the file, whatever failed in
\* between: DiscardTxn relies on it when it re-reads the dirty frames only
\* (buffer.go:130).
CleanMatchesFile ==
    ~misled => \A p \in DOMAIN mem : owner[p] = NoClient => mem[p] = disk[p]

=============================================================================
