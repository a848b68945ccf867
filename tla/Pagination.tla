----------------------------- MODULE Pagination -----------------------------
(***************************************************************************)
(* Lists in pages (server/pagination.go): a client walks through its       *)
(* knowledge bases, or the documents of one, page by page, while others    *)
(* are created and deleted.                                                *)
(*                                                                         *)
(* Ids are random, so an item's place is that of its creation time, and    *)
(* then that of its id.  The time is that of the transaction's start.      *)
(***************************************************************************)
EXTENDS Integers, Sequences, FiniteSets, SequencesExt

CONSTANTS
    Items,              \* ids, which are numbers
    DefaultPageLimit,   \* defaultPageLimit
    MaxPageLimit,       \* maxPageLimit
    MaxCreated          \* bound: latest creation time

ASSUME PageBounds == /\ Items \subseteq Nat \ {0} /\ IsFiniteSet(Items)
                     /\ {DefaultPageLimit, MaxPageLimit} \subseteq Nat \ {0} /\ MaxCreated \in Nat

VARIABLES
    list,           \* creation time of the items there are
    gone,           \* ids deleted, which never return
    cursor,         \* where the client is: a cursor, or what follows
    seen,           \* the items it was shown, in order
    throughout,     \* history: items there since the walk began
    over            \* history: pages asked for with a cursor that was gone

pageVars == <<list, gone, cursor, seen, throughout, over>>

\* The client has not begun, or was shown the last page.
NotBegun == -1
AtEnd == -2
FromStart == 0

PageInit ==
    /\ \E S \in SUBSET Items : list \in [S -> 0 .. MaxCreated]
    /\ gone = {}
    /\ cursor = NotBegun /\ seen = <<>>
    /\ throughout = {} /\ over = FALSE

-----------------------------------------------------------------------------
(* Pages                                                                   *)

\* parsePagination; what is no positive number is left to the default.
PageLimit(n) ==
    LET limit == IF n > 0 THEN n ELSE DefaultPageLimit
    IN  IF limit > MaxPageLimit THEN MaxPageLimit ELSE limit

\* sort.Slice by creation time and id: the k-th item has k items up to it.
Precedes(a, b) == list[a] < list[b] \/ (list[a] = list[b] /\ a < b)
UpTo(i) == {j \in DOMAIN list : j = i \/ Precedes(j, i)}

Sorted ==
    [k \in 1 .. Cardinality(DOMAIN list) |->
        CHOOSE i \in DOMAIN list : Cardinality(UpTo(i)) = k]

\* Mutant: the page starts with the cursor's item.
CursorPosAt(items, after) ==
    IF Contains(items, after) THEN (CHOOSE i \in DOMAIN items : items[i] = after) - 1 ELSE 0

\* kbCursorPos, docCursorPos: the items up to the cursor's, if it is there.
CursorPos(items, after) ==
    IF Contains(items, after) THEN CHOOSE i \in DOMAIN items : items[i] = after ELSE 0

\* paginateKBs, paginateDocs.
Paginate(items, limit, after) ==
    LET start == CursorPos(items, after)
        end == start + limit
        page == SubSeq(items, start + 1, IF end > Len(items) THEN Len(items) ELSE end)
    IN  [items |-> page, next |-> IF end < Len(items) THEN Last(page) ELSE AtEnd]

\* The client asks for a page.
List ==
    /\ cursor # AtEnd
    /\ \E n \in 0 .. MaxPageLimit + 1 :
          LET after == IF cursor = NotBegun THEN FromStart ELSE cursor
              page == Paginate(Sorted, PageLimit(n), after)
          IN  /\ cursor' = page.next
              /\ seen' = seen \o page.items
              /\ over' = (over \/ (after # FromStart /\ after \notin DOMAIN list))
    /\ throughout' = IF cursor = NotBegun THEN DOMAIN list ELSE throughout
    /\ UNCHANGED <<list, gone>>

\* Bound: a client that was sent back to the start does not ask once more.
MayAsk == Len(seen) <= 2 * Cardinality(Items)

-----------------------------------------------------------------------------
(* Other requests                                                          *)

Create(i) ==
    /\ i \notin DOMAIN list \cup gone
    /\ \E t \in 0 .. MaxCreated :
          list' = [j \in DOMAIN list \cup {i} |-> IF j = i THEN t ELSE list[j]]
    /\ UNCHANGED <<gone, cursor, seen, throughout, over>>

Delete(i) ==
    /\ i \in DOMAIN list
    /\ list' = [j \in DOMAIN list \ {i} |-> list[j]]
    /\ gone' = gone \cup {i}
    /\ throughout' = throughout \ {i}
    /\ UNCHANGED <<cursor, seen, over>>

PageNext ==
    \/ MayAsk /\ List
    \/ \E i \in Items : Create(i) \/ Delete(i)

PageSpec == PageInit /\ [][PageNext]_pageVars

-----------------------------------------------------------------------------
(* Properties                                                              *)

\* A client that follows the cursors to the end has seen every item that was
\* there all the time, whatever was created and deleted around it and
\* whatever limits it asked for.  It sees none twice, unless a cursor's item
\* was deleted before the cursor was used: then the pages start over from
\* the first (kbCursorPos).
WalkShowsAll ==
    /\ cursor = AtEnd => throughout \subseteq ToSet(seen)
    /\ ~over => IsInjective(seen)
=============================================================================
