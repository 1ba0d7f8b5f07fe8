--------------------------- MODULE DocumentReads ---------------------------
(***************************************************************************)
(* What a client reads of its documents: the pages of the list (List in    *)
(* src/api/documents.go, ListOwnedPage in src/api/database.go), and ranges *)
(* of a stored file (serveStoredFile in src/api/documents.go, GetRange in  *)
(* src/api/storage.go).                                                    *)
(***************************************************************************)
EXTENDS Integers, SequencesExt

CONSTANTS
    Documents,              \* ids of the documents of an owner
    DefaultLimit, MaxLimit, \* documents on a page: 50, and at most 100
    MaxOffset               \* the largest int64

ASSUME ReadsAssumption ==
    /\ DefaultLimit \in Nat \ {0} /\ MaxLimit \in Nat \ {0}
    /\ Documents \subseteq Nat /\ MaxOffset \in Nat

Absent == -1

-----------------------------------------------------------------------------
(* The list.  A snapshot is the set of the owner's documents (those that   *)
(* match the search) when a page is asked for; created gives the time of   *)
(* each, which may be the same for several.  A client follows the cursors, *)
(* page by page; a deleted document may still be a cursor, whose key is    *)
(* all that is kept of it.                                                 *)

PageLimit(query) ==
    IF query = Absent \/ query <= 0 THEN DefaultLimit
    ELSE IF query > MaxLimit THEN MaxLimit ELSE query

\* (created_at, id) of one row is smaller than that of the other.
Before(created, d, e) ==
    \/ created[d] < created[e]
    \/ created[d] = created[e] /\ d < e

\* The results of the query: rows behind the cursor, the latest first, at most
\* limit of them, and if there are more then the earlier ones are left out.
ListOwnedPage(created, snapshot, limit, cursor) ==
    LET found == {d \in snapshot : cursor = Absent \/ Before(created, d, cursor)}
    IN  {rows \in BoundedSeq(found, limit) :
            /\ \A i, j \in DOMAIN rows : i < j => Before(created, rows[j], rows[i])
            /\ \A d \in found \ ToSet(rows) :
                  Len(rows) = limit /\ Before(created, d, rows[limit])}

\* Mutant of NextCursor: the row that is looked ahead at.
NextCursor_lookahead(rows, limit) == rows[limit + 1]
\* The last row that is returned.
NextCursor(rows, limit) == rows[limit]

\* A client that has no page yet.
NewListing == [items |-> <<>>, hasMore |-> TRUE, next |-> Absent]

\* The next page of a client that is told of more.  One row more than asked for
\* tells whether there still are.
List(s, created, snapshot, query, t) ==
    LET limit == PageLimit(query)
    IN  \E rows \in ListOwnedPage(created, snapshot, limit + 1, s.next) :
            /\ s.hasMore
            /\ t = IF Len(rows) > limit
                   THEN [items |-> s.items \o SubSeq(rows, 1, limit), hasMore |-> TRUE,
                         next |-> NextCursor(rows, limit)]
                   ELSE [items |-> s.items \o rows, hasMore |-> FALSE, next |-> Absent]

-----------------------------------------------------------------------------
(* Ranges.  The byte of a file at an offset is the offset.                  *)

\* strconv.ParseInt: a number that does not fit is an error.
ParseInt(digits) ==
    IF digits = Absent THEN [value |-> 0, failed |-> TRUE]
    ELSE IF digits > MaxOffset THEN [value |-> MaxOffset, failed |-> TRUE]
    ELSE [value |-> digits, failed |-> FALSE]

\* bytes=-n.  The end stays that of the file.
SuffixRange(size, last) ==
    LET suffix == ParseInt(last)
    IN  [start |-> IF suffix.failed \/ suffix.value > size THEN 0 ELSE size - suffix.value,
         end |-> size - 1,
         failed |-> suffix.failed \/ suffix.value <= 0]

\* bytes=m- and bytes=m-n.  The error of n replaces that of m.
BoundedRange(size, first, last) ==
    LET m == ParseInt(first)
        n == ParseInt(last)
    IN  [start |-> m.value,
         end |-> IF last = Absent THEN size - 1 ELSE n.value,
         failed |-> IF last = Absent THEN m.failed ELSE n.failed]

\* Mutant of ClipEnd: an end right behind the last byte is let through.
ClipEnd_late(end, size) == IF end > size THEN size - 1 ELSE end
ClipEnd(end, size) == IF end >= size THEN size - 1 ELSE end

\* The first end - start + 1 bytes behind start, as far as there are any.
GetRange(size, start, end) ==
    [i \in 1 .. (IF end < size THEN end ELSE size - 1) - start + 1 |-> start + i - 1]

\* Content-Length and the body of a response; HEAD and empty files have none.
Content(status, size, start, end, head) ==
    [status |-> status, length |-> end - start + 1,
     body |-> IF head \/ end - start + 1 = 0 THEN <<>> ELSE GetRange(size, start, end)]

NoContent(status) == [status |-> status, length |-> 0, body |-> <<>>]

\* The file is there from Stat to GetRange.  A request: its method, whether its
\* If-Modified-Since is no earlier than the file, whether it has an If-Range
\* that is not the file's, and its Range: none, one that does not match
\* singleRangePattern, or the two numbers of one that does.
ServeStoredFile(size, request) ==
    LET ignored == request.range.kind = "none" \/ request.stale
        wanted == IF request.range.first = Absent THEN SuffixRange(size, request.range.last)
                  ELSE BoundedRange(size, request.range.first, request.range.last)
    IN  IF request.notModified THEN NoContent(304)
        ELSE IF ignored THEN Content(200, size, 0, size - 1, request.head)
        ELSE IF \/ request.range.kind = "malformed"
                \/ wanted.failed \/ wanted.start >= size \/ wanted.end < wanted.start
        THEN NoContent(416)
        ELSE Content(206, size, wanted.start, ClipEnd(wanted.end, size), request.head)
=============================================================================
