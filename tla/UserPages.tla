----------------------------- MODULE UserPages -----------------------------
(***************************************************************************)
(* A client that pages through the users while users come and go           *)
(* (UserService.loadMoreUsers and the Paginator of utils/cursor-pagination *)
(* with paginationKeys ['createdAt'] and order DESC).                      *)
(*                                                                         *)
(* created_at has microseconds, a cursor milliseconds: the Paginator       *)
(* orders by the one and compares by the other.  A millisecond has         *)
(* PerMilli microseconds here.  Each page is one query.                    *)
(***************************************************************************)
EXTENDS Naturals, Sequences, FiniteSets, SequencesExt

CONSTANTS
    Times,    \* the microseconds in which users may register, one each
    PerMilli, \* 1000
    Limit,    \* PageOptionsDto.limit
    None      \* no cursor

VARIABLES
    users,     \* table user: the times at which those that live were created
    removed,   \* those that were removed
    page,      \* the page that the client shows, newest first
    after,     \* its afterCursor and its beforeCursor
    before,
    walked,    \* all that was shown since it last began with the first page
    ends,      \* the milliseconds of afterCursors that it followed since
    forward,   \* whether it has only gone forward since
    known      \* the users that there were when it began

client == <<page, after, before, walked, ends, forward, known>>
vars == <<users, removed, client>>

Milli(t) == t \div PerMilli
Millis == {Milli(t) : t \in Times}

TypeOK ==
    /\ users \subseteq Times /\ removed \subseteq Times \ users
    /\ page \in Seq(Times) /\ Len(page) <= Limit
    /\ after \in Millis \cup {None} /\ before \in Millis \cup {None}
    /\ walked \in Seq(Times) /\ ends \subseteq Millis
    /\ forward \in BOOLEAN /\ known \subseteq Times

Init ==
    /\ users \in SUBSET Times /\ removed = {}
    /\ page = <<>> /\ after = None /\ before = None
    /\ walked = <<>> /\ ends = {} /\ forward = TRUE /\ known = {}

-----------------------------------------------------------------------------
\* ORDER BY created_at: as many are newer as come before.
Nth(found, k) == CHOOSE t \in found : Cardinality({u \in found : u > t}) = k - 1
Descending(found) == [k \in 1 .. Cardinality(found) |-> Nth(found, k)]
Ascending(found) == Reverse(Descending(found))

Take(seq, n) == SubSeq(seq, 1, IF Len(seq) < n THEN Len(seq) ELSE n)

\* Mutant of Older: the last user's millisecond is asked for again.
OlderOrEqual(cursor) == {t \in users : Milli(t) <= cursor}

\* buildCursorQuery: strictly beyond the cursor, in whole milliseconds.
Older(cursor) == {t \in users : Milli(t) < cursor}
Newer(cursor) == {t \in users : Milli(t) > cursor}

\* Mutant of Found: the order is not flipped for a beforeCursor.
FoundUnflipped(ac, bc) ==
    Descending(IF ac # None THEN Older(ac) ELSE IF bc # None THEN Newer(bc) ELSE users)

\* An afterCursor prevails; with a beforeCursor alone the order is flipped.
Found(ac, bc) ==
    CASE ac # None -> Descending(Older(ac))
      [] ac = None /\ bc # None -> Ascending(Newer(bc))
      [] OTHER -> Descending(users)

\* Mutant of Rows: the row that shows that there are more stays in the page.
RowsWithPeek(ac, bc) ==
    LET rows == Take(Found(ac, bc), Limit + 1)
    IN IF ac = None /\ bc # None THEN Reverse(rows) ELSE rows

\* One row more than the limit is asked for, and dropped.
Rows(ac, bc) ==
    LET rows == Take(Found(ac, bc), Limit)
    IN IF ac = None /\ bc # None THEN Reverse(rows) ELSE rows
HasMore(ac, bc) == Len(Found(ac, bc)) > Limit

\* Mutant of NextAfter: the cursor is taken before the extra row is dropped.
NextAfterPeek(ac, bc) ==
    LET found == Found(ac, bc)
    IN IF HasMore(ac, bc) THEN Milli(found[Limit + 1])
       ELSE IF found # <<>> /\ bc # None THEN Milli(found[1]) ELSE None

\* paginate: an empty page has no cursors.
NextAfter(ac, bc) ==
    LET rows == Rows(ac, bc)
    IN IF rows # <<>> /\ (bc # None \/ HasMore(ac, bc)) THEN Milli(rows[Len(rows)]) ELSE None
NextBefore(ac, bc) ==
    LET rows == Rows(ac, bc)
    IN IF rows # <<>> /\ (ac # None \/ (HasMore(ac, bc) /\ bc # None)) THEN Milli(rows[1]) ELSE None

Load(ac, bc) ==
    /\ page' = Rows(ac, bc)
    /\ after' = NextAfter(ac, bc)
    /\ before' = NextBefore(ac, bc)
    /\ UNCHANGED <<users, removed>>

First ==
    /\ Load(None, None)
    /\ walked' = page' /\ ends' = {} /\ forward' = TRUE /\ known' = users

Forward ==
    /\ after # None
    /\ Load(after, None)
    /\ walked' = walked \o page' /\ ends' = ends \cup {after}
    /\ UNCHANGED <<forward, known>>

Back ==
    /\ before # None
    /\ Load(None, before)
    /\ walked' = <<>> /\ ends' = {} /\ forward' = FALSE /\ known' = {}

\* A user registers now, that is later than any other.
Register == \E t \in Times :
    /\ \A u \in users \cup removed : u < t
    /\ users' = users \cup {t}
    /\ UNCHANGED <<removed, client>>

\* Users that are deleted are not found.
RemoveUser == \E t \in users :
    /\ users' = users \ {t} /\ removed' = removed \cup {t}
    /\ UNCHANGED client

Next == First \/ Forward \/ Back \/ Register \/ RemoveUser

Spec == Init /\ [][Next]_vars

-----------------------------------------------------------------------------
\* Going forward shows nobody twice, whoever registers or is removed meanwhile.
NobodyTwice == forward => IsInjective(walked)

\* When the forward walk has ended it has shown everybody who was there when it
\* began and has not been removed, but for those who share the millisecond of
\* a page's last user.
EverybodyOnce ==
    forward /\ after = None =>
        \A t \in known \ removed : t \in ToSet(walked) \/
            \E u \in ToSet(walked) : Milli(u) = Milli(t) /\ Milli(t) \in ends

\* Going back shows the users right before the page, none left out between,
\* but for those in the millisecond of the page's first user; and what a page
\* forward from there shows is older.
BackIsAdjacent ==
    [][~ forward' /\ before # None =>
         \A t \in users : (Milli(t) > before /\ t \notin ToSet(page'))
             => \A u \in ToSet(page') : u < t]_client
=============================================================================
