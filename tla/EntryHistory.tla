----------------------------- MODULE EntryHistory -----------------------------
(***************************************************************************)
(* The history of participation (EntriesService): two sources merged in    *)
(* memory and cut into pages by a keyset cursor, while rows go on being     *)
(* written.  The statement of a wallet (getTransactions) is the same with   *)
(* one source.                                                             *)
(***************************************************************************)
EXTENDS Integers, Sequences, FiniteSets, SequencesExt

CONSTANTS None,
          Sources,          \* the tables that are merged
          Ids,              \* random: their order says nothing of the rows
          Times,            \* registeredAt, joinedAt, createdAt in milliseconds
          PageSize,         \* limit
          SourceFetchCap    \* SOURCE_FETCH_CAP, or pageSize + 1 of getTransactions

VARIABLES written,          \* the rows
          first,            \* those that were there when the list was opened
          got,              \* what each query of the page under way has returned
          cursor,           \* of the last page, None before the first and after the last
          pages             \* what is shown

vars == <<written, first, got, cursor, pages>>

Init ==
  /\ written = {}
  /\ first = None
  /\ got = [s \in Sources |-> None]
  /\ cursor = None
  /\ pages = <<>>

-----------------------------------------------------------------------------

Newer(a, b) == a.at > b.at \/ (a.at = b.at /\ a.id > b.id)

\* Mutant: rows of the cursor's own millisecond count as served.
Earlier(row, after) == after = None \/ row.at < after.at

Beyond(row, after) ==
  \/ after = None
  \/ row.at < after.at
  \/ row.at = after.at /\ row.id < after.id

\* The row that n - 1 others come before is the nth.
Sorted(rows) ==
  [n \in 1 .. Cardinality(rows) |->
     CHOOSE r \in rows : Cardinality({o \in rows : Newer(o, r)}) = n - 1]

\* The first n of the rows in the order of the list.
Top(rows, n) == {r \in rows : Cardinality({o \in rows : Newer(o, r)}) < n}

\* A row may be committed later than another whose time is after its own.
Write ==
  /\ \E s \in Sources, i \in Ids, t \in Times :
       /\ \A r \in written : r.id # i
       /\ written' = written \cup {[source |-> s, id |-> i, at |-> t]}
  /\ UNCHANGED <<first, got, cursor, pages>>

Open ==
  /\ first = None
  /\ first' = written
  /\ UNCHANGED <<written, got, cursor, pages>>

More == first # None /\ (pages = <<>> \/ cursor # None)

\* The queries of a page run side by side, each with its own snapshot.
Fetch(s) ==
  /\ More /\ got[s] = None
  /\ got' = [got EXCEPT ![s] =
       Top({r \in written : r.source = s /\ Beyond(r, cursor)}, SourceFetchCap)]
  /\ UNCHANGED <<written, first, cursor, pages>>

HasMore(combined) == Cardinality(combined) > PageSize

Serve ==
  LET combined == UNION {got[s] : s \in Sources}
      page == Sorted(Top(combined, PageSize))
  IN  /\ \A s \in Sources : got[s] # None
      /\ pages' = pages \o page
      /\ cursor' = IF HasMore(combined)
                   THEN [at |-> Last(page).at, id |-> Last(page).id] ELSE None
      /\ got' = [s \in Sources |-> None]
      /\ UNCHANGED <<written, first>>

\* An answer that is lost is asked for again, with the same cursor.
Lose ==
  /\ \E s \in Sources : got[s] # None
  /\ got' = [s \in Sources |-> None]
  /\ UNCHANGED <<written, first, cursor, pages>>

Next == Write \/ Open \/ (\E s \in Sources : Fetch(s)) \/ Serve \/ Lose

Spec == Init /\ [][Next]_vars

-----------------------------------------------------------------------------

\* Whatever is written meanwhile, and however many rows share a millisecond, no row is
\* shown twice, the list is in order, and a list read to its end has every row that was
\* there when it was opened (comments of listEntries and getTransactions).
PagesAreComplete ==
  /\ \A i, j \in DOMAIN pages : i < j => Newer(pages[i], pages[j])
  /\ first # None /\ ~More => first \subseteq {pages[i] : i \in DOMAIN pages}
=============================================================================
