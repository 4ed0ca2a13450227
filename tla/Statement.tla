------------------------------ MODULE Statement ------------------------------
(***************************************************************************)
(* The account statement: a client of GET /accounts/me/entries pages       *)
(* through the rows of its wallet, newest first, while LedgerStore goes on *)
(* posting (service/ledger.go MyEntries, cursor.go, account_repo.go        *)
(* ListEntries).  Each page is one SELECT; between two pages anything may  *)
(* commit.                                                                 *)
(***************************************************************************)
EXTENDS LedgerStore

CONSTANTS
  Posts,                           \* the <<transaction, key, hash>> callers post
  Mine,                             \* the reader's wallet
  DefaultPageLimit, MaxPageLimit,
  Limits                            \* the values of limit= the client sends

ASSUME StatementAssumption ==
  /\ Posts \subseteq Orders \X ClaimKeys \X Hashes
  /\ Mine \in Accounts
  /\ DefaultPageLimit \in 1..MaxPageLimit /\ MaxPageLimit \in Nat
  /\ Limits \subseteq Int

VARIABLES
  shown,      \* the rows of the pages so far
  cursor,     \* the next_cursor of the last page, NoCursor if it had none
  reading     \* "new", "more" or "done"

rvars == <<shown, cursor, reading>>

----------------------------------------------------------------------------

NoCursor == <<>>

\* Base64 of the id.
EncodeCursor(id) == <<"base64", id>>

\* The id to read below, 0 for none.
DecodeCursor(c) ==
  IF c = NoCursor THEN Value(0)
  ELSE IF c[1] # "base64" \/ c[2] <= 0 THEN Error("ErrInvalidCursor")
  ELSE Value(c[2])

NormalizeLimit(n) ==
  IF n <= 0 THEN DefaultPageLimit ELSE IF n > MaxPageLimit THEN MaxPageLimit ELSE n

\* WHERE id <= cursor.
BelowOrAt(before) == {e \in entries : e.account = Mine /\ (before = 0 \/ e.id <= before)}

\* The WHERE of ListEntries.
Below(before) == {e \in entries : e.account = Mine /\ (before = 0 \/ e.id < before)}

\* ORDER BY id DESC LIMIT limit + 1.
ListEntries(before, limit) ==
  LET rows == Below(before)
  IN  [i \in 1..Min({limit + 1, Cardinality(rows)}) |->
         CHOOSE e \in rows : Cardinality({f \in rows : f.id > e.id}) = i - 1]

\* The cursor taken from the row that only tells that there are more.
NextCursorOfExtra(rows, limit) == EncodeCursor(rows[limit + 1].id)

NextCursor(rows, limit) == EncodeCursor(rows[limit].id)

\* What the handler and MyEntries refuse; it changes nothing.
PageError(n, c) == IF n < 0 THEN "ValidationError" ELSE DecodeCursor(c).err

\* A page of the entries, with the cursor the client holds.  The bound on shown is
\* never met: no row is given twice.
Page(n) ==
  /\ reading # "done"
  /\ Len(shown) <= MaxEntryId
  /\ PageError(n, cursor) = "nil"
  /\ LET limit == NormalizeLimit(n)
         rows  == ListEntries(DecodeCursor(cursor).val, limit)
         more  == Len(rows) > limit
     IN  /\ shown' = shown \o (IF more THEN SubSeq(rows, 1, limit) ELSE rows)
         /\ cursor' = IF more THEN NextCursor(rows, limit) ELSE NoCursor
         /\ reading' = IF more THEN "more" ELSE "done"
  /\ UNCHANGED vars

StmtInit ==
  /\ Init
  /\ shown = <<>> /\ cursor = NoCursor /\ reading = "new"

StmtNext ==
  \/ /\ \E s \in Sessions : \/ \E p \in Posts : Post(s, p[1], p[2], p[3])
                            \/ Step(s) \/ CommitLost(s) \/ Abort(s) \/ Release(s)
     /\ UNCHANGED rvars
  \/ \E n \in Limits : Page(n)

StmtSpec == StmtInit /\ [][StmtNext]_<<vars, rvars>>

\* The client goes on asking while it is given a cursor; what it sends is its choice.
FairStmtSpec ==
  /\ StmtSpec
  /\ Fairness
  /\ WF_<<vars, rvars>>(\E n \in Limits : Page(n))

----------------------------------------------------------------------------
(* Properties.                                                             *)

(* The pages join up: whatever is posted between two of them, and however the limits
   change, the rows the client has been given are all rows of its wallet from the newest
   to the oldest it has seen, once each; each balance_after follows from the next; and
   the last page ends at the wallet's first row (service/ledger.go MyEntries,
   account_repo.go ListEntries, ledger_repo.go Post).                         *)
PagesAreSeamless ==
  LET n == Len(shown)
      oldest == IF reading = "done" THEN 0 ELSE shown[n].id
  IN  n > 0 =>
        /\ {shown[i] : i \in 1..n} =
             {e \in RowsOf(Mine) : e.id <= shown[1].id /\ e.id >= oldest}
        /\ \A i \in 1..(n - 1) : /\ shown[i].id > shown[i + 1].id
                                 /\ shown[i].after = shown[i + 1].after + Delta(shown[i])
        /\ reading = "done" => shown[n].after = Delta(shown[n])

(* A client that follows next_cursor comes to the end, however much is posted meanwhile
   (service/ledger.go MyEntries).                                            *)
ReaderFinishes == reading = "more" ~> reading = "done"
============================================================================
