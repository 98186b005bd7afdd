------------------------------- MODULE Table -------------------------------
(***************************************************************************)
(* What a program that keeps one table may rely on: a sequence of records, *)
(* each with a deletion mark and a field; DELETE, RECALL and REPLACE       *)
(* change the one record they are applied to; APPEND BLANK adds one blank  *)
(* record at the end; PACK removes exactly the marked ones.                *)
(*                                                                         *)
(* An APPEND takes two steps, so that its record is Pending in between.    *)
(* If the interpreter dies there the record stays Pending until some later *)
(* command happens to fill it: of such records, and only of them, nothing  *)
(* is promised but that they are there.                                    *)
(***************************************************************************)
EXTENDS Integers, Sequences, Selection

CONSTANTS Field,        \* the contents of a field
          BlankField    \* the contents APPEND BLANK gives

Rec == [ready : BOOLEAN, deleted : BOOLEAN, field : Field]
BlankRec == [ready |-> TRUE, deleted |-> FALSE, field |-> BlankField]
\* A record that has no contents yet.
Pending == [ready |-> FALSE, deleted |-> FALSE, field |-> BlankField]

VARIABLES recs,     \* the records, a sequence
          died      \* an APPEND was once cut short

tvars == <<recs, died>>

TInit == recs \in Seq({rec \in Rec : rec.ready}) /\ died = FALSE

TMark(r, d) ==
    /\ recs[r] # Pending
    /\ recs' = [recs EXCEPT ![r].deleted = d]
    /\ died' = died

TStore(r, f) ==
    /\ recs[r] # Pending
    /\ recs' = [recs EXCEPT ![r].field = f]
    /\ died' = died

\* The record may be ready at once, or a later step completes it.
TAppend ==
    /\ \/ recs' = Append(recs, Pending)
       \/ recs' = Append(recs, BlankRec)
    /\ died' = died

TComplete ==
    /\ recs # << >> /\ recs[Len(recs)] = Pending
    /\ recs' = [recs EXCEPT ![Len(recs)] = BlankRec]
    /\ died' = died

\* The records whose position is in S, in order.
Only(S) == Chosen(recs, S, Len(recs))

PendingAt == {r \in 1..Len(recs) : recs[r] = Pending}
MarkedAt == {r \in 1..Len(recs) \ PendingAt : recs[r].deleted}

TPack ==
    /\ recs' = Only(1..Len(recs) \ MarkedAt)
    /\ died' = died

TDie == died' = TRUE /\ recs' = recs

\* After a torn APPEND a Pending record may turn into anything, also while an
\* APPEND is under way, and PACK may keep or drop it.  No other record changes.
SettlesTo(old) ==
    /\ Len(recs') = Len(old)
    /\ \A r \in 1..Len(old) : old[r] # Pending => recs'[r] = old[r]

TSettle ==
    /\ died /\ died' = died
    /\ \/ SettlesTo(recs)
       \/ \E gone \in SUBSET PendingAt :
             SettlesTo(Only(1..Len(recs) \ (MarkedAt \cup gone)))

TNext ==
    \/ \E r \in 1..Len(recs) :
          \/ \E d \in BOOLEAN : TMark(r, d)
          \/ \E f \in Field : TStore(r, f)
    \/ TAppend \/ TComplete \/ TPack \/ TDie \/ TSettle

TSpec == TInit /\ [][TNext]_tvars
=============================================================================
