------------------------------- MODULE Scope -------------------------------
(***************************************************************************)
(* The commands of executor.c that run over several records of a table:    *)
(* DELETE, RECALL, REPLACE, COUNT (AVERAGE scans the same records) and     *)
(* LIST with their scope (ALL, NEXT n, RECORD n, REST) and their FOR and   *)
(* WHILE clauses, and LOCATE with CONTINUE.                                *)
(*                                                                         *)
(* Each command is a loop; a turn of the loop moves to a record, evaluates *)
(* the clauses there and acts, and is one action.  The clauses are         *)
(* evaluated again in each turn, on a table the earlier turns may have     *)
(* edited and at the pointer the loop moves.                               *)
(*                                                                         *)
(* GO takes any number up to the count, so a loop may start in front of    *)
(* the first record.  What a clause reads there, in the header or in front *)
(* of the file, may be anything.  DELETE and RECALL write a byte there,    *)
(* which is no byte of a record; REPLACE may write over records when its   *)
(* position is in front of the file (DbfTable models both byte by byte).   *)
(***************************************************************************)
EXTENDS Integers, FiniteSets

CONSTANTS
    NRecs,          \* the records of the table, which no command here changes
    Value,          \* what a field may hold
    Conditions,     \* logical expressions: the <<recno, record>> they hold on
    Commands,       \* the commands a program gives, beside CONTINUE and GO
    PageRows,       \* the lines LIST shows before it asks for a key
    GoTargets,      \* the numbers a program gives to GO
    Overruns,       \* what a REPLACE in front of the records may make of them
    None            \* no clause, no command

Record == [value : Value, deleted : BOOLEAN]
Records == 1..NRecs

ASSUME NRecsAssumption == NRecs \in Nat \ {0}
ASSUME ConditionsAssumption ==
    /\ None \notin Conditions
    /\ \A c \in Conditions : c \subseteq Records \X Record
ASSUME PageRowsAssumption == PageRows \in Nat \ {0}
ASSUME TargetsAssumption ==
    GoTargets \subseteq Int /\ Overruns \subseteq [Records -> Record]

Editing == {"delete", "recall", "replace"}
Finding == {"locate", "continue"}
Verbs == Editing \cup Finding \cup {"count", "list"}
Clause == Conditions \cup {None}

\* A command: scope is the scope in force.  NEXT 0 and RECORD 0 are no scope,
\* NEXT without a number is NEXT 1; with is the value REPLACE writes.
Command == [verb : Verbs, scope : {"none", "all", "next", "record", "rest"},
            n : Nat, for : Clause, while : Clause, with : Value \cup {None}]

ASSUME NoneAssumption == None \notin Command
ASSUME CommandsAssumption ==
    \A c \in Commands : /\ c \in Command /\ c.verb # "continue"
                        /\ c.verb = "locate" => c.scope = "none" /\ c.for # None
                        /\ c.scope \in {"next", "record"} => c.n > 0
                        /\ c.verb = "replace" => c.with # None

VARIABLES
    table,      \* the records
    current,    \* the record pointer
    found,      \* FOUND()
    located,    \* the last LOCATE, None before the first
    cmd,        \* the command under way, or None
    rec,        \* its loop variable
    until,      \* the last record of its loop
    last,       \* last_valid_rec
    saved,      \* saved_rec
    \* history
    before,     \* the table when the command started
    done,       \* the positions of the pointer it has acted at
    sought,     \* what the LOCATE in progress has to find, or None
    hits        \* what it and its CONTINUEs found

scan == <<cmd, rec, until, last, saved, before, done>>
search == <<found, located, sought, hits>>
vars == <<table, current, scan, search>>

Idle == cmd = None

Init ==
    /\ table \in [Records -> Record] /\ before = table
    /\ current = 1 /\ found = FALSE /\ located = None
    /\ cmd = None /\ rec = 1 /\ until = 0 /\ last = 0 /\ saved = 1
    /\ done = {} /\ sought = None /\ hits = {}

\* Mutant: gotos() without its test of the record count.
GotoUnchecked(cur, r) == r

Goto(cur, r) == IF NRecs >= r THEN r ELSE cur

Smaller(a, b) == IF a <= b THEN a ELSE b

Holds(clause, tbl, r) == clause # None => <<r, tbl[r]>> \in clause

Conditional(c) == c.for # None \/ c.while # None

-----------------------------------------------------------------------------
(* What a command loops over *)

\* DELETE, RECALL and LIST start NEXT after the current record, REPLACE and
\* COUNT on it.
NextStart(c, cur) == IF c.verb \in {"delete", "recall", "list"} THEN cur + 1 ELSE cur

\* LIST takes a clause for ALL, whatever scope is named beside it.
ScopeOf(c) ==
    IF c.verb = "list" /\ Conditional(c) /\ c.scope # "record" THEN "all" ELSE c.scope

\* Without a scope an edit is of the current record, or with a clause of the
\* table; COUNT and LIST are of the table.
OneRecord(c) == c.verb \in Editing /\ ScopeOf(c) = "none" /\ ~Conditional(c)

\* Mutant: CONTINUE starts on the record it stands on.
FirstOnCurrent(c, cur) ==
    CASE OneRecord(c)            -> cur
      [] ScopeOf(c) = "next"     -> NextStart(c, cur)
      [] ScopeOf(c) = "record"   -> c.n
      [] c.verb = "continue" \/ ScopeOf(c) = "rest" -> cur
      [] OTHER                   -> 1

First(c, cur) ==
    CASE c.verb = "continue"     -> cur + 1
      [] OneRecord(c)            -> cur
      [] ScopeOf(c) = "next"     -> NextStart(c, cur)
      [] ScopeOf(c) = "record"   -> c.n
      [] ScopeOf(c) = "rest"     -> cur
      [] OTHER                   -> 1

\* Mutant: NEXT n takes one record more.
UntilOneMore(c, cur) ==
    CASE OneRecord(c)            -> cur
      [] ScopeOf(c) = "next"     -> Smaller(NextStart(c, cur) + c.n, NRecs)
      [] ScopeOf(c) = "record"   -> c.n
      [] OTHER                   -> NRecs

Until(c, cur) ==
    CASE OneRecord(c)            -> cur
      [] ScopeOf(c) = "next"     -> Smaller(NextStart(c, cur) + c.n - 1, NRecs)
      [] ScopeOf(c) = "record"   -> c.n
      [] OTHER                   -> NRecs

\* DELETE, RECALL and REPLACE evaluate no clause under ALL and RECORD, and LIST
\* none under RECORD.
Unconditional(c) ==
    \/ c.verb \in Editing /\ c.scope \in {"all", "record"}
    \/ c.verb = "list" /\ c.scope = "record"

\* The commands whose turn evaluates an expression, which may read a field.
Reads(c) == c.verb = "replace" \/ (Conditional(c) /\ ~Unconditional(c))

Edited(c, r) ==
    CASE c.verb = "delete"  -> [r EXCEPT !.deleted = TRUE]
      [] c.verb = "recall"  -> [r EXCEPT !.deleted = FALSE]
      [] c.verb = "replace" -> [r EXCEPT !.value = c.with]
      [] OTHER              -> r

-----------------------------------------------------------------------------
(* The loop *)

Start(c) ==
    /\ cmd' = c
    /\ rec' = First(c, current) /\ until' = Until(c, current)
    /\ last' = 0 /\ saved' = current /\ before' = table /\ done' = {}

\* A command other than LOCATE and CONTINUE.  An edit of the current record
\* leaves a LOCATE in progress; the history follows it no further after others.
Run(c) ==
    /\ Idle /\ c.verb \notin Finding
    /\ Start(c)
    /\ IF OneRecord(c)
       THEN UNCHANGED <<sought, hits>>
       ELSE sought' = None /\ hits' = {}
    /\ UNCHANGED <<table, current, found, located>>

\* Where gotos() puts the pointer: at the loop variable, unless that is behind
\* the last record (RECORD n only).
Here == Goto(current, rec)

\* Mutant: LIST evaluates its clauses on deleted records too.
NeverHidden == FALSE

\* LIST shows no record that is marked deleted, and asks it no WHILE; it skips
\* what is in front of the first record.
Hidden == cmd.verb = "list" /\ (Here \in Records => table[Here].deleted)

\* A clause on the record, or in front of the first one, where either may be.
CanHold(clause) == Here \in Records => Holds(clause, table, Here)
CanFail(clause) == clause # None /\ (Here \in Records => ~Holds(clause, table, Here))

Stops == ~Unconditional(cmd) /\ ~Hidden /\ CanFail(cmd.while)
Passes == Hidden \/ (~Unconditional(cmd) /\ CanHold(cmd.while) /\ CanFail(cmd.for))
Accepts ==
    /\ ~Hidden
    /\ Unconditional(cmd) \/ (CanHold(cmd.while) /\ CanHold(cmd.for))

\* Where the pointer may stand after the clauses and the values of a REPLACE are
\* evaluated: reading a field at 0 moves it to record 1.  LIST does not move it
\* in front of the first record.
Stands ==
    IF cmd.verb = "list" /\ Here \notin Records THEN {current}
    ELSE {Here} \cup (IF Here = 0 /\ Reads(cmd) THEN {1} ELSE {})

Looping == ~Idle /\ rec <= until

\* WHILE fails: the loop ends.  An edit and a LOCATE go back to the last record
\* they took, if there is one.
Stop ==
    /\ Looping /\ Stops
    /\ current' \in IF cmd.verb \in Editing \cup Finding /\ last > 0
                    THEN {Goto(current, last)} ELSE Stands
    /\ rec' = until + 1
    /\ UNCHANGED <<table, search, cmd, until, last, saved, before, done>>

\* The record is not one the command is about.  LOCATE counts it as taken if its
\* WHILE held there.
Pass ==
    /\ Looping /\ Passes
    /\ current' \in Stands
    /\ rec' = rec + 1
    /\ last' = IF cmd.verb \in Finding THEN rec ELSE last
    /\ UNCHANGED <<table, search, cmd, until, saved, before, done>>

\* LIST asks for a key and may be told to quit.
PageIsFull == cmd.verb = "list" /\ Cardinality(done') % PageRows = 0

\* The records after a write at pointer p.
Written(p) ==
    IF p \in Records THEN {[table EXCEPT ![p] = Edited(cmd, @)]}
    ELSE {table} \cup (IF cmd.verb = "replace" THEN Overruns ELSE {})

\* Mutant: an edit reaches the record the pointer was left on.
TakeUnmoved ==
    /\ Looping /\ Accepts
    /\ current' \in Stands
    /\ table' \in Written(current)
    /\ done' = done \cup {current'}
    /\ last' = rec
    /\ rec' \in IF cmd.verb \in Finding THEN {until + 1}
               ELSE {rec + 1} \cup (IF PageIsFull THEN {until + 1} ELSE {})
    /\ UNCHANGED <<search, cmd, until, saved, before>>

\* The record is acted on.  LOCATE ends on it.
Take ==
    /\ Looping /\ Accepts
    /\ current' \in Stands
    /\ table' \in Written(current')
    /\ done' = done \cup {current'}
    /\ last' = rec
    /\ rec' \in IF cmd.verb \in Finding THEN {until + 1}
               ELSE {rec + 1} \cup (IF PageIsFull THEN {until + 1} ELSE {})
    /\ UNCHANGED <<search, cmd, until, saved, before>>

\* Mutant: the pointer stays where the loop left it.
Unsettled == current

\* After the loop NEXT goes back to the last record edited; then the pointer
\* returns to where it was, unless the scope is NEXT or REST.
Settled ==
    LET cur == IF cmd.verb \in Editing /\ ScopeOf(cmd) = "next" /\ last > 0
               THEN Goto(current, last) ELSE current
    IN  IF cmd.verb \in {"list"} \cup Finding \/ ScopeOf(cmd) \in {"next", "rest"}
        THEN cur ELSE Goto(cur, saved)

Finish ==
    /\ ~Idle /\ rec > until
    /\ current' = Settled
    /\ IF cmd.verb \in Finding
       THEN found' = (done # {}) /\ hits' = hits \cup done
       ELSE UNCHANGED <<found, hits>>
    /\ cmd' = None /\ rec' = 1 /\ until' = 0 /\ last' = 0 /\ saved' = 1
    /\ before' = table /\ done' = {}
    /\ UNCHANGED <<table, located, sought>>

-----------------------------------------------------------------------------
(* LOCATE, CONTINUE and GO *)

\* The records of a range that FOR selects before WHILE first fails.
Selected(range, c, tbl) ==
    {r \in range : /\ Holds(c.for, tbl, r)
                   /\ \A q \in range : q <= r => Holds(c.while, tbl, q)}

Locate(c) ==
    /\ Idle /\ c.verb = "locate"
    /\ Start(c)
    /\ located' = c
    /\ sought' = Selected(Records, c, table) /\ hits' = {}
    /\ UNCHANGED <<table, current, found>>

\* CONTINUE takes up the clauses of the last LOCATE, if there was one.  The
\* history follows it after a LOCATE or CONTINUE that found a record.
Continue ==
    /\ Idle
    /\ IF located = None
       THEN UNCHANGED <<scan, sought, hits>> /\ found' = FALSE
       ELSE /\ Start([located EXCEPT !.verb = "continue"])
            /\ IF found THEN UNCHANGED <<sought, hits>>
                        ELSE sought' = None /\ hits' = {}
            /\ found' = found
    /\ UNCHANGED <<table, current, located>>

\* GO, SKIP and an expression that reads a field at 0 put it somewhere.
Go(r) ==
    /\ Idle
    /\ current' = Goto(current, r)
    /\ sought' = None /\ hits' = {}
    /\ UNCHANGED <<table, scan, found, located>>

Next ==
    \/ \E c \in Commands : Run(c) \/ Locate(c)
    \/ Stop \/ Pass \/ Take \/ Finish
    \/ Continue
    \/ \E r \in GoTargets : Go(r)

Spec == Init /\ [][Next]_vars

-----------------------------------------------------------------------------
(* Properties *)

\* The types of the loop; the pointer is never behind the last record, in no
\* turn of a loop and with no RECORD n.
TypeOK ==
    /\ table \in [Records -> Record] /\ before \in [Records -> Record]
    /\ current \in Int /\ current <= NRecs
    /\ saved \in Int /\ saved <= NRecs
    /\ found \in BOOLEAN
    /\ located \in Commands \cup {None}
    /\ cmd = None \/ cmd \in Command
    /\ rec \in Int /\ until \in Int /\ last \in Int
    /\ \A r \in done \cup hits : r \in Int /\ r <= NRecs
    /\ sought = None \/ sought \subseteq Records

\* The first turn of the command is on a record, or its turns evaluate nothing.
\* (A clause in front of the first record reads no record, and a REPLACE there
\* may write over records.)
Sound(c, cur) == Goto(cur, First(c, cur)) >= 1 \/ ~Reads(c)

\* In the middle of a command every record it has acted on is edited once, no
\* other is touched, and the loop variable has passed them all: an edit does not
\* leak to the record the pointer happens to be on when a clause is evaluated,
\* and DELETE REST in front of the first record harms none.
EditedAreDone ==
    ~Idle /\ Sound(cmd, saved) =>
        table = [r \in Records |-> IF r \in done THEN Edited(cmd, before[r])
                                                 ELSE before[r]]

\* The records a scope names, seen from the pointer the command started at.
InScope(c, cur) ==
    {r \in Records :
        CASE ScopeOf(c) = "next"   -> IF c.verb \in {"delete", "recall", "list"}
                                      THEN r - cur \in 1..c.n
                                      ELSE r - cur \in 0..(c.n - 1)
          [] ScopeOf(c) = "rest"   -> r >= cur
          [] ScopeOf(c) = "record" -> r = c.n
          [] OTHER                 -> ~OneRecord(c) \/ r = cur}

\* What ScopeIsMet leaves out: RECORD n with no record n, which acts on the
\* current record, and clauses a command does not evaluate.
Plain(c) ==
    /\ c.verb \in Editing \cup {"count"}
    /\ c.scope = "record" => c.n \in Records
    /\ Unconditional(c) => ~Conditional(c)

\* A command that ends has acted on exactly the records of its scope that FOR
\* selects in front of the first one WHILE refuses, with both clauses read on
\* the table as it was when the command started, although the loop edits the
\* table it evaluates them on.  Without clauses DELETE, RECALL and COUNT do so
\* even when GO has left the pointer in front of the first record.
ScopeIsMet ==
    [][Finish /\ Plain(cmd) /\ Sound(cmd, saved)
       => done \cap Records = Selected(InScope(cmd, saved), cmd, before)]_vars

\* LIST shows the records not marked deleted that its clauses select, in a
\* WHILE that only those records can end, up to where the reader quit, wherever
\* the pointer was.
ListIsMet ==
    [][Finish /\ cmd.verb = "list" /\ (cmd.scope = "record" => ~Conditional(cmd))
              /\ (cmd.scope = "record" => cmd.n \in Records)
       => LET shown == Selected({r \in InScope(cmd, saved) : ~table[r].deleted},
                                cmd, table)
          IN  /\ done \subseteq shown
              /\ \A r \in done, q \in shown : q < r => q \in done
              /\ done = shown \/ Cardinality(done) % PageRows = 0]_vars

\* Whichever way the loop ended, a command leaves the pointer where it was,
\* unless its scope is NEXT or REST or it is LIST, LOCATE or CONTINUE.  NEXT and
\* REST never move it back, and an edit with NEXT whose first turn is on a
\* record leaves it on the last record edited.
PointerSettles ==
    [][Finish /\ cmd.verb \notin Finding \cup {"list"} =>
        IF ScopeOf(cmd) \in {"next", "rest"}
        THEN /\ current' >= saved
             /\ cmd.verb \in Editing /\ ScopeOf(cmd) = "next" /\ done # {}
                /\ First(cmd, saved) >= 1
                => current' \in done /\ \A r \in done : r <= current'
        ELSE current' = saved]_vars

\* LOCATE and the CONTINUEs after it, while each finds a record, find every
\* record the LOCATE promised, once and in order, standing on the one found; the
\* program may edit that record before it continues.  The first that finds none
\* has left none out.
LocateFindsAll ==
    [][Finish /\ cmd.verb \in Finding /\ sought # None =>
        /\ done \subseteq sought /\ \A r \in done, h \in hits : h < r
        /\ done = {} => hits = sought
        /\ done # {} => current' \in done]_vars

\* "if (for_start)  -> re-evaluate expr per record, skip if false"
\* (int/executor.c:1875), the usage of the scope helper: no command whose first
\* turn is on a record acts on a record that its FOR clause refuses.
ForIsRespected ==
    [][Finish /\ cmd.scope # "record" /\ First(cmd, saved) >= 1
       => \A r \in done : Holds(cmd.for, before, r)]_vars
=============================================================================
