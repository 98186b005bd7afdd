# DollyBASE in TLA+

DollyBASE is a dBASE III interpreter written in C. It has two layers: `libdbase_4`, a
library that reads and writes `.dbf`, `.dbt`, `.ndx` and `.ntx` files, and `int`, an
interpreter (`prg`) for dBASE programs over that library. This directory holds TLA+
modules that model the core of both layers, the configurations under which TLC checks
them, and proofs that TLAPS checks. `PROJECT.json` lists the runs, ties every
definition to the lines it was written from, and lists the hazards the properties are for.

## 1. The system

| part | state it keeps | operations | what can go wrong | module |
|---|---|---|---|---|
| table files (`low.c`, `appends.c`, `deletes.c`, `recs.c`) | the header's record count, the records, an end; in memory (`DATABASEDBF`) a copy of the count and the record pointer | `use`, `gotos`, `skip`, `get_field`, `delete`, `recall`, `replace`, `append_blank`, `pack` | count and contents are written separately; the interpreter may die; the file may be read-only; the end of the file need not be the end of the records | `DbfFile`, `DbfTable` |
| sharing and locks (`locker.c`, `_DBFLOCK` in `creates.c`, `recs.c`) | a lock digit in a field of the table | `dbf_lock`, `rec_lock`, unlock, queries | each handle has its own old count; locks are data written like any other | `DbfShared` |
| work areas (`workarea.c`, `exec_use` ...) | ten areas: table, memory, alias, pointer, index and order, FOUND, the last LOCATE; the selected area | USE, CLOSE, SELECT, GO, APPEND BLANK, PACK, SET INDEX, SET ORDER, SEEK, LOCATE, CONTINUE | state that outlives the table it was about; freed memory; one command disturbing another area | `WorkArea` |
| record loops (`executor.c` scopes) | loop variable, saved pointer, last record taken, the clauses | DELETE, RECALL, REPLACE, COUNT, AVERAGE, LIST, LOCATE, CONTINUE with ALL, NEXT, RECORD, REST, FOR, WHILE | the loop edits the table its clauses are evaluated on, and moves the pointer they are evaluated at | `Scope` |
| memo files (`recs.c`, `deletes.c`) | the first free block in the `.dbt` header, blocks of 512 bytes, block numbers in the records | REPLACE of a memo (`add_to_dbt`, `replace_dbt_block`), `get_memo_field`, PACK (`pack_db_with_dbt_file`) | a number written as one byte and read as signed ones, memos longer than a block, death between block, header and record, renumbering in PACK | `DbtMemo` |
| index files (`index.c`, `seeks.c`, `exec_index`, `wa_seek`) | pages of keys, written once by INDEX ON | INDEX ON, SEEK | pages out of reach of the root, keys out of date, page numbers misread, a descent without end | `Ndx` |
| control flow (`executor.c`, `prg.c`) | the token cursor, the C stack, the call stack, the return target, the procedure registry | IF, DO WHILE, DO CASE, LOOP, EXIT, DO, RETURN, CANCEL, SET PROCEDURE | blocks are skipped by counting keywords, statuses travel through C functions, two stacks must agree, limits | `Program`, `Structured`, `Control` |
| memory variables (`variables.c`, `memfile.c`, `exec_save`, `exec_restore`) | a list of at most 1024 variables, its file image | assignments, CLEAR, SAVE, RESTORE | silent limits, names and values the file cannot hold, death in a SAVE | `MemVars` |
| creating tables (`creates.c`, `create_ui.c`) | none of its own | CREATE | only its result matters to the others | initial states |
| tokenizer, parser, values; screen; labels, relations, export | | | sequential computation and I/O | not modelled |

The interpreter is one thread: a command runs to its end before the next begins. What
interleaves is (a) several interpreters on one file, (b) a command and the death of the
interpreter between two of its writes, and (c) commands of one program that leave state
behind for later ones: stale counts, indexes and LOCATEs, saved pointers. There are no
callbacks, timers or retries. Two loops of the interpreter have no bound of their own: the
descent of SEEK (`while (1)`) and the run of a program. For these there are liveness
properties, under weak fairness of the steps of the one thread that runs them: nothing else
can hold it up. Commands are given by a program nobody schedules, so that the other
specifications have no fairness and safety properties only.

How the parts interact: `executor.c` parses a command and calls `wa_*`; `workarea.c` picks
the selected `DATABASEDBF` and calls the library; every library call opens the file by
name, writes and closes it, so that what it writes is visible to other handles at once;
`executor.c` also calls `gotos` directly on the selected area in its record loops. A memo is
written by `replace` after it has read the block number out of the record; PACK takes a
function of its own if there is a memo field. SEEK asks the index for a record number and
moves the pointer itself. RETURN pops the interpreter's `call_stack` while the C functions
that are running unwind by the statuses they return.

## 2. The modules

```
Selection         some elements of a sequence, in order
DbfFile            cells of a file: offsets, reading, writing
 |- OperatorLemmas      what the operators of the two return
 |- DbfTable       one area, one file, read-only files, deaths
 |   |- DbfTableRefines   DbfTable implements Table
 |       |- DbfTableProofs
 |- DbfShared      several handles, locks
     |- DbfSharedProofs
Table              the abstract table: what a program may rely on
WorkArea           the areas
 |- WorkAreaProofs
Scope              the record loops
 |- ScopeProofs
DbtMemo            a memo file and the block numbers in the records
 |- DbtMemoProofs
Ndx                an index file, INDEX ON and SEEK
Program            the lines of a program and its block structure
 |- Structured     what its flow of control should be
 |- Control        what executor.c makes of it; implements Structured
     |- ControlProofs
MemVars            variables, SAVE and RESTORE
 |- MemVarsProofs
MC...              the instances for TLC
```

**Selection.** `Chosen(s, S, n)`: of the first `n` elements of `s` those at the positions in `S`. The
records and memo blocks PACK keeps, the variables a SAVE writes and the procedures `proc_scan`
registers are chosen by a loop over a sequence; they share this operator so that what is proved of it
serves all of them.

**DbfFile.** A file is its header's count and a *body*, the sequence of cells (bytes) behind
the header. `Offset` is the `(current-1)*rec_len` of every function of the library,
`WriteAt` is `fseek` and `fputc` (a write beyond the end leaves a hole), `CellAt` is `getc`
(which yields EOF, stored as a byte, beyond the end). A record is one flag cell and
`RecLen - 1` data cells. Of the header there is its length; `Position`, `BodyAfter` and `Touches`
say what a write does that begins in it or in front of the file: `fseek` refuses a negative
position, so that `fputc` writes from the beginning of the file, and what is longer than the rest
of the header runs over into the records.

**DbfTable.** Variables `recnos` and `current` are the fields of `DATABASEDBF`, `open` is
whether the area holds one. Commands that write once are one action. APPEND BLANK is
`AppendCount` (the four count bytes, which `fseek(SEEK_END)` flushes) and `AppendBlanks`.
PACK is `PackStart`, one `PackRecord` per round of the loop in `pack`, and `PackRename`
with everything `wa_pack` does afterwards (close, open, goto, bottom at EOF).
`AppendFails` and `PackFails` are the error paths, `Crash` the death of the interpreter in
any of these states. ZAP is PACK (`wa_zap` calls `wa_pack`). PACK walks the table twice: the mark is
read at the area's pointer, which `skip` moves, and the cells where a file handle stands; `PackRecord`
has both (`current` and `i`). GO takes any number up to the count, so DELETE, RECALL and
REPLACE may write in front of record 1. Such a write (`WriteFile`) may hit the bytes of the count
(`CountBytes`), after which USE reads any of `StrayCounts`; other bytes `use` relies on
(`LayoutBytes`), after which it refuses the file (`layoutOK`); or records. `astray` is history: the
count was hit and no PACK has set it since. `Careful` is a parameter of the
*program*: with TRUE it does not edit when the pointer is on no record.

**Table / DbfTableRefines.** The abstract table is a sequence of records with a mark and a
field; PACK removes exactly the marked ones, APPEND adds one blank record, in one or two
steps. A torn APPEND leaves a *pending* record, of which nothing is promised but that it is
there. The refinement mapping reads the records 1..count out of the body; a record not
completely in the file is pending.

**DbfShared.** Each handle has its own count, read once by USE. `oneProcess` says whether
the handles are two areas of one interpreter (commands do not interleave) or of two (they
interleave between the two writes of an APPEND). `multi` says whether the table has a
`_DBFLOCK` field; then `replace` writes one cell to the right of the field (`Shift`), as
`recs.c:347` does. `early` counts the USEs that fell between the two writes of an APPEND. GO takes
any number here, too; writes at a pointer in front of record 1 are left to DbfTable (`rec >= 1` in
`WriteInRecord`), since what they do to the header has nothing to do with the other handles.
PACK is left out: with a second handle open it drops the records that handle appended, and
no property would be left to state.

**WorkArea.** A table is its number of records, a search finds any of them. `addr` is the
address of an area's `DATABASEDBF`; `calloc` may return any free address, also one freed
just before. CLOSE ALL leaves indexes and LOCATEs, as `wa_close_all` does. INDEX ON opens its
index as SET INDEX does, and is that action here. GO takes 0 and negative numbers, as `gotos` does;
`ReadField` is the one way a pointer then moves by itself (`get_field` makes a 0 a 1), in whatever area
an expression names. `Pack` reopens the table; `PackLost` is the case in which it cannot: closing the
area has selected area 1, and the pointer moves there.

**Scope.** `First`, `Until`, `Unconditional` and `Settled` say how the loops of the commands
differ; a turn of the loop is `Stop` (WHILE fails), `Pass` or `Take`, and `Finish` is what
follows the loop. A condition is the set of (record number, record) pairs it holds on. A loop may
start in front of record 1 (GO 0, then REST, NEXT or no scope at all): there a clause may hold or not, reading a field
moves a pointer of 0 to 1 (`Stands`), LIST skips the turn (`Hidden`), DELETE and RECALL change no record, and a
REPLACE may leave any table of `Overruns` (`Written`). `Sound` says which commands are safe from this: those
whose first turn is on a record, or that evaluate nothing.
`before`, `done` (the positions of the pointer the command acted at), `sought` and `hits` are history. The table has at least one record
(empty tables are in DbfTable); REPLACE into fields of another area is left out, and
AVERAGE, which scans as COUNT does, is the verb "count".

**DbtMemo.** `ptr` is the block number each record's memo field holds, `header` and `blocks`
are the `.dbt`. A text is abstracted to how many blocks it fills and whether the last of them
has room for the zero byte that ends it, since that is all the code looks at. Storing a new memo is
`AddStart` (the header is read), one `AddBlock` per block, `AddHeader`, `AddPointer`; storing
over a block is `Overwrite`, and `Refuse` is every case in which the code stores nothing.
`SignedByte` and `LowByte` are how the number is read (four chars, signed) and written (the
first byte only). PACK is `PackTable` and `PackFile`; since the copy it reads the old numbers from is not
open for reading, the numbers it maps are indeterminate (`Renumbered`). `Death` may come between
any two writes. `truth` is history: the text last stored for a record. `strayed` and `wrapped`
remember the three events after which two records may name one block.

**Ndx.** A key is a short sequence of letters; `Less`, `Agree` and `Before` are the three ways the
code compares keys. `Build` is INDEX ON: it sorts the records that have a key and cuts them into
leaves; `Root` is the page written last. SEEK is `SeekStart`, a `Descend` per interior page, and
`Answer` or `NotFound` at a leaf. The table may be edited (`Replace`, `AppendBlank`, `Pack`) after the
index was made, and is not indexed again. Page and record numbers are read back through
`ReadBack`, as in the code.

**Program, Structured, Control.** The interpreter has no syntax tree, so a program here is a
sequence of lines of which the first keyword is kept, all files one after the other. `Program`
holds this, and the scans that look for a keyword while they count others (`StopsAt`); `WellFormed`
says what a program with matching keywords is.
**Structured** is what the flow of control should be: its state is a line and the lines to return to; ends of
blocks are found by matching keywords. **Control** is the code: `stack` holds one activation per
C function that runs a construct (`then`, `else`, `while`, `case`, `tokens` for
`execute_tokens`, `range` for `execute_token_range`), `status` is what the innermost returned, `calls` is `call_stack`.
Every scan has the keyword lists of the function it is in. What a condition yields is chosen at each
evaluation. The refinement mapping takes `line`, the last line at which control was settled (not
between a status and its handler, nor while DO CASE looks for a branch), and the resume points of the calls that run.
`Misread` lists the forms the scans of the code take for something else; `ImplementsStructured` is about the other programs, the
tame ones, and up to the first procedure that ends without RETURN or call beyond the limit. An activation of IF or
DO CASE remembers the line of its block, which the code does not: no guard and no other variable depends on it, but
without it one could not say which block an activation runs.

**MemVars.** `vars` is the store in its order, `file` the complete records of the `.MEM` file. SAVE is
`SaveStart` (the file is emptied), `SaveRecord` per variable and `SaveEnd`. `Death` in it leaves any first part of
what was written, since the file is buffered. `Restored` is the conversion a value goes through:
whole reals become integers, NULL an empty text, the length of a text is kept in two bytes, and a date loses its day because it is printed into
nine bytes. `Short` is the cut to eleven characters. `saved` and `whole` are history.

A comment `Mutant:` marks a definition that is no part of a model: a variant of the next
definition with a mistake one could make there. `PROJECT.json` says which property finds it.

## 3. The runs

| run | question | instance | result |
|---|---|---|---|
| `table` | do the count, the pointer and the records survive every sequence of commands, failed writes and deaths? | records of 4 cells, headers of 2 and 5 bytes (so that a write in front of record 1 can hit the count, the layout, neither, or run into the records); four files, two of them as dBASE leaves them (end mark, remains behind it), writable or not; up to 2 records, 2 deaths; GO -1, 0, 2 | 7 040 841 states, no error |
| `table_refines` | does the file behave as the abstract table? | own files, careful program, records of 2 cells, values a, b, up to 3 records, 2 deaths | 196 485 states, no error |
| `shared` | what may handles with old counts rely on? | 2 handles, one or two processes, with and without `_DBFLOCK`, records of 4 cells, up to 2 records per handle; GO -1, 1, 2 | 894 899 states, no error |
| `work_area` | are memory, aliases, orders, pointers and other areas safe from every command? | 2 areas, 2 addresses (symmetric), one table that may be open twice, one alias, one index, up to 2 records; GO -1, 0, 1, 2 | 1 816 376 states, no error |
| `scope` | do the loops act on the records their scope names, and settle? | all tables of 3 records with values a, b; every verb and scope, NEXT and RECORD inside and beyond the table, six choices of FOR and WHILE among DELETED(), FIELD = "a", RECNO() <= 2 (two under RECORD), LOCATE with and without WHILE; a page of 2 lines; GO -1, 0, 2 | 1 309 570 states, no error |
| `scope_all` | does a command respect its FOR? | the same | violated |
| `control` | does control follow the block structure, return to the caller, and end? | every program of up to 7 lines; 13 with nested blocks; 10 with procedures and files; 2 frames, 3 procedures, 2 loop turns | 66 468 states, no error |
| `exit_in_case` | does EXIT leave its loop? | the menu of `examples/crud` | violated |
| `memo` | do records share blocks, and is a memo what was stored? | 2 records, texts of no block, one, one to the brim, two, and more than a byte can count; bytes of 6 values (so that a header of 3 reads as negative and 6 wraps), readers of 2 blocks, 0 or 1 block left from before; death anywhere | 1 203 518 states, no error |
| `pack_memo` | does PACK keep the memos? | the same | violated |
| `index` | does SEEK find what INDEX ON put there, and return? | all tables of up to 3 records, sorted ones of 7, one of 24; pages of 1, 2, 3 entries; bytes of 16 values; one edit after the index was made | 300 363 states, no error |
| `memory` | does RESTORE give back what SAVE was to write? | 3 names, two with the same short one; an integer, a whole real, a date, NULL, a text too long for its length field; a store for 2, 1 filtered name; death anywhere in SAVE | 322 355 states, no error |

The bounds. Three records are enough for a first, a middle and a last one, for PACK to drop,
keep and close up, and for NEXT to be cut off; two deaths allow a death in the repair of
what the first left. Two-cell records tell the flag from the data and make a shift by one
cell visible. In `table` they have four, so that a field is wider than the shorter header and a
REPLACE that begins there reaches record 1; with two records PACK still drops one of two, the first or
the last. With `HeaderLens` 2 and 5, byte 0 the count and byte 1 the layout, GO 0 and GO -1 give writes on each of
them, on neither, and over both into record 1; a stray count is none or more than the file holds. DbfShared needs four cells
for the lock field, its shift, and data behind it. Two areas and two addresses let an address move
from one area to the other; area 2 can lose its table in PACK while area 1 has one open, or none.
`Overruns` is one table, which differs from the others in record 1.
`PageRows` is 2 instead of the screen's rows so that a page fills inside a table of three.
Seven lines hold every construct inside every other once; what needs more (three levels, a
jump through two constructs) is in the thirteen longer programs. Two frames are exceeded
by three calls, three procedures by registering a file twice. In the memo and index models a
byte has few values so that a number reaches its sign bit, and wraps, after a few blocks. The
bounds in guards are `MaxRecs`, `MaxCrashes`, `MaxEarly`, `MaxTurns` and `MaxEdits`; the proofs hold for any value
of those they meet. Deadlock is checked in every run: there is always a command to give, and a
program that has ended stutters.

Fairness. `Control` assumes WF of its one step and `Ndx` WF of the steps of a SEEK, since one thread executes
them and waits for nothing. `Terminates` is about programs whose conditions become false within
`MaxTurns` loop turns and whose procedures do not call each other in a circle; what it shows is that no jump,
scan or return leads back to where control came from. `SeekReturns` holds for every
number a page can be misread as.

What the violated properties show (each quotes the line it takes from the repository):

* `scope_all`: the ALL branches do not evaluate the clauses that were parsed.
* `exit_in_case`: a branch of DO CASE drops EXIT and LOOP, so that the menu loop of the
  example never ends.
* `pack_memo`: PACK opens its copy for writing only and then reads the block numbers from it;
  records that stay get 0 or the number of some other block.

Other places where the code does not do what it says, which no run is about:

* `append_blank` appends behind the 0x1A mark dBASE ends a file with: the new record starts with
  the mark. (`AppendYieldsBlank` is checked and proved for files without trailer.)
* `gotos` accepts 0 and negative numbers (GO BOTTOM and PACK use 0 on an empty table); the next DELETE,
  RECALL or REPLACE writes in the header: on the count (`astray` in DbfTable), on what `use` needs
  (`layoutOK` becomes FALSE, and PACK may then not reopen the table), or over the whole header into the first
  records. DELETE REST after GO 0 takes such a turn, too.
* PACK that cannot reopen its table has closed it, selects area 1, and moves the pointer of
  the table open there.
* With two handles the count of one is old: its APPEND does not raise the header's count and
  stands on the other handle's record.
* `replace` writes the lock digit one cell too far right, and `get_field`'s trimming does not
  see it: `if_dbf_lock` always says unlocked. Nobody looks before locking, either.
* CONTINUE recognises its LOCATE by an address that `malloc` may hand out again after CLOSE and USE.
* An ELSE inside a skipped branch ends the outer IF's branch; a DO CASE inside a skipped branch, or between an
  EXIT and its ENDDO, misleads the scan (`Misread` in Control lists all forms).
* SET PROCEDURE forgets the procedures of the program itself, and frees the tokens of the file before.
* An empty text is given a block number that the next text gets, too; a text longer than a block is
  refused for a record that has one, without an error; a text that fills its blocks exactly is read
  on into the next block; a memo of several blocks is read with the marks that end a block inside it; `get_field` of a memo gives
  `get_memo_field` no buffer and dies.
* With 128 blocks the `.dbt`'s header reads as negative and no memo can be stored or read.
* SAVE ALL LIKE with a pattern nothing matches saves everything; a restored date has lost its day; a text of 65536 bytes
  or more loses itself and every record behind it.

## 4. The proofs

All theorems hold for every value of the constants that satisfies the `ASSUME`s of the
modules: a record has at least two cells (four with a lock field), the files a program finds
hold the records they count, the count is in the header, a stray count is a natural number, `calloc` finds room, conditions are sets of records, a text fills
some number of blocks, programs end with the end of a file. GO takes any integers (`GoTargets`). Where a theorem has a hypothesis of its
own it is named below. Every invariant and action property of the runs `table`, `table_refines`,
`shared`, `work_area`, `scope`, `memo` and `memory` is a theorem, and of those of `control` all but the liveness
property `Terminates`.

* **OperatorLemmas.** What `Chosen` is: its equations (`ChosenFollows`), its type, that it depends on the
  chosen elements only, and which position each of its elements comes from (`Places`). The
  induction behind them is over the numbers a set contains (`SetInduction`), from the fact that a set of
  natural numbers has a smallest element; the library's induction theorems take an operator, which the
  provers cannot instantiate, but a set of numbers can be named. That the recursive function exists is
  proved too (`FollowsUpTo`, `FollowersAgree`). Behind them the lemmas about the cells of a file: which a
  write leaves alone, and that ranges of different records are disjoint. The module declares the constants of
  DbfFile, on which the lemmas about `Chosen`, and the proofs of the modules that use only them, do not depend.
* **DbfTableProofs, invariants.** `IInv` strengthens `Backed` by three facts: while an APPEND is under way
  `endpos` is the end of the file and the count at least one; while PACK copies, `temp` is
  `kept` whole records and the pointer is on the record the handle is at; and the area's count is the header's if the file can be written
  (without it an APPEND could raise the count by more than the one record it writes).
  From it follow `TypeOK`, `Backed`, `PointerInTable` and `CountsAgree`. What is proved of the count is
  proved while no write in front of the records has hit its bytes (`~astray`), which a careful program never does, and
  again after the next PACK. `WriteAnywhere` says what any write keeps: the body is not
  shortened, and the count stays unless `astray` says so; `WriteBehindHeader` that a write from a record on leaves the
  header alone; and a write in front of the records that reaches them has crossed the count, which is the
  exception in `RecordsStable`. `RecordsStable` and
  `PackRealigns` are step properties; the first rests on lemmas about `WriteAt` (cells
  outside the written range are kept, and ranges of different records are disjoint).
* **DbfTableProofs, PACK.** `PackKeepsLive` without further hypotheses. The invariant `PackCopies` says what the temporary
  file holds after `i - 1` rounds: the records at the `Places` that are not marked, one behind the other.
  It survives a round because `Places` grows by the record the round copies or not at all. At the rename,
  `LiveRecords` of the new body is then the list of the old one, of which nothing is marked.
* **DbfTableProofs, APPEND.** `AppendYieldsBlank`, under two assumptions: the files have no trailer
  (see section 3: what other programs leave behind the last record shows in an APPEND), and the program is careful (an edit on a table
  without records writes where the first record will be). The invariant is that behind the last record there
  are only blanks, which is why the blank slot PACK leaves in an empty table does no harm.
* **DbfTableProofs, the refinement.** `FileImplementsTable`: initial files are initial tables, and every step over
  the cells is a step of `Table` or leaves it as it is. Its hypotheses are those of APPEND and that the files can be
  written, which is what the run `table_refines` assumes: on a read-only file APPEND moves the count in memory only, and
  Table has no such state. The mapping reads each record out of its cells, so a step that writes cells is
  shown to change one record's view (the lemmas on `RecordView`), an APPEND to add one, pending until
  its blanks are written, and PACK to map to one step, with the list of records from `PackCopies`.
* **DbfSharedProofs.** `ViewBacked` and `CountBacked` for any set of handles. The two are
  inductive together, with `endpos <= Len(body)`: a USE turns a fact about the count into
  one about a handle, an APPEND turns it back. `TypeOK` is part of the same invariant.
  `OthersUntouched` needs one more invariant, `AppendAlone`: in one interpreter a handle between the two writes of
  its APPEND is the only one that is not idle, so that its blanks still go to the end of the file.
* **WorkAreaProofs.** The invariants of the module are inductive together. `OneAreaAtATime`
  follows from `TypeOK` and the frame of each action; its third case is the PACK that cannot reopen its table.
  `OnlyGoLeavesRecords` is proved action by action (`KeepsRecord`): a command that takes the pointer off the
  records has to be a GO to 0 or less, or that PACK while its own area's pointer was there.
* **ScopeProofs, edits.** `IInv` holds the loop invariant: what was acted on is what scope and
  clauses select in front of the loop variable (`Selecting`), where both are read on the
  table *before* the command. It holds of the commands that are `Sound`: a clause read in front of record 1
  may yield anything, and a REPLACE there may alter records. The step that matters is that an edit of a record cannot
  change a later turn, because each record is visited once (`TurnIsFresh`). From it follow
  `EditedAreDone`, `ScopeIsMet`, and with `Placed` (the pointer is never behind its start)
  `PointerSettles`.
* **ScopeProofs, LIST.** `Listing`: what was shown are the records to be shown in front of some record `m`. While the loop runs
  `m` is the loop variable; when it has stopped, `m` is beyond the range or the number shown is a
  multiple of the page. `ListIsMet` reads this off at the end of the loop.
* **ScopeProofs, LOCATE.** `LocateFindsAll` speaks of a LOCATE and all CONTINUEs after it. The invariant
  between commands, `FoundUpTo`, is that the hits are the records sought up to the pointer, and those
  sought beyond it are what the remembered clauses select there *now*, or that nothing is left to be found; inside a search,
  `Looking` says what the turns so far have seen. An edit in between may change only the record the pointer
  is on, so what is selected beyond it stays; any other command ends what is promised.
* **DbtMemoProofs.** `OwnBlocks` and `MemosKept` are about the history of all REPLACEs at once. The invariant
  (`IInv`) puts each text in front of the header's number if that is positive, and in front of
  the block of the call under way (`FreeOK`); what this call has written is in its blocks
  (`WrittenOK`); and no two records' `Span`s meet, where a span is the blocks a text fills or the one an empty text
  will be given back. `Span` is larger than the `Extent` of the property: without it `Overwrite` of an empty text would not
  keep the invariant. The number lemmas say that what two signed bytes are read as is never more than what
  was written, and equal to it while it is positive and below `Radix`. `ReadsBack` follows from `MemosKept`
  and where `get_memo_field` stops (`EndsAt`).
* **MemVarsProofs.** `TypeOK`, `FileIsPrefix` and `RestoreGivesBack`. During a SAVE the file is the shortened
  part of `saved` that comes from the variables in front of `op.next` (`Saving`), so that whatever death leaves
  of it is a prefix. RESTORE is a recursion over the records of the file; that the function `Load` names exists is proved as
  for `Chosen` (`LoadFollows`). What it keeps from record to record (`LoadFacts`): the store is one, the
  variables under other names are what they were, and under each name stands what the last record so far gave,
  or nothing and the store is full.
* **ControlProofs, the two stacks.** `ReturnsToCaller`, for every set of programs and any limit on the depth of
  calls. It says something about one state of the two stacks only when a RETURN is about to leave
  its call; the invariant says it of all others. `Nested`: a call is one level above what it was
  called from, a block on the level of what surrounds it, and the program itself is at the bottom.
  `Matched`: the frame at the level of each running call is where that call resumes, except for
  the innermost while its RETURN, which has popped the frame already, is on its way out of the
  blocks around it; then the popped frame is `target`. It says nothing after a procedure ended
  without RETURN (its frame stays) or a call found the stack full (its frame is missing).
* **ControlProofs, the places.** `TypeOK`: the cursor never leaves the program, however the scans and jumps move it
  (`Placed`). Every line that is not the end of a file has one behind it; every activation resumes at a line, and the one
  of a loop remembers a line with DO WHILE (`Remembers`); what is registered are lines with PROCEDURE, by
  the lemmas on `Chosen` (`Known`).
* **ControlProofs, the structure.** `ImplementsStructured`, for every set of well formed programs (`WellFormed`) whose
  calls stay known (`CallsKnown`): each step of the interpreter in a tame program is one step of `Structured` or none.
  The proof has three parts.
  1. *The geometry of a program.* The level of a line is the number of blocks open there. The end of a block is the first
     line behind it where the level falls (`EndFacts`), so blocks nest (`BlocksNest`); a line is directly in at most one
     (`Inside`, `InsideOne`), each part of a block in its own (`PartOfBlock`).
  2. *The scans.* From a line directly in a block each loop of the code that counts keywords stops at the end
     of that block: skipping an ELSE branch counts all kinds (`BlockScan`), a false IF stops at its own ELSE (`IfScan`), a loop
     counts only DO WHILE and ENDDO (`LoopScan`), EXIT counts DO CASE as well (`SameScan`, in a tame program there is none).
     Each lemma needs just the clause of `Misread` that rules out its mistake.
  3. *The invariant* (`Tracked`). Each activation stands directly in what it runs: `In` says in which block, behind which
     ELSE, in which branch. Each was pushed at a line of the one below (`Chained`), so that when a block ends or a status
     leaves it, control is again in the one around. `Here` says where the innermost is: on the line `line`; or looking for
     a branch, `line` being still that of the DO CASE or of the end of the branch taken (`Seeking`); or a status is on its way
     and no loop it passed surrounds the line that raised it (`Raised`). `AllKnown`: the procedures of the first
     file stay registered. There is one lemma per action (`SimpleMaps` to `ReturnFromProgramMaps`).

  `CallsKnown` is needed because `Structured` calls every procedure of the program, the code those that it has registered: a
  called name that is that of a procedure has to be in the first file, that file's procedures fit into the
  registry, and no SET PROCEDURE forgets them. Programs that call procedures of other files are beyond the theorem; the run
  has some. That the hypotheses are met by programs with all constructs is evaluated with the run
  (`FollowsAssumption` in MCControl).

What the proofs changed in the models: the lists of PACK, SAVE and `proc_scan` are stated with `Chosen` instead of
`SelectSeq`, and RESTORE with a recursive function instead of a fold, since their recursion the provers cannot open;
MemVars says which values there are; the resume points Structured sees are stated with `Chosen`, too; and Scope assumes that the value that stands for "no LOCATE" is no
command.

Only model-checked: the safety properties of Ndx (`Build` sorts with `SortSeq`, which
takes the order as an operator and chooses a permutation; that a sorted one exists is an induction over the records). The
liveness properties `Terminates` and `SeekReturns` are out of the prover's reach. Of `ImplementsStructured`, the programs
whose procedures are in more than one file.

## 5. Not modelled, and why

The tokenizer, parser and expression values compute without state that commands share: a
condition is the set of records it holds on, or a free choice in Control. The screen, labels,
relations and exports are input and output. Creating a table is the initial states.

Within modelled parts: a header whose lengths a stray write turned into others that `use` accepts, so that
the file is read as another table (such a file is refused here); record numbers so far below zero that
a position overflows; the update date in the header (no property depends on it); `delete_next`,
`recall_next`, `delete_all` and `recall_all` of the library, which no command calls (the commands
have loops of their own, in Scope); `wa_index_skip`, `search_first_*` and `search_next_*`, which no command
calls; NTX files, which are read but never written; several memo fields in a table and two
programs that share a memo or index file, for which the code has no protection at all; the
parameters of DO ... WITH, which are variables; the imports of `memofields.c`. SET PROCEDURE
inside a procedure of the file it frees is undefined, and such programs are excluded by
`SetProcAssumption`.

## 6. The plan

Done: all modules of section 2, with proofs of all properties of DbfTable, DbfShared, WorkArea, Scope, DbtMemo, MemVars and
Control that are not liveness. Next:

1. `ImplementsStructured` for programs whose calls are found in the files they run: the procedures known at a line would
   have to be part of `Structured`.
2. PACK in DbfShared; the arguments of DO ... WITH.
