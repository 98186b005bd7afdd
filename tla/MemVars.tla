------------------------------ MODULE MemVars ------------------------------
(***************************************************************************)
(* The memory variables of a program (variables.c), and SAVE TO and        *)
(* RESTORE FROM, which write them to a .MEM file and read them back        *)
(* (memfile.c).  The store is a list; a file is a list of records with a   *)
(* name of eleven characters, a type and a value.  The interpreter may die *)
(* while it writes, and starts again without variables.                    *)
(***************************************************************************)
EXTENDS Integers, Sequences, FiniteSets, SequencesExt, FiniteSetsExt, Selection

CONSTANTS
    Names,          \* names of variables; upper and lower case are one
    Short,          \* the first eleven characters of a name, a name again
    Values,         \* what variables are given
    MaxVars,        \* MAX_VARS
    MaxFiltered,    \* the names SAVE ALL LIKE or EXCEPT can collect
    LengthRadix     \* the lengths of a text a record's header can tell apart

ASSUME NamesAssumption == /\ Short \in [Names -> Names]
                          /\ \A n \in Names : Short[Short[n]] = Short[n]
ASSUME BoundsAssumption == /\ MaxVars \in Nat \ {0} /\ MaxFiltered \in Nat
                           /\ LengthRadix \in Nat \ {0}

VARIABLES
    vars,       \* store: the variables, in the order they were made
    file,       \* the .MEM file: the records that are complete
    op,         \* the SAVE under way: what it selects, and its place in the store
    \* history
    saved,      \* the variables the last SAVE was to write
    whole       \* it was not cut short

state == <<vars, file, op, saved, whole>>

-----------------------------------------------------------------------------
(* Values.  A number is counted in halves, a date is a month and a day, of a *)
(* text only the length matters.                                             *)

ValTypes == {"null", "integer", "real", "text", "date", "logical"}

IsValue(v) == /\ v \in [type : ValTypes, data : Int]
              /\ v.type \in {"text", "date"} => v.data \in Nat

ASSUME ValuesAssumption == \A v \in Values : IsValue(v)

Null == [type |-> "null", data |-> 0]
Text(length) == [type |-> "text", data |-> length]
Date(month, day) == [type |-> "date", data |-> 100 * month + day]

\* The conversion to a day number is a day late in these months.
LateMonths == {3, 5, 7, 10, 12}

\* The nine bytes a date is read into have no room for its day; without a day it
\* is not a date any more, and is written as day number 0.
RestoredDate(month, day) ==
    IF day = 0 THEN Date(0, 0)
    ELSE IF month \in LateMonths /\ day = 31 THEN Date((month % 12) + 1, 0)
    ELSE Date(month, 0)

\* What a value is after SAVE and RESTORE.
Restored(v) ==
    CASE v.type = "real" /\ v.data % 2 = 0 -> [v EXCEPT !.type = "integer"]
      [] v.type = "null"                   -> Text(0)
      [] v.type = "text"                   -> Text(v.data % LengthRadix)
      [] v.type = "date"                   -> RestoredDate(v.data \div 100, v.data % 100)
      [] OTHER                             -> v

\* The length in a header is not the one of the text behind it.
Overlong(v) == v.type = "text" /\ v.data >= LengthRadix

\* All but these are restored as they were saved.
Altered(v) == \/ v.type \in {"null", "date"} \/ Overlong(v)
              \/ v.type = "real" /\ v.data % 2 = 0

-----------------------------------------------------------------------------
(* The store *)

Var(n, v) == [name |-> n, value |-> v]
NamesIn(vs) == {vs[i].name : i \in DOMAIN vs}

\* The variables of vs whose names are in names.
OfNames(vs, names) == Chosen(vs, {i \in DOMAIN vs : vs[i].name \in names}, Len(vs))

\* Mutant: a name that is there already is added once more.
SetAnew(vs, n, v) == IF Len(vs) < MaxVars THEN Append(vs, Var(n, v)) ELSE vs

\* vars_set(): the variable of that name, or a new one if there is room.
Set(vs, n, v) ==
    IF n \in NamesIn(vs)
    THEN [i \in DOMAIN vs |-> IF vs[i].name = n THEN Var(n, v) ELSE vs[i]]
    ELSE IF Len(vs) < MaxVars THEN Append(vs, Var(n, v)) ELSE vs

Idle == [kind |-> "idle"]

Init == vars = <<>> /\ file = <<>> /\ op = Idle /\ saved = <<>> /\ whole = TRUE

\* An assignment, STORE, PARAMETERS, ACCEPT, a GET or a TO clause.
Assign(n, v) == /\ op = Idle
                /\ vars' = Set(vars, n, v)
                /\ UNCHANGED <<file, op, saved, whole>>

\* CLEAR MEMORY, CLEAR ALL
Clear == op = Idle /\ vars' = <<>> /\ UNCHANGED <<file, op, saved, whole>>

-----------------------------------------------------------------------------
(* SAVE TO *)

\* SAVE ALL: the first variables whose names match; if none does, no list of
\* names is handed on, which means all variables.
Filtered(matching) ==
    LET found == OfNames(vars, matching)
        kept == SubSeq(found, 1, Min({Len(found), MaxFiltered}))
    IN IF kept = <<>> THEN NamesIn(vars) ELSE NamesIn(kept)

\* Mutant: the old file is not emptied.
OldFile == file

\* fopen(..., "wb")
NewFile == <<>>

SaveStart(names) ==
    /\ op = Idle
    /\ op' = [kind |-> "save", names |-> names, next |-> 1]
    /\ file' = NewFile
    /\ saved' = OfNames(vars, names)
    /\ whole' = FALSE
    /\ UNCHANGED vars

SaveList(names) == names # {} /\ SaveStart(names)
SaveAll(matching) == SaveStart(Filtered(matching))
SaveStore == SaveStart(NamesIn(vars))

SaveRecord ==
    /\ op.kind = "save" /\ op.next <= Len(vars)
    /\ LET x == vars[op.next]
       IN file' = IF x.name \in op.names THEN Append(file, Var(Short[x.name], x.value)) ELSE file
    /\ op' = [op EXCEPT !.next = @ + 1]
    /\ UNCHANGED <<vars, saved, whole>>

SaveEnd ==
    /\ op.kind = "save" /\ op.next > Len(vars)
    /\ op' = Idle /\ whole' = TRUE
    /\ UNCHANGED <<vars, file, saved>>

\* The interpreter dies, and with it what it had not handed to the system yet;
\* of a record that is cut off nothing is read.
Death ==
    /\ op.kind = "save"
    /\ \E n \in 0..Len(file) : file' = SubSeq(file, 1, n)
    /\ vars' = <<>> /\ op' = Idle
    /\ UNCHANGED <<saved, whole>>

-----------------------------------------------------------------------------
(* RESTORE FROM *)

\* Mutant: a record that ends with the file is taken for one that is cut off.
AllButLast == {i \in DOMAIN file : i < Len(file)}

\* Behind a text that is too long, what is taken for a header is more of it.
Legible == {i \in DOMAIN file : \A j \in 1..(i - 1) : ~Overlong(file[j].value)}

\* The variables vs after the records that are read, one after the other.
Load(vs) ==
    LET loaded[i \in Nat] == IF i = 0 THEN vs
                             ELSE Set(loaded[i - 1], file[i].name, Restored(file[i].value))
    IN  loaded[Cardinality(Legible)]

\* Without ADDITIVE all variables are given up first.
Restore(additive) ==
    /\ op = Idle
    /\ vars' = Load(IF additive THEN vars ELSE <<>>)
    /\ UNCHANGED <<file, op, saved, whole>>

Next ==
    \/ \E n \in Names, v \in Values : Assign(n, v)
    \/ Clear
    \/ \E names \in SUBSET Names : SaveList(names) \/ SaveAll(names)
    \/ SaveStore
    \/ SaveRecord \/ SaveEnd
    \/ \E additive \in BOOLEAN : Restore(additive)
    \/ Death

Spec == Init /\ [][Next]_state

-----------------------------------------------------------------------------
(* Properties *)

IsStore(vs) ==
    /\ \A i \in DOMAIN vs : vs[i].name \in Names /\ IsValue(vs[i].value)
    /\ \A i, j \in DOMAIN vs : vs[i].name = vs[j].name => i = j
    /\ Len(vs) <= MaxVars

TypeOK ==
    /\ IsStore(vars) /\ IsStore(saved)
    /\ \A i \in DOMAIN file : /\ file[i].name \in {Short[n] : n \in Names}
                             /\ IsValue(file[i].value)
    /\ \/ op = Idle
       \/ /\ op.kind = "save" /\ op.names \subseteq Names
          /\ op.next \in 1..(Len(vars) + 1)
    /\ whole \in BOOLEAN

Shortened(vs) == [i \in DOMAIN vs |-> Var(Short[vs[i].name], vs[i].value)]

\* Whenever the interpreter dies in a SAVE, the file holds some of the first of
\* the variables the SAVE was to write, and nothing else; if it does not, all.
FileIsPrefix == /\ IsPrefix(file, Shortened(saved))
                /\ whole => file = Shortened(saved)

\* The place in the last SAVE of the variable that is restored under a short
\* name: the last one of them.
LastOf(n) == Max({i \in DOMAIN saved : Short[saved[i].name] = n})

\* The variables under short names are the last ones saved under them, the others
\* are what they were or gone.
GivesBack(additive) ==
    LET shorts == {Short[saved[i].name] : i \in DOMAIN saved}
        others == IF additive THEN OfNames(vars, NamesIn(vars) \ shorts)
                  ELSE <<>>
    IN /\ \A n \in shorts :
            LET v == saved[LastOf(n)].value
            IN \/ Altered(v)
               \/ Var(n, v) \in ToSet(vars')
               \/ n \notin NamesIn(vars') /\ Len(vars') = MaxVars
       /\ OfNames(vars', NamesIn(vars') \ shorts) = others

\* RESTORE makes the variables what they were at the last SAVE, and leaves no
\* other (ADDITIVE: every other as it was).  The exceptions: a SAVE that was cut
\* short, an overlong text, after which nothing is read, NULL, which is written as
\* an empty text, a date, whose day RESTORE cuts off although the record holds it,
\* and a store that is full.
RestoreGivesBack ==
    [][\A additive \in BOOLEAN :
         (Restore(additive) /\ whole /\ \A i \in DOMAIN saved : ~Overlong(saved[i].value))
            => GivesBack(additive)]_state
=============================================================================
