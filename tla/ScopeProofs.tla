---------------------------- MODULE ScopeProofs ----------------------------
(***************************************************************************)
(* Proofs about Scope, for every table, every set of conditions, every set *)
(* of commands and every number GO is given.                               *)
(*                                                                         *)
(* ScopeIsMet is not inductive.  The loop invariant says that what has     *)
(* been acted on is what the scope and its clauses select in front of the  *)
(* loop variable, and, while the loop has not stopped, that WHILE held on  *)
(* every record in front of it.  Listing says this of LIST, and Searching  *)
(* of LOCATE and CONTINUE, from one command to the next.                   *)
(***************************************************************************)
EXTENDS Scope, TLAPS

\* LOCATE is what located remembers, and a command has a number where it needs
\* one.
Formed ==
    /\ located # None => located.verb = "locate" /\ located.scope = "none"
    /\ ~Idle => (cmd.scope \in {"next", "record"} => cmd.n > 0)
    /\ ~Idle => (cmd.verb \in Finding => cmd.scope = "none")
    /\ ~Idle => (cmd.verb = "replace" => cmd.with \in Value)

\* The bounds of the loop are those the command had when it started.  A RECORD n
\* with no record n stays on a record if it started on one.
Bounded ==
    ~Idle => /\ until = Until(cmd, saved)
             /\ First(cmd, saved) <= rec
             /\ Sound(cmd, saved) => \A r \in done : r < rec
             /\ First(cmd, saved) > NRecs /\ saved >= 1 => current >= 1

\* What has been acted on, and what WHILE has said so far.
Selecting ==
    ~Idle /\ Plain(cmd) /\ Sound(cmd, saved) =>
        /\ done \cap Records
           = {r \in Selected(InScope(cmd, saved), cmd, before) : r < rec}
        /\ rec <= until =>
              \A q \in InScope(cmd, saved) : q < rec => Holds(cmd.while, before, q)

\* Where an edit or COUNT with NEXT or REST has been.
Placed ==
    ~Idle /\ cmd.verb \notin Finding \cup {"list"}
          /\ ScopeOf(cmd) \in {"next", "rest"} =>
        /\ current >= saved
        /\ last > 0 => last >= saved
        /\ First(cmd, saved) >= 1 =>
              /\ done # {} => last > 0
              /\ last > 0 => last \in done /\ \A r \in done : r <= last

IInv == TypeOK /\ Formed /\ Bounded /\ EditedAreDone /\ Selecting /\ Placed

-----------------------------------------------------------------------------
(* The bounds of the loop *)

\* CONTINUE names no range, and RECORD n none if there is no record n.
Ranged(c) == c.verb # "continue" /\ (ScopeOf(c) = "record" => c.n \in Records)

\* A loop runs over the records of its scope, wherever the pointer was.
LEMMA RangeOfScope ==
    ASSUME NEW c \in Command, Ranged(c), NEW cur \in Int, cur <= NRecs
    PROVE  /\ InScope(c, cur) = {r \in Records : First(c, cur) <= r /\ r <= Until(c, cur)}
           /\ Until(c, cur) <= NRecs
<1> USE NRecsAssumption
<1>1. c.verb # "continue" /\ c.n \in Nat
  BY DEF Command, Ranged
<1>4. ScopeOf(c) \in {"none", "all", "next", "record", "rest"}
  BY DEF Command, ScopeOf
<1>5. CASE OneRecord(c)
  <2>1. ScopeOf(c) = "none"
    BY <1>5 DEF OneRecord
  <2>2. First(c, cur) = cur /\ Until(c, cur) = cur
    BY <1>1, <1>5, <2>1 DEF First, Until
  <2>3. InScope(c, cur) = {r \in Records : r = cur}
    BY <1>5, <2>1 DEF InScope
  <2> QED
    BY <2>2, <2>3 DEF Records
<1>6. CASE ~OneRecord(c) /\ ScopeOf(c) = "next"
  <2>1. /\ First(c, cur) = NextStart(c, cur)
        /\ Until(c, cur) = Smaller(NextStart(c, cur) + c.n - 1, NRecs)
    BY <1>1, <1>6 DEF First, Until
  <2>2. CASE c.verb \in {"delete", "recall", "list"}
    <3>1. InScope(c, cur) = {r \in Records : r - cur \in 1..c.n}
      BY <1>6, <2>2 DEF InScope
    <3>2. NextStart(c, cur) = cur + 1
      BY <2>2 DEF NextStart
    <3> QED
      BY <1>1, <2>1, <3>1, <3>2 DEF Smaller, Records
  <2>3. CASE c.verb \notin {"delete", "recall", "list"}
    <3>1. InScope(c, cur) = {r \in Records : r - cur \in 0..(c.n - 1)}
      BY <1>6, <2>3 DEF InScope
    <3>2. NextStart(c, cur) = cur
      BY <2>3 DEF NextStart
    <3> QED
      BY <1>1, <2>1, <3>1, <3>2 DEF Smaller, Records
  <2> QED
    BY <2>2, <2>3
<1>7. CASE ~OneRecord(c) /\ ScopeOf(c) = "record"
  <2>1. First(c, cur) = c.n /\ Until(c, cur) = c.n
    BY <1>1, <1>7 DEF First, Until
  <2>2. InScope(c, cur) = {r \in Records : r = c.n}
    BY <1>7 DEF InScope
  <2>3. c.n \in Records
    BY <1>7 DEF Ranged
  <2> QED
    BY <2>1, <2>2, <2>3 DEF Records
<1>8. CASE ~OneRecord(c) /\ ScopeOf(c) = "rest"
  <2>1. First(c, cur) = cur /\ Until(c, cur) = NRecs
    BY <1>1, <1>8 DEF First, Until
  <2>2. InScope(c, cur) = {r \in Records : r >= cur}
    BY <1>8 DEF InScope
  <2> QED
    BY <2>1, <2>2 DEF Records
<1>9. CASE ~OneRecord(c) /\ ScopeOf(c) \in {"none", "all"}
  <2>1. First(c, cur) = 1 /\ Until(c, cur) = NRecs
    BY <1>1, <1>9 DEF First, Until
  <2>2. InScope(c, cur) = Records
    BY <1>9 DEF InScope
  <2> QED
    BY <2>1, <2>2 DEF Records
<1> QED
  BY <1>4, <1>5, <1>6, <1>7, <1>8, <1>9

\* The loop of a plain command runs over the records of its scope.
LEMMA ScopeIsRange ==
    ASSUME NEW c \in Command, Plain(c), NEW cur \in Int, cur <= NRecs
    PROVE  /\ InScope(c, cur) = {r \in Records : First(c, cur) <= r /\ r <= Until(c, cur)}
           /\ Until(c, cur) <= NRecs
<1>1. Ranged(c)
  BY DEF Plain, Ranged, ScopeOf, Editing
<1> QED
  BY <1>1, RangeOfScope

\* A loop starts and ends at a number.
LEMMA BoundsAreNumbers ==
    ASSUME NEW c \in Command, NEW cur \in Int
    PROVE  First(c, cur) \in Int /\ Until(c, cur) \in Int
<1> USE NRecsAssumption
<1>1. c.n \in Nat
  BY DEF Command
<1>2. NextStart(c, cur) \in Int
  BY DEF NextStart
<1>3. First(c, cur) \in Int
  BY <1>1, <1>2 DEF First
<1>4. Until(c, cur) \in Int
  BY <1>1, <1>2 DEF Until, Smaller
<1> QED
  BY <1>3, <1>4

\* NEXT and REST go forward and stay in the table.
LEMMA ForwardScope ==
    ASSUME NEW c \in Command, NEW cur \in Int, cur <= NRecs,
           c.verb \notin Finding \cup {"list"}, ScopeOf(c) \in {"next", "rest"}
    PROVE  First(c, cur) >= cur /\ Until(c, cur) <= NRecs
<1> USE NRecsAssumption
<1>1. c.n \in Nat /\ c.verb # "continue" /\ ~OneRecord(c)
  BY DEF Command, OneRecord, Finding
<1>2. NextStart(c, cur) \in Int /\ NextStart(c, cur) >= cur
  BY <1>1 DEF NextStart
<1> QED
  BY <1>1, <1>2 DEF First, Until, Smaller

\* An edit edits to a record, and a second time changes nothing.
LEMMA EditIsOnce ==
    ASSUME NEW c \in Command, NEW r \in Record, c.verb = "replace" => c.with \in Value
    PROVE  Edited(c, r) \in Record /\ Edited(c, Edited(c, r)) = Edited(c, r)
  BY DEF Edited, Record

\* What TypeOK and Formed say of a command under way.
LEMMA CommandUnderWay ==
    ASSUME TypeOK, Formed, ~Idle
    PROVE  /\ cmd \in Command /\ cmd.verb \in Verbs
           /\ cmd.scope \in {"next", "record"} => cmd.n > 0
           /\ cmd.verb = "replace" => cmd.with \in Value
  BY DEF TypeOK, Formed, Idle, Command

\* gotos() goes nowhere behind the last record, and elsewhere where it is told.
LEMMA GotoStays ==
    ASSUME NEW cur \in Int, cur <= NRecs, NEW r \in Int
    PROVE  /\ Goto(cur, r) \in Int /\ Goto(cur, r) <= NRecs
           /\ r <= NRecs => Goto(cur, r) = r
           /\ r > NRecs => Goto(cur, r) = cur
  BY NRecsAssumption DEF Goto

\* The numbers a loop runs on.
LEMMA LoopNumbers ==
    ASSUME IInv
    PROVE  /\ current \in Int /\ current <= NRecs /\ saved \in Int /\ saved <= NRecs
           /\ rec \in Int /\ until \in Int /\ last \in Int /\ NRecs \in Nat
           /\ table \in [Records -> Record] /\ before \in [Records -> Record]
           /\ \A r \in done : r \in Int /\ r <= NRecs
           /\ ~Idle => /\ cmd \in Command /\ First(cmd, saved) \in Int
                       /\ First(cmd, saved) <= rec /\ until = Until(cmd, saved)
<1>1. /\ current \in Int /\ current <= NRecs /\ saved \in Int /\ saved <= NRecs
      /\ rec \in Int /\ until \in Int /\ last \in Int /\ NRecs \in Nat
      /\ table \in [Records -> Record] /\ before \in [Records -> Record]
      /\ \A r \in done : r \in Int /\ r <= NRecs
  BY NRecsAssumption DEF IInv, TypeOK
<1>2. ASSUME ~Idle
      PROVE  /\ cmd \in Command /\ First(cmd, saved) \in Int
             /\ First(cmd, saved) <= rec /\ until = Until(cmd, saved)
  BY <1>1, <1>2, CommandUnderWay, BoundsAreNumbers DEF IInv, Bounded
<1> QED
  BY <1>1, <1>2

-----------------------------------------------------------------------------
(* Initial states *)

\* No command is under way at the start.
LEMMA InitHolds == Init => IInv
<1> SUFFICES ASSUME Init PROVE IInv
  OBVIOUS
<1> USE NRecsAssumption DEF Init
<1>1. TypeOK
  <2>1. found \in BOOLEAN
    BY Zenon
  <2> QED
    BY <2>1 DEF TypeOK, Records
<1>2. Formed
  BY DEF Formed, Idle
<1>3. Bounded /\ EditedAreDone /\ Selecting /\ Placed
  BY DEF Bounded, EditedAreDone, Selecting, Placed, Idle
<1> QED
  BY <1>1, <1>2, <1>3 DEF IInv

-----------------------------------------------------------------------------
(* The start of a loop *)

\* Starting a command that is well formed establishes the loop invariant.
LEMMA StartHolds ==
    ASSUME TypeOK, Idle, NEW c \in Command,
           c.scope \in {"next", "record"} => c.n > 0,
           c.verb \in Finding => c.scope = "none",
           c.verb = "replace" => c.with \in Value,
           Start(c), table' = table, current' = current
    PROVE  /\ (cmd \in Command)' /\ cmd' = c
           /\ rec' \in Int /\ until' \in Int /\ last' \in Int
           /\ saved' \in Int /\ saved' <= NRecs /\ before' \in [Records -> Record]
           /\ done' = {}
           /\ Bounded' /\ EditedAreDone' /\ Selecting' /\ Placed'
<1> USE NRecsAssumption
<1>1. /\ cmd' = c /\ rec' = First(c, current) /\ until' = Until(c, current)
      /\ last' = 0 /\ saved' = current /\ before' = table /\ done' = {}
  BY DEF Start
<1>2. current \in Int /\ current <= NRecs /\ table \in [Records -> Record]
  BY DEF TypeOK
<1>3. First(c, current) \in Int /\ Until(c, current) \in Int
  BY <1>2, BoundsAreNumbers
<1>4. Bounded'
  BY <1>1, <1>2, <1>3 DEF Bounded
<1>5. EditedAreDone'
  BY <1>1, <1>2 DEF EditedAreDone
<1>6. Selecting'
  <2> SUFFICES ASSUME Plain(c)
               PROVE  /\ {} = {r \in Selected(InScope(c, current), c, table) :
                                r < First(c, current)}
                      /\ \A q \in InScope(c, current) : q < First(c, current)
                            => Holds(c.while, table, q)
    BY <1>1 DEF Selecting
  <2>1. \A r \in InScope(c, current) : ~(r < First(c, current))
    BY <1>2, <1>3, ScopeIsRange DEF Records
  <2> QED
    BY <2>1 DEF Selected
<1>7. Placed'
  BY <1>1, <1>2 DEF Placed
<1> QED
  BY <1>1, <1>2, <1>3, <1>4, <1>5, <1>6, <1>7

-----------------------------------------------------------------------------
(* The turns of the loop *)

\* Where a turn starts: at the loop variable, or where RECORD n without a record
\* n leaves the pointer.
LEMMA TurnIsInTable ==
    ASSUME IInv, Looping
    PROVE  /\ Here \in Int /\ Here <= NRecs /\ Here <= rec
           /\ rec <= NRecs => Here = rec
           /\ rec > NRecs => Here = current
           /\ Here >= 1 => Here \in Records
<1>1. /\ current \in Int /\ current <= NRecs /\ rec \in Int /\ NRecs \in Nat
  BY LoopNumbers
<1>2. Here = IF NRecs >= rec THEN rec ELSE current
  BY DEF Here, Goto
<1>3. /\ Here \in Int /\ Here <= NRecs /\ Here <= rec
      /\ rec <= NRecs => Here = rec
      /\ rec > NRecs => Here = current
  BY <1>1, <1>2
<1> QED
  BY <1>1, <1>3 DEF Records

\* Where it ends: the clauses move the pointer only forward, and only in front
\* of the records.
LEMMA TurnEndsInTable ==
    ASSUME IInv, Looping, NEW p \in Stands
    PROVE  /\ p \in Int /\ p <= NRecs
           /\ Here \in Records => p = Here
           /\ cmd.verb # "list" => p >= Here /\ (~Reads(cmd) => p = Here)
<1>1. /\ current \in Int /\ current <= NRecs /\ NRecs >= 1
      /\ Here \in Int /\ Here <= NRecs /\ (Here \in Records => Here # 0)
  BY LoopNumbers, TurnIsInTable, NRecsAssumption DEF Records
<1>2. CASE cmd.verb = "list" /\ Here \notin Records
  <2>1. p = current
    BY <1>2 DEF Stands
  <2> QED
    BY <1>1, <1>2, <2>1
<1>3. CASE ~(cmd.verb = "list" /\ Here \notin Records)
  <2>1. p \in {Here} \cup (IF Here = 0 /\ Reads(cmd) THEN {1} ELSE {})
    BY <1>3 DEF Stands
  <2>2. p = Here \/ (p = 1 /\ Here = 0 /\ Reads(cmd))
    BY <2>1
  <2> QED
    BY <1>1, <2>2
<1> QED
  BY <1>2, <1>3

\* A loop whose first turn is on a record has all its turns on records.
LEMMA SoundTurn ==
    ASSUME IInv, Looping, Sound(cmd, saved)
    PROVE  Here \in Records \/ ~Reads(cmd)
<1> SUFFICES ASSUME Goto(saved, First(cmd, saved)) >= 1
             PROVE  Here \in Records
  BY DEF Sound
<1>1. ~Idle
  BY DEF Looping
<1>2. CASE First(cmd, saved) <= NRecs
  <2>1. First(cmd, saved) >= 1 /\ rec >= 1
    BY <1>1, <1>2, LoopNumbers, GotoStays
  <2>2. rec > NRecs => Until(cmd, saved) > NRecs
    BY <1>1, LoopNumbers DEF Looping
  <2>3. ~(rec > NRecs)
    <3>1. CASE ScopeOf(cmd) = "record"
      <4>1. cmd.verb # "continue" /\ ~OneRecord(cmd)
        <5>1. cmd.verb \in Finding => cmd.scope = "none"
          BY <1>1 DEF IInv, Formed
        <5> QED
          BY <3>1, <5>1 DEF ScopeOf, OneRecord, Finding
      <4>2. First(cmd, saved) = cmd.n /\ Until(cmd, saved) = cmd.n
        BY <3>1, <4>1 DEF First, Until
      <4> QED
        BY <1>1, <1>2, <2>2, <4>2, LoopNumbers
    <3>2. CASE ScopeOf(cmd) # "record"
      <4>1. cmd.n \in Nat /\ NextStart(cmd, saved) \in Int
        BY <1>1, LoopNumbers DEF Command, NextStart
      <4>2. Until(cmd, saved) <= NRecs
        BY <3>2, <4>1, LoopNumbers DEF Until, Smaller
      <4> QED
        BY <1>1, <2>2, <4>2, LoopNumbers
    <3> QED
      BY <3>1, <3>2
  <2> QED
    BY <2>1, <2>3, TurnIsInTable, LoopNumbers
<1>3. CASE First(cmd, saved) > NRecs
  <2>1. saved >= 1 /\ rec > NRecs
    BY <1>1, <1>3, LoopNumbers, GotoStays
  <2>2. current >= 1
    BY <1>1, <1>3, <2>1 DEF IInv, Bounded
  <2> QED
    BY <2>1, <2>2, TurnIsInTable
<1> QED
  BY <1>1, <1>2, <1>3, LoopNumbers

\* A turn behind the last record stays where it is.
LEMMA TurnStaysOn ==
    ASSUME IInv, Looping, First(cmd, saved) > NRecs, saved >= 1, NEW p \in Stands
    PROVE  p >= 1 /\ current >= 1
<1>1. rec > NRecs
  BY LoopNumbers DEF Looping
<1>2. current >= 1
  BY DEF Looping, IInv, Bounded
<1> QED
  BY <1>1, <1>2, TurnIsInTable, TurnEndsInTable

\* In a plain command a turn is at the loop variable, in its scope if that is a
\* record.
LEMMA PlainTurn ==
    ASSUME IInv, Looping, Plain(cmd)
    PROVE  /\ Here = rec /\ rec <= NRecs
           /\ rec \in Records => rec \in InScope(cmd, saved)
           /\ \A q \in InScope(cmd, saved) : q \in Records
<1>1. ~Idle
  BY DEF Looping
<1>2. Until(cmd, saved) <= NRecs
  BY <1>1, LoopNumbers, ScopeIsRange
<1>3. InScope(cmd, saved)
      = {r \in Records : First(cmd, saved) <= r /\ r <= Until(cmd, saved)}
  BY <1>1, LoopNumbers, ScopeIsRange
<1>4. rec <= NRecs /\ First(cmd, saved) <= rec /\ rec <= Until(cmd, saved)
  BY <1>1, <1>2, LoopNumbers DEF Looping
<1> QED
  BY <1>3, <1>4, TurnIsInTable

\* In a plain command the record a turn is on is still as it was.
LEMMA TurnIsFresh ==
    ASSUME IInv, Looping, Sound(cmd, saved), rec \in Records
    PROVE  table[rec] = before[rec]
<1>1. rec \notin done
  BY LoopNumbers DEF IInv, Bounded, Looping
<1>2. table = [r \in Records |-> IF r \in done THEN Edited(cmd, before[r]) ELSE before[r]]
  BY DEF IInv, EditedAreDone, Looping
<1> QED
  BY <1>1, <1>2

\* NEXT and REST of an edit or COUNT turn at the loop variable, not in front of
\* where they started.
LEMMA ForwardTurn ==
    ASSUME IInv, Looping, cmd.verb \notin Finding \cup {"list"},
           ScopeOf(cmd) \in {"next", "rest"}
    PROVE  /\ Here = rec /\ rec >= saved /\ rec <= NRecs
           /\ \A p \in Stands : p >= saved
           /\ First(cmd, saved) >= 1 => /\ Sound(cmd, saved) /\ rec \in Records
                                        /\ \A p \in Stands : p = rec
<1>1. ~Idle
  BY DEF Looping
<1>2. First(cmd, saved) >= saved /\ Until(cmd, saved) <= NRecs
  BY <1>1, LoopNumbers, ForwardScope
<1>3. Here = rec /\ rec >= saved /\ rec <= NRecs
  BY <1>1, <1>2, LoopNumbers, TurnIsInTable DEF Looping
<1>4. \A p \in Stands : p >= saved
  BY <1>3, TurnEndsInTable, LoopNumbers
<1>5. ASSUME First(cmd, saved) >= 1
      PROVE  Sound(cmd, saved) /\ rec \in Records /\ \A p \in Stands : p = rec
  <2>1. First(cmd, saved) <= NRecs /\ rec \in Records
    BY <1>1, <1>3, <1>5, LoopNumbers DEF Records
  <2>2. Sound(cmd, saved)
    BY <1>1, <1>5, <2>1, LoopNumbers, GotoStays DEF Sound
  <2> QED
    BY <1>3, <2>1, <2>2, TurnEndsInTable
<1> QED
  BY <1>3, <1>4, <1>5

\* Stop preserves the invariant.
LEMMA StopHolds ==
    ASSUME IInv, Stop
    PROVE  IInv'
<1> USE NRecsAssumption
<1>1. /\ ~Idle /\ rec <= until /\ Stops /\ rec' = until + 1
      /\ UNCHANGED <<table, found, located, sought, hits, cmd, until, last, saved,
                     before, done>>
      /\ Looping
  BY DEF Stop, Looping, search
<1>2. (last > 0 /\ current' = Goto(current, last)) \/ current' \in Stands
  BY DEF Stop
<1>3. current' \in Int /\ current' <= NRecs
  BY <1>1, <1>2, LoopNumbers, TurnEndsInTable, GotoStays
<1>4. TypeOK'
  <2>1. (found \in BOOLEAN)'
    BY <1>1, Zenon DEF IInv, TypeOK
  <2> QED
    BY <1>1, <1>3, <2>1 DEF IInv, TypeOK
<1>5. Formed'
  BY <1>1 DEF IInv, Formed, Idle
<1>6. Bounded'
  <2>1. First(cmd, saved) <= until + 1
    BY <1>1, LoopNumbers
  <2>2. Sound(cmd, saved) => \A r \in done : r < until + 1
    BY <1>1, LoopNumbers DEF IInv, Bounded
  <2>3. First(cmd, saved) > NRecs /\ saved >= 1 => current' >= 1
    <3>1. ASSUME First(cmd, saved) > NRecs, saved >= 1 PROVE current >= 1
      BY <1>1, <3>1 DEF IInv, Bounded
    <3> QED
      BY <1>1, <1>2, <3>1, LoopNumbers, GotoStays, TurnStaysOn
  <2> QED
    BY <1>1, <2>1, <2>2, <2>3 DEF IInv, Bounded, Idle
<1>7. EditedAreDone'
  BY <1>1 DEF IInv, EditedAreDone, Idle
<1>8. Selecting'
  <2> DEFINE Sel == Selected(InScope(cmd, saved), cmd, before)
  <2> SUFFICES ASSUME Plain(cmd), Sound(cmd, saved)
               PROVE  done \cap Records = {r \in Sel : r < until + 1}
    BY <1>1, LoopNumbers DEF Selecting, Idle
  <2>1. done \cap Records = {r \in Sel : r < rec}
    BY <1>1 DEF IInv, Selecting
  <2>2. rec \in Records
    <3>1. Reads(cmd)
      BY <1>1 DEF Stops, CanFail, Reads, Conditional
    <3> QED
      BY <1>1, <3>1, SoundTurn, PlainTurn
  <2>3. Here = rec /\ rec \in InScope(cmd, saved)
    BY <1>1, <2>2, PlainTurn
  <2>4. ~Holds(cmd.while, before, rec)
    BY <1>1, <2>2, <2>3, TurnIsFresh DEF Stops, CanFail, Holds
  <2>5. \A r \in Sel : r \in Int /\ r < rec
    BY <1>1, <2>3, <2>4, LoopNumbers DEF Selected, InScope, Records
  <2> QED
    BY <1>1, <2>1, <2>5, LoopNumbers
<1>9. Placed'
  <2> SUFFICES ASSUME cmd.verb \notin Finding \cup {"list"},
                      ScopeOf(cmd) \in {"next", "rest"}
               PROVE  current' >= saved
    BY <1>1 DEF IInv, Placed, Idle
  <2>1. current >= saved /\ (last > 0 => last >= saved)
    BY <1>1 DEF IInv, Placed
  <2> QED
    BY <1>1, <1>2, <2>1, LoopNumbers, GotoStays, ForwardTurn
<1> QED
  BY <1>4, <1>5, <1>6, <1>7, <1>8, <1>9 DEF IInv

\* Pass preserves the invariant.
LEMMA PassHolds ==
    ASSUME IInv, Pass
    PROVE  IInv'
<1> USE NRecsAssumption
<1>1. /\ ~Idle /\ rec <= until /\ Passes /\ rec' = rec + 1
      /\ current' \in Stands
      /\ last' = IF cmd.verb \in Finding THEN rec ELSE last
      /\ UNCHANGED <<table, found, located, sought, hits, cmd, until, saved, before,
                     done>>
      /\ Looping
  BY DEF Pass, Looping, search
<1>2. current' \in Int /\ current' <= NRecs /\ last' \in Int /\ rec' \in Int
  BY <1>1, LoopNumbers, TurnEndsInTable
<1>3. TypeOK'
  <2>1. (found \in BOOLEAN)'
    BY <1>1, Zenon DEF IInv, TypeOK
  <2> QED
    BY <1>1, <1>2, <2>1 DEF IInv, TypeOK
<1>4. Formed'
  BY <1>1 DEF IInv, Formed, Idle
<1>5. Bounded'
  <2>1. First(cmd, saved) <= rec + 1
    BY <1>1, LoopNumbers
  <2>2. Sound(cmd, saved) => \A r \in done : r < rec + 1
    BY <1>1, LoopNumbers DEF IInv, Bounded
  <2>3. First(cmd, saved) > NRecs /\ saved >= 1 => current' >= 1
    BY <1>1, TurnStaysOn
  <2> QED
    BY <1>1, <2>1, <2>2, <2>3 DEF IInv, Bounded, Idle
<1>6. EditedAreDone'
  BY <1>1 DEF IInv, EditedAreDone, Idle
<1>7. Selecting'
  <2> DEFINE Sel == Selected(InScope(cmd, saved), cmd, before)
  <2> SUFFICES ASSUME Plain(cmd), Sound(cmd, saved)
               PROVE  /\ done \cap Records = {r \in Sel : r < rec + 1}
                      /\ \A q \in InScope(cmd, saved) : q < rec + 1
                            => Holds(cmd.while, before, q)
    BY <1>1, LoopNumbers DEF Selecting, Idle
  <2>1. /\ done \cap Records = {r \in Sel : r < rec}
        /\ \A q \in InScope(cmd, saved) : q < rec => Holds(cmd.while, before, q)
    BY <1>1 DEF IInv, Selecting
  <2>2. ~Hidden /\ ~Unconditional(cmd) /\ cmd.for # None
    <3>1. ~Hidden
      BY DEF Plain, Editing, Hidden
    <3> QED
      BY <1>1, <3>1 DEF Passes, CanFail
  <2>3. rec \in Records
    <3>1. Reads(cmd)
      BY <2>2 DEF Reads, Conditional
    <3> QED
      BY <1>1, <3>1, SoundTurn, PlainTurn
  <2>4. Here = rec /\ table[rec] = before[rec] /\ rec \in InScope(cmd, saved)
    BY <1>1, <2>3, PlainTurn, TurnIsFresh
  <2>5. Holds(cmd.while, before, rec) /\ ~Holds(cmd.for, before, rec)
    BY <1>1, <2>2, <2>3, <2>4 DEF Passes, CanHold, CanFail, Holds
  <2>6. \A r \in InScope(cmd, saved) : r \in Int /\ (r < rec + 1 => r < rec \/ r = rec)
    BY LoopNumbers DEF InScope, Records
  <2>7. rec \notin Sel /\ Sel \subseteq InScope(cmd, saved)
    BY <2>5 DEF Selected
  <2>8. \A q \in InScope(cmd, saved) : q < rec + 1 => Holds(cmd.while, before, q)
    BY <2>1, <2>5, <2>6
  <2>9. \A r \in Sel : r < rec + 1 <=> r < rec
    BY <2>6, <2>7, LoopNumbers
  <2> QED
    BY <2>1, <2>8, <2>9
<1>8. Placed'
  <2> SUFFICES ASSUME cmd.verb \notin Finding \cup {"list"},
                      ScopeOf(cmd) \in {"next", "rest"}
               PROVE  current' >= saved
    BY <1>1 DEF IInv, Placed, Idle
  <2> QED
    BY <1>1, ForwardTurn
<1> QED
  BY <1>3, <1>4, <1>5, <1>6, <1>7, <1>8 DEF IInv

\* What a turn writes is a table.
LEMMA TakeWrites ==
    ASSUME IInv, Take
    PROVE  /\ table' \in [Records -> Record]
           /\ Sound(cmd, saved) =>
                 /\ current' = Here
                 /\ table' = IF Here \in Records
                             THEN [table EXCEPT ![Here] = Edited(cmd, @)] ELSE table
           /\ Here \in Records =>
                 /\ current' = Here
                 /\ table' = [table EXCEPT ![Here] = Edited(cmd, @)]
<1>1. Looping /\ Accepts /\ current' \in Stands /\ table' \in Written(current') /\ ~Idle
  BY DEF Take, Looping
<1>2. cmd \in Command /\ (cmd.verb = "replace" => cmd.with \in Value)
  BY <1>1, CommandUnderWay DEF IInv
<1>3. table' \in [Records -> Record]
  <2>1. CASE current' \in Records
    <3>1. table' = [table EXCEPT ![current'] = Edited(cmd, table[current'])]
      BY <1>1, <2>1 DEF Written
    <3>2. Edited(cmd, table[current']) \in Record
      BY <1>2, <2>1, LoopNumbers, EditIsOnce
    <3> QED
      BY <2>1, <3>1, <3>2, LoopNumbers
  <2>2. CASE current' \notin Records
    <3>1. table' = table \/ table' \in Overruns
      BY <1>1, <2>2 DEF Written
    <3> QED
      BY <3>1, LoopNumbers, TargetsAssumption
  <2> QED
    BY <2>1, <2>2
<1>4. ASSUME Here \in Records
      PROVE  /\ current' = Here
             /\ table' = [table EXCEPT ![Here] = Edited(cmd, @)]
  <2>1. current' = Here
    BY <1>1, <1>4, TurnEndsInTable
  <2>2. table' \in {[table EXCEPT ![current'] = Edited(cmd, @)]}
    BY <1>1, <1>4, <2>1 DEF Written
  <2> QED
    BY <2>1, <2>2
<1>5. ASSUME Sound(cmd, saved), Here \notin Records
      PROVE  current' = Here /\ table' = table
  <2>1. cmd.verb # "list"
    BY <1>1, <1>5 DEF Accepts, Hidden
  <2>2. ~Reads(cmd)
    BY <1>1, <1>5, SoundTurn
  <2>3. current' = Here
    BY <1>1, <2>1, <2>2, TurnEndsInTable
  <2>4. cmd.verb # "replace"
    BY <2>2 DEF Reads
  <2> QED
    BY <1>1, <1>5, <2>3, <2>4 DEF Written
<1> QED
  BY <1>3, <1>4, <1>5

\* Take preserves the invariant.
LEMMA TakeHolds ==
    ASSUME IInv, Take
    PROVE  IInv'
<1> USE NRecsAssumption
<1>1. /\ ~Idle /\ rec <= until /\ Accepts
      /\ current' \in Stands
      /\ done' = done \cup {current'} /\ last' = rec
      /\ UNCHANGED <<found, located, sought, hits, cmd, until, saved, before>>
      /\ Looping
  BY DEF Take, Looping, search
<1>2. current' \in Int /\ current' <= NRecs
  BY <1>1, TurnEndsInTable
<1>3. cmd \in Command /\ (cmd.verb = "replace" => cmd.with \in Value)
  BY <1>1, CommandUnderWay DEF IInv
<1>4. /\ rec' = rec + 1 \/ rec' = until + 1
      /\ cmd.verb \notin Finding \cup {"list"} => rec' = rec + 1
  BY DEF Take, PageIsFull
<1>5. rec' \in Int /\ rec' >= rec + 1
  BY <1>1, <1>4, LoopNumbers
<1>6. TypeOK'
  <2>1. (found \in BOOLEAN)'
    BY <1>1, Zenon DEF IInv, TypeOK
  <2>2. table' \in [Records -> Record]
    BY TakeWrites
  <2>3. \A r \in (done \cup hits)' : r \in Int /\ r <= NRecs
    BY <1>1, <1>2 DEF IInv, TypeOK
  <2> QED
    BY <1>1, <1>2, <1>5, <2>1, <2>2, <2>3 DEF IInv, TypeOK
<1>7. Formed'
  BY <1>1 DEF IInv, Formed, Idle
<1>8. Bounded'
  <2>1. First(cmd, saved) <= rec'
    BY <1>1, <1>5, LoopNumbers
  <2>2. ASSUME Sound(cmd, saved) PROVE \A r \in done' : r < rec'
    <3>1. \A r \in done : r < rec
      BY <1>1, <2>2 DEF IInv, Bounded
    <3>2. current' = Here /\ Here \in Int /\ Here <= rec
      BY <1>1, <2>2, TakeWrites, TurnIsInTable
    <3> QED
      BY <1>1, <1>5, <3>1, <3>2, LoopNumbers
  <2>3. First(cmd, saved) > NRecs /\ saved >= 1 => current' >= 1
    BY <1>1, TurnStaysOn
  <2> QED
    BY <1>1, <2>1, <2>2, <2>3 DEF IInv, Bounded, Idle
<1>9. EditedAreDone'
  <2> SUFFICES ASSUME Sound(cmd, saved)
               PROVE  table' = [r \in Records |->
                                  IF r \in done' THEN Edited(cmd, before[r]) ELSE before[r]]
    BY <1>1 DEF EditedAreDone
  <2>1. table = [r \in Records |-> IF r \in done THEN Edited(cmd, before[r]) ELSE before[r]]
    BY <1>1 DEF IInv, EditedAreDone
  <2>2. done' = done \cup {Here}
    BY <1>1, TakeWrites
  <2>3. CASE Here \in Records
    <3>1. table' = [table EXCEPT ![Here] = Edited(cmd, table[Here])]
      BY <2>3, TakeWrites
    <3>2. Edited(cmd, table[Here]) = Edited(cmd, before[Here])
      <4>1. before[Here] \in Record
        BY <2>3, LoopNumbers
      <4> QED
        BY <1>3, <2>1, <2>3, <4>1, EditIsOnce
    <3> QED
      BY <2>1, <2>2, <2>3, <3>1, <3>2
  <2>4. CASE Here \notin Records
    <3>1. table' = table
      BY <2>4, TakeWrites
    <3> QED
      BY <2>1, <2>2, <2>4, <3>1
  <2> QED
    BY <2>3, <2>4
<1>10. Selecting'
  <2> DEFINE Sel == Selected(InScope(cmd, saved), cmd, before)
  <2> SUFFICES ASSUME Plain(cmd), Sound(cmd, saved)
               PROVE  /\ done' \cap Records = {r \in Sel : r < rec + 1}
                      /\ \A q \in InScope(cmd, saved) : q < rec + 1
                            => Holds(cmd.while, before, q)
    <3>1. Plain(cmd) => rec' = rec + 1
      BY <1>4 DEF Plain, Editing, Finding
    <3> QED
      BY <1>1, <3>1 DEF Selecting
  <2>1. /\ done \cap Records = {r \in Sel : r < rec}
        /\ \A q \in InScope(cmd, saved) : q < rec => Holds(cmd.while, before, q)
    BY <1>1 DEF IInv, Selecting
  <2>2. Here = rec /\ done' = done \cup {rec} /\ rec <= NRecs
    BY <1>1, PlainTurn, TakeWrites
  <2>3. \A r \in InScope(cmd, saved) :
           /\ r \in Records /\ r \in Int /\ r >= 1
           /\ r < rec + 1 <=> r < rec \/ r = rec
    BY LoopNumbers DEF InScope, Records
  <2>4. Sel \subseteq InScope(cmd, saved)
    BY DEF Selected
  <2>5. CASE rec \in Records
    <3>1. table[rec] = before[rec] /\ rec \in InScope(cmd, saved)
      BY <1>1, <2>5, PlainTurn, TurnIsFresh
    <3>2. Holds(cmd.while, before, rec) /\ Holds(cmd.for, before, rec)
      BY <1>1, <2>2, <2>5, <3>1 DEF Plain, Conditional, Accepts, CanHold, Holds
    <3>3. \A q \in InScope(cmd, saved) : q < rec + 1 => Holds(cmd.while, before, q)
      BY <2>1, <2>3, <3>2
    <3>4. rec \in Sel
      <4>1. \A q \in InScope(cmd, saved) : q <= rec => q < rec + 1
        BY <2>3, LoopNumbers
      <4> QED
        BY <3>1, <3>2, <3>3, <4>1 DEF Selected
    <3>5. \A r : r \in done' \cap Records <=> r \in Sel /\ r < rec + 1
      BY <2>1, <2>2, <2>3, <2>4, <2>5, <3>4
    <3> QED
      BY <3>3, <3>5
  <2>6. CASE rec \notin Records
    <3>1. \A r \in InScope(cmd, saved) : ~(r < rec) /\ ~(r < rec + 1)
      BY <2>2, <2>3, <2>6, LoopNumbers DEF Records
    <3> QED
      BY <2>1, <2>2, <2>4, <2>6, <3>1
  <2> QED
    BY <2>5, <2>6
<1>11. Placed'
  <2> SUFFICES ASSUME cmd.verb \notin Finding \cup {"list"},
                      ScopeOf(cmd) \in {"next", "rest"}
               PROVE  /\ current' >= saved /\ rec >= saved
                      /\ First(cmd, saved) >= 1 =>
                            /\ rec > 0 /\ rec \in done'
                            /\ \A r \in done' : r <= rec
    BY <1>1 DEF Placed
  <2>1. current' >= saved /\ rec >= saved
    BY <1>1, ForwardTurn
  <2>2. ASSUME First(cmd, saved) >= 1
        PROVE  rec > 0 /\ rec \in done' /\ \A r \in done' : r <= rec
    <3>1. Sound(cmd, saved) /\ rec \in Records /\ current' = rec
      BY <1>1, <2>2, ForwardTurn
    <3>2. \A r \in done : r \in Int /\ r < rec
      BY <1>1, <3>1, LoopNumbers DEF IInv, Bounded
    <3> QED
      BY <1>1, <3>1, <3>2, LoopNumbers DEF Records
  <2> QED
    BY <2>1, <2>2
<1> QED
  BY <1>6, <1>7, <1>8, <1>9, <1>10, <1>11 DEF IInv

-----------------------------------------------------------------------------
(* The end of the loop, and the other actions *)

\* With no command under way the loop invariant says nothing.
LEMMA IdleHolds ==
    ASSUME Idle'
    PROVE  Bounded' /\ EditedAreDone' /\ Selecting' /\ Placed'
  BY DEF Bounded, EditedAreDone, Selecting, Placed

\* The pointer after the loop.
LEMMA SettledStays ==
    ASSUME IInv, ~Idle
    PROVE  /\ Settled \in Int /\ Settled <= NRecs
           /\ cmd.verb \notin Finding \cup {"list"} /\ ScopeOf(cmd) \notin {"next", "rest"}
              => Settled = saved
           /\ cmd.verb \notin Finding \cup {"list"} /\ ScopeOf(cmd) \in {"next", "rest"}
              => /\ Settled >= saved
                 /\ cmd.verb \in Editing /\ ScopeOf(cmd) = "next" /\ done # {}
                    /\ First(cmd, saved) >= 1
                    => Settled \in done /\ \A r \in done : r <= Settled
<1> DEFINE cur == IF cmd.verb \in Editing /\ ScopeOf(cmd) = "next" /\ last > 0
                  THEN Goto(current, last) ELSE current
<1>1. cur \in Int /\ cur <= NRecs
  BY LoopNumbers, GotoStays
<1>2. Goto(cur, saved) = saved
  BY <1>1, LoopNumbers, GotoStays
<1>3. Settled = IF cmd.verb \in {"list"} \cup Finding \/ ScopeOf(cmd) \in {"next", "rest"}
                THEN cur ELSE Goto(cur, saved)
  BY DEF Settled
<1>4. ASSUME cmd.verb \notin Finding \cup {"list"}, ScopeOf(cmd) \in {"next", "rest"}
      PROVE  /\ cur >= saved
             /\ cmd.verb \in Editing /\ ScopeOf(cmd) = "next" /\ done # {}
                /\ First(cmd, saved) >= 1
                => cur \in done /\ \A r \in done : r <= cur
  <2>1. /\ current >= saved /\ (last > 0 => last >= saved)
        /\ First(cmd, saved) >= 1 =>
              /\ done # {} => last > 0
              /\ last > 0 => last \in done /\ \A r \in done : r <= last
    BY <1>4 DEF IInv, Placed
  <2>2. cur >= saved
    BY <2>1, LoopNumbers, GotoStays
  <2>3. ASSUME cmd.verb \in Editing, ScopeOf(cmd) = "next", done # {},
               First(cmd, saved) >= 1
        PROVE  cur \in done /\ \A r \in done : r <= cur
    <3>1. last > 0 /\ last \in done /\ \A r \in done : r <= last
      BY <2>1, <2>3
    <3>2. cur = last
      BY <2>3, <3>1, LoopNumbers, GotoStays
    <3> QED
      BY <3>1, <3>2
  <2> QED
    BY <2>2, <2>3
<1> HIDE DEF cur
<1>6. CASE cmd.verb \in {"list"} \cup Finding \/ ScopeOf(cmd) \in {"next", "rest"}
  <2>1. Settled = cur
    BY <1>3, <1>6
  <2> QED
    BY <1>1, <1>4, <1>6, <2>1
<1>7. CASE ~(cmd.verb \in {"list"} \cup Finding \/ ScopeOf(cmd) \in {"next", "rest"})
  <2>1. Settled = saved
    BY <1>2, <1>3, <1>7
  <2> QED
    BY <1>7, <2>1, LoopNumbers
<1> QED
  BY <1>6, <1>7

\* Finish preserves the invariant.
LEMMA FinishHolds ==
    ASSUME IInv, Finish
    PROVE  IInv'
<1> USE NRecsAssumption
<1>1. /\ ~Idle /\ current' = Settled
      /\ IF cmd.verb \in Finding
         THEN found' = (done # {}) /\ hits' = hits \cup done
         ELSE UNCHANGED <<found, hits>>
      /\ cmd' = None /\ rec' = 1 /\ until' = 0 /\ last' = 0 /\ saved' = 1
      /\ before' = table /\ done' = {}
      /\ UNCHANGED <<table, located, sought>>
  BY DEF Finish
<1>2. TypeOK'
  <2>1. found' \in BOOLEAN
    <3>1. CASE cmd.verb \in Finding
      <4>1. found' = (done # {})
        BY <1>1, <3>1
      <4> QED
        BY <4>1
    <3>2. CASE cmd.verb \notin Finding
      <4>1. found' = found
        BY <1>1, <3>2
      <4> QED
        BY <4>1, Zenon DEF IInv, TypeOK
    <3> QED
      BY <3>1, <3>2
  <2>2. \A r \in hits' : r \in Int /\ r <= NRecs
    BY <1>1 DEF IInv, TypeOK
  <2>3. current' \in Int /\ current' <= NRecs
    BY <1>1, SettledStays
  <2> QED
    BY <1>1, <2>1, <2>2, <2>3 DEF IInv, TypeOK
<1>3. Idle'
  BY <1>1 DEF Idle
<1>4. Formed'
  BY <1>1, <1>3 DEF IInv, Formed
<1> QED
  BY <1>2, <1>3, <1>4, IdleHolds DEF IInv

\* The start of a command preserves the invariant.
LEMMA RunHolds ==
    ASSUME IInv, NEW c \in Commands, Run(c)
    PROVE  IInv'
<1>1. /\ Idle /\ c.verb \notin Finding /\ Start(c)
      /\ UNCHANGED <<table, current, found, located>>
      /\ (sought' = sought /\ hits' = hits) \/ (sought' = None /\ hits' = {})
  BY DEF Run
<1>2. /\ c \in Command /\ (c.scope \in {"next", "record"} => c.n > 0)
      /\ (c.verb = "replace" => c.with \in Value)
  BY CommandsAssumption DEF Command
<1>3. /\ (cmd \in Command)' /\ cmd' = c
      /\ rec' \in Int /\ until' \in Int /\ last' \in Int
      /\ saved' \in Int /\ saved' <= NRecs /\ before' \in [Records -> Record]
      /\ done' = {}
      /\ Bounded' /\ EditedAreDone' /\ Selecting' /\ Placed'
  BY <1>1, <1>2, StartHolds DEF IInv
<1>4. TypeOK'
  <2>1. (found \in BOOLEAN)'
    BY <1>1, Zenon DEF IInv, TypeOK
  <2> QED
    BY <1>1, <1>3, <2>1 DEF IInv, TypeOK
<1>5. Formed'
  BY <1>1, <1>2, <1>3 DEF IInv, Formed
<1> QED
  BY <1>3, <1>4, <1>5 DEF IInv

\* LOCATE preserves the invariant.
LEMMA LocateHolds ==
    ASSUME IInv, NEW c \in Commands, Locate(c)
    PROVE  IInv'
<1>1. /\ Idle /\ c.verb = "locate" /\ Start(c) /\ located' = c
      /\ UNCHANGED <<table, current, found>>
      /\ sought' = Selected(Records, c, table) /\ hits' = {}
  BY DEF Locate
<1>2. /\ c \in Command /\ (c.scope \in {"next", "record"} => c.n > 0)
      /\ c.scope = "none" /\ (c.verb = "replace" => c.with \in Value)
  BY <1>1, CommandsAssumption
<1>3. /\ (cmd \in Command)' /\ cmd' = c
      /\ rec' \in Int /\ until' \in Int /\ last' \in Int
      /\ saved' \in Int /\ saved' <= NRecs /\ before' \in [Records -> Record]
      /\ done' = {}
      /\ Bounded' /\ EditedAreDone' /\ Selecting' /\ Placed'
  BY <1>1, <1>2, StartHolds DEF IInv
<1>4. TypeOK'
  <2>1. (found \in BOOLEAN)'
    BY <1>1, Zenon DEF IInv, TypeOK
  <2>2. sought' \subseteq Records
    BY <1>1 DEF Selected
  <2> QED
    BY <1>1, <1>3, <2>1, <2>2 DEF IInv, TypeOK
<1>5. Formed'
  BY <1>1, <1>2, <1>3 DEF IInv, Formed
<1> QED
  BY <1>3, <1>4, <1>5 DEF IInv

\* CONTINUE preserves the invariant.
LEMMA ContinueHolds ==
    ASSUME IInv, Continue
    PROVE  IInv'
<1>1. Idle /\ UNCHANGED <<table, current, located>>
  BY DEF Continue
<1>2. CASE located = None
  <2>1. /\ UNCHANGED <<cmd, rec, until, last, saved, before, done, sought, hits>>
        /\ found' = FALSE
    BY <1>2 DEF Continue, scan
  <2>2. Idle'
    BY <1>1, <2>1 DEF Idle
  <2>3. TypeOK'
    <3>1. (found \in BOOLEAN)'
      BY <2>1
    <3> QED
      BY <1>1, <2>1, <3>1 DEF IInv, TypeOK
  <2>4. Formed'
    BY <1>1, <1>2, <2>1, <2>2 DEF IInv, Formed
  <2> QED
    BY <2>2, <2>3, <2>4, IdleHolds DEF IInv
<1>3. CASE located # None
  <2> DEFINE c == [located EXCEPT !.verb = "continue"]
  <2>1. /\ Start(c) /\ found' = found
        /\ (sought' = sought /\ hits' = hits) \/ (sought' = None /\ hits' = {})
    BY <1>3 DEF Continue
  <2>2. located \in Command /\ located.verb = "locate" /\ located.scope = "none"
    BY <1>3, CommandsAssumption DEF IInv, TypeOK, Formed
  <2>3. c \in Command /\ c.scope = "none" /\ c.verb = "continue"
    BY <2>2 DEF Command, Verbs, Finding
  <2> HIDE DEF c
  <2>4. /\ (cmd \in Command)' /\ cmd' = c
        /\ rec' \in Int /\ until' \in Int /\ last' \in Int
        /\ saved' \in Int /\ saved' <= NRecs /\ before' \in [Records -> Record]
        /\ done' = {}
        /\ Bounded' /\ EditedAreDone' /\ Selecting' /\ Placed'
    BY <1>1, <2>1, <2>3, StartHolds DEF IInv
  <2>5. TypeOK'
    <3>1. (found \in BOOLEAN)'
      BY <2>1, Zenon DEF IInv, TypeOK
    <3> QED
      BY <1>1, <2>1, <2>4, <3>1 DEF IInv, TypeOK
  <2>6. Formed'
    BY <1>1, <2>3, <2>4 DEF IInv, Formed
  <2> QED
    BY <2>4, <2>5, <2>6 DEF IInv
<1> QED
  BY <1>2, <1>3

\* GO preserves the invariant.
LEMMA GoHolds ==
    ASSUME IInv, NEW r \in GoTargets, Go(r)
    PROVE  IInv'
<1>1. /\ Idle /\ current' = Goto(current, r) /\ sought' = None /\ hits' = {}
      /\ UNCHANGED <<table, cmd, rec, until, last, saved, before, done, found, located>>
  BY DEF Go, scan
<1>2. Idle'
  BY <1>1 DEF Idle
<1>3. current' \in Int /\ current' <= NRecs
  BY <1>1, GotoStays, LoopNumbers, TargetsAssumption
<1>4. TypeOK'
  <2>1. (found \in BOOLEAN)'
    BY <1>1, Zenon DEF IInv, TypeOK
  <2> QED
    BY <1>1, <1>3, <2>1 DEF IInv, TypeOK
<1>5. Formed'
  BY <1>1, <1>2 DEF IInv, Formed
<1> QED
  BY <1>2, <1>4, <1>5, IdleHolds DEF IInv

-----------------------------------------------------------------------------
(* Theorems *)

\* Every step preserves the invariant.
LEMMA NextHolds == IInv /\ [Next]_vars => IInv'
<1> SUFFICES ASSUME IInv, [Next]_vars PROVE IInv'
  OBVIOUS
<1>1. ASSUME NEW c \in Commands, Run(c) PROVE IInv'
  BY <1>1, RunHolds
<1>2. ASSUME NEW c \in Commands, Locate(c) PROVE IInv'
  BY <1>2, LocateHolds
<1>3. ASSUME NEW r \in GoTargets, Go(r) PROVE IInv'
  BY <1>3, GoHolds
<1>4. ASSUME UNCHANGED vars PROVE IInv'
  <2>1. /\ UNCHANGED <<table, current, found, located, cmd, rec, until, last, saved>>
        /\ UNCHANGED <<before, done, sought, hits>>
    BY <1>4 DEF vars, scan, search
  <2>2. (found \in BOOLEAN)'
    BY <2>1, Zenon DEF IInv, TypeOK
  <2>3. TypeOK'
    BY <2>1, <2>2 DEF IInv, TypeOK
  <2>4. Formed' /\ Bounded' /\ EditedAreDone' /\ Placed'
    BY <2>1 DEF IInv, Formed, Bounded, EditedAreDone, Placed, Idle
  <2>5. Selecting'
    BY <2>1 DEF IInv, Selecting, Idle
  <2> QED
    BY <2>3, <2>4, <2>5 DEF IInv
<1> QED
  BY <1>1, <1>2, <1>3, <1>4, StopHolds, PassHolds, TakeHolds, FinishHolds, ContinueHolds
     DEF Next

\* The loop invariant holds in every reachable state.
THEOREM Invariance == Spec => []IInv
<1>1. Init => IInv
  BY InitHolds
<1>2. IInv /\ [Next]_vars => IInv'
  BY NextHolds
<1> QED
  BY <1>1, <1>2, PTL DEF Spec

\* Every variable keeps its type: in particular the pointer is never behind the
\* last record, whatever number follows GO, NEXT and RECORD and however a loop
\* ends.
THEOREM TypeCorrect == Spec => []TypeOK
<1>1. IInv => TypeOK
  BY DEF IInv
<1> QED
  BY <1>1, Invariance, PTL

\* In the middle of every command whose first turn is on a record, or that
\* evaluates nothing, the records it has acted on are edited once and the others
\* not at all.
THEOREM EditsAreDone == Spec => []EditedAreDone
<1>1. IInv => EditedAreDone
  BY DEF IInv
<1> QED
  BY <1>1, Invariance, PTL

\* Every command that ends, if its first turn was on a record or it evaluates
\* nothing, has acted on exactly the records its scope and clauses select in the
\* table it started on.
THEOREM ScopeMet == Spec => ScopeIsMet
<1>1. ASSUME IInv, Finish, Plain(cmd), Sound(cmd, saved)
      PROVE  done \cap Records = Selected(InScope(cmd, saved), cmd, before)
  <2>1. ~Idle /\ rec > until
    BY <1>1 DEF Finish
  <2>2. done \cap Records = {r \in Selected(InScope(cmd, saved), cmd, before) : r < rec}
    BY <1>1, <2>1 DEF IInv, Selecting
  <2>3. \A r \in InScope(cmd, saved) : r \in Int /\ r <= until
    BY <1>1, <2>1, LoopNumbers, ScopeIsRange DEF Records
  <2>4. \A r \in Selected(InScope(cmd, saved), cmd, before) : r < rec
    BY <1>1, <2>1, <2>3, LoopNumbers DEF Selected
  <2> QED
    BY <2>2, <2>4
<1>2. IInv /\ [Next]_vars
      => [Finish /\ Plain(cmd) /\ Sound(cmd, saved)
          => done \cap Records = Selected(InScope(cmd, saved), cmd, before)]_vars
  BY <1>1
<1> QED
  BY <1>2, Invariance, PTL DEF Spec, ScopeIsMet

\* A command leaves the pointer where it was, or with NEXT and REST not in front
\* of it.
THEOREM PointerStays == Spec => PointerSettles
<1> DEFINE Settles ==
        Finish /\ cmd.verb \notin Finding \cup {"list"} =>
            IF ScopeOf(cmd) \in {"next", "rest"}
            THEN /\ current' >= saved
                 /\ cmd.verb \in Editing /\ ScopeOf(cmd) = "next" /\ done # {}
                    /\ First(cmd, saved) >= 1
                    => current' \in done /\ \A r \in done : r <= current'
            ELSE current' = saved
<1>1. ASSUME IInv PROVE Settles
  <2> SUFFICES ASSUME Finish, cmd.verb \notin Finding \cup {"list"}
               PROVE  IF ScopeOf(cmd) \in {"next", "rest"}
                      THEN /\ current' >= saved
                           /\ cmd.verb \in Editing /\ ScopeOf(cmd) = "next" /\ done # {}
                              /\ First(cmd, saved) >= 1
                              => current' \in done /\ \A r \in done : r <= current'
                      ELSE current' = saved
    OBVIOUS
  <2>1. ~Idle /\ current' = Settled
    BY DEF Finish
  <2> QED
    BY <1>1, <2>1, SettledStays
<1>2. IInv /\ [Next]_vars => [Settles]_vars
  BY <1>1
<1> QED
  BY <1>2, Invariance, PTL DEF Spec, PointerSettles

-----------------------------------------------------------------------------
(* What LIST shows *)

\* The LISTs ListIsMet speaks of.
PlainList(c) ==
    c.verb = "list" /\ (c.scope = "record" => ~Conditional(c) /\ c.n \in Records)

Shown == Selected({r \in InScope(cmd, saved) : ~table[r].deleted}, cmd, table)

\* What LIST has shown are the records it is to show in front of some record:
\* the one the loop is at; where the reader quit, at the end of a page; or,
\* when the loop ran to its end, beyond the last.
Listing ==
    ~Idle /\ PlainList(cmd) =>
        \E m \in Int :
            /\ done = {r \in Shown : r < m}
            /\ rec <= until =>
                  /\ m = rec
                  /\ \A q \in InScope(cmd, saved) :
                        q < rec /\ ~table[q].deleted => Holds(cmd.while, table, q)
            /\ rec > until => m > until \/ Cardinality(done) % PageRows = 0

\* A turn of LIST is at the loop variable, in its scope if that is a record.
LEMMA ListTurn ==
    ASSUME IInv, ~Idle, PlainList(cmd)
    PROVE  /\ InScope(cmd, saved) \subseteq Records
           /\ \A r \in InScope(cmd, saved) : r \in Int /\ r <= until
           /\ rec <= until => /\ Here = rec
                              /\ rec \in Records => rec \in InScope(cmd, saved)
<1>1. Ranged(cmd)
  BY DEF PlainList, Ranged, ScopeOf
<1>2. /\ InScope(cmd, saved) = {r \in Records : First(cmd, saved) <= r /\ r <= until}
      /\ until <= NRecs
  BY <1>1, LoopNumbers, RangeOfScope
<1>3. rec <= until => Here = rec
  BY <1>2, LoopNumbers, TurnIsInTable DEF Looping
<1> QED
  BY <1>2, <1>3, LoopNumbers DEF Records

\* In the middle of a LIST.
LEMMA ListSoFar ==
    ASSUME IInv, Listing, ~Idle, PlainList(cmd), rec <= until
    PROVE  /\ done = {r \in Shown : r < rec} /\ Here = rec
           /\ rec \in Records => rec \in InScope(cmd, saved)
           /\ \A r \in InScope(cmd, saved) : r \in Records /\ r \in Int /\ r <= until
           /\ \A q \in InScope(cmd, saved) :
                 q < rec /\ ~table[q].deleted => Holds(cmd.while, table, q)
           /\ \A q \in InScope(cmd, saved) : q < rec + 1 <=> q < rec \/ q = rec
<1>1. PICK m \in Int :
         /\ done = {r \in Shown : r < m}
         /\ m = rec
         /\ \A q \in InScope(cmd, saved) :
               q < rec /\ ~table[q].deleted => Holds(cmd.while, table, q)
  BY DEF Listing
<1>2. \A q \in InScope(cmd, saved) : q < rec + 1 <=> q < rec \/ q = rec
  BY ListTurn, LoopNumbers
<1> QED
  BY <1>1, <1>2, ListTurn

\* LIST edits nothing.
LEMMA ListKeepsTable ==
    ASSUME IInv, Take, cmd.verb = "list"
    PROVE  table' = table
<1>1. \A r : Edited(cmd, r) = r
  BY DEF Edited
<1>2. Here \in Records
  BY DEF Take, Accepts, Hidden
<1>3. table' = [table EXCEPT ![Here] = table[Here]]
  BY <1>1, <1>2, TakeWrites
<1> QED
  BY <1>2, <1>3, LoopNumbers

\* WHILE ends the list.
LEMMA StopLists ==
    ASSUME IInv, Listing, Stop
    PROVE  Listing'
<1> SUFFICES ASSUME PlainList(cmd)
             PROVE  Listing'
  BY DEF Stop, Listing, Looping, Idle
<1>1. /\ ~Idle /\ Looping /\ rec <= until /\ Stops /\ rec' = until + 1
      /\ UNCHANGED <<table, cmd, until, saved, done>>
      /\ rec \in Int /\ until \in Int
  BY LoopNumbers DEF Stop, Looping
<1>2. /\ done = {r \in Shown : r < rec} /\ Here = rec
      /\ rec \in Records => rec \in InScope(cmd, saved)
      /\ \A r \in InScope(cmd, saved) : r \in Int /\ r <= until
  BY <1>1, ListSoFar
<1>3. rec \in Records /\ ~table[rec].deleted /\ ~Holds(cmd.while, table, rec)
  BY <1>1, <1>2 DEF Stops, CanFail, Hidden, PlainList
<1>4. \A r \in Shown : r < rec /\ r < until + 1
  BY <1>1, <1>2, <1>3 DEF Shown, Selected
<1>5. done = {r \in Shown : r < until + 1} /\ until + 1 \in Int /\ until + 1 > until
  BY <1>1, <1>2, <1>4
<1>6. Shown' = Shown /\ Idle' = Idle
  BY <1>1 DEF Shown, Idle
<1>7. ~(until + 1 <= until)
  BY <1>1
<1> QED
  BY <1>1, <1>5, <1>6, <1>7 DEF Listing

\* A record that is not shown.
LEMMA PassLists ==
    ASSUME IInv, Listing, Pass
    PROVE  Listing'
<1> SUFFICES ASSUME PlainList(cmd)
             PROVE  Listing'
  BY DEF Pass, Listing, Looping, Idle
<1>1. /\ ~Idle /\ Looping /\ rec <= until /\ Passes /\ rec' = rec + 1
      /\ UNCHANGED <<table, cmd, until, saved, done>>
      /\ rec \in Int /\ until \in Int
  BY LoopNumbers DEF Pass, Looping
<1>2. /\ done = {r \in Shown : r < rec} /\ Here = rec
      /\ \A r \in InScope(cmd, saved) : r \in Records /\ r \in Int /\ r <= until
      /\ \A q \in InScope(cmd, saved) :
            q < rec /\ ~table[q].deleted => Holds(cmd.while, table, q)
      /\ \A q \in InScope(cmd, saved) : q < rec + 1 <=> q < rec \/ q = rec
  BY <1>1, ListSoFar
<1>3. rec \in Records =>
         \/ table[rec].deleted
         \/ Holds(cmd.while, table, rec) /\ ~Holds(cmd.for, table, rec)
  <2>1. rec \in Records => (Hidden <=> table[rec].deleted)
    BY <1>2 DEF Hidden, PlainList
  <2> QED
    BY <1>1, <1>2, <2>1 DEF Passes, CanHold, CanFail
<1>4. rec \notin Shown /\ Shown \subseteq InScope(cmd, saved)
  BY <1>2, <1>3 DEF Shown, Selected
<1>5. done = {r \in Shown : r < rec + 1}
  BY <1>2, <1>4
<1>6. \A q \in InScope(cmd, saved) :
         q < rec + 1 /\ ~table[q].deleted => Holds(cmd.while, table, q)
  BY <1>1, <1>2, <1>3
<1>7. Shown' = Shown /\ Idle' = Idle /\ rec + 1 \in Int /\ (rec + 1 > until => rec + 1 > until)
  BY <1>1 DEF Shown, Idle
<1> QED
  BY <1>1, <1>5, <1>6, <1>7 DEF Listing

\* A record is shown, and at the end of a page the reader may quit.
LEMMA TakeLists ==
    ASSUME IInv, Listing, Take
    PROVE  Listing'
<1> SUFFICES ASSUME PlainList(cmd)
             PROVE  Listing'
  BY DEF Take, Listing, Looping, Idle
<1>1. /\ ~Idle /\ Looping /\ rec <= until /\ Accepts
      /\ rec' = rec + 1 \/ (rec' = until + 1 /\ PageIsFull)
      /\ UNCHANGED <<table, cmd, until, saved>>
      /\ done' = done \cup {Here} /\ Here \in Records
      /\ rec \in Int /\ until \in Int /\ cmd.verb = "list"
  <2>1. cmd.verb = "list" /\ cmd.verb \notin Finding
    BY DEF PlainList, Finding
  <2>2. rec' \in {rec + 1} \cup (IF PageIsFull THEN {until + 1} ELSE {})
    BY <2>1 DEF Take
  <2>3. rec' = rec + 1 \/ (rec' = until + 1 /\ PageIsFull)
    BY <2>2
  <2>4. table' = table
    BY <2>1, ListKeepsTable
  <2>5. Here \in Records
    BY <2>1 DEF Take, Accepts, Hidden
  <2>6. done' = done \cup {Here}
    BY <2>5, TakeWrites DEF Take
  <2> QED
    BY <2>1, <2>3, <2>4, <2>5, <2>6, LoopNumbers DEF Take, Looping
<1>2. /\ done = {r \in Shown : r < rec} /\ Here = rec /\ rec \in InScope(cmd, saved)
      /\ \A r \in InScope(cmd, saved) : r \in Int /\ r <= until
      /\ \A q \in InScope(cmd, saved) :
            q < rec /\ ~table[q].deleted => Holds(cmd.while, table, q)
      /\ \A q \in InScope(cmd, saved) : q < rec + 1 <=> q < rec \/ q = rec
  BY <1>1, ListSoFar
<1>3. ~table[rec].deleted /\ Holds(cmd.while, table, rec) /\ Holds(cmd.for, table, rec)
  BY <1>1, <1>2 DEF Accepts, CanHold, Hidden, Holds, PlainList, Conditional,
                    Unconditional, Editing
<1>4. \A q \in InScope(cmd, saved) :
         q < rec + 1 /\ ~table[q].deleted => Holds(cmd.while, table, q)
  BY <1>2, <1>3
<1>5. rec \in Shown /\ Shown \subseteq InScope(cmd, saved)
  <2>1. \A q \in InScope(cmd, saved) : q <= rec => q < rec + 1
    BY <1>1, <1>2
  <2> QED
    BY <1>2, <1>3, <1>4, <2>1 DEF Shown, Selected
<1>6. done' = {r \in Shown : r < rec + 1}
  <2>1. done' = done \cup {rec}
    BY <1>1, <1>2
  <2> QED
    BY <1>2, <1>5, <2>1
<1>7. Shown' = Shown /\ Idle' = Idle /\ rec + 1 \in Int /\ until + 1 \in Int
  BY <1>1 DEF Shown, Idle
<1>8. CASE rec' = rec + 1
  BY <1>1, <1>4, <1>6, <1>7, <1>8 DEF Listing
<1>9. CASE rec' = until + 1 /\ PageIsFull
  <2>1. ~(until + 1 <= until) /\ Cardinality(done') % PageRows = 0
    BY <1>1, <1>9 DEF PageIsFull
  <2> QED
    BY <1>1, <1>6, <1>7, <1>9, <2>1 DEF Listing
<1> QED
  BY <1>1, <1>8, <1>9

\* LIST has shown nothing when it starts.
LEMMA StartLists ==
    ASSUME IInv', NEW c, Start(c)
    PROVE  Listing'
<1> SUFFICES ASSUME ~Idle', PlainList(cmd')
             PROVE  Listing'
  BY DEF Listing
<1>1. cmd' = c /\ done' = {} /\ rec' = First(c, current) /\ saved' = current
  BY DEF Start
<1>2. /\ rec' \in Int /\ cmd' \in Command /\ saved' \in Int /\ saved' <= NRecs
      /\ Ranged(cmd')
  BY DEF IInv, TypeOK, Idle, PlainList, Ranged, ScopeOf
<1>3. \A r \in InScope(cmd', saved') : ~(r < rec')
  BY <1>1, <1>2, RangeOfScope DEF Records
<1>4. /\ done' = {r \in Shown' : r < rec'}
      /\ \A q \in InScope(cmd', saved') : q < rec' => FALSE
  BY <1>1, <1>3 DEF Shown, Selected
<1> QED
  BY <1>2, <1>4 DEF Listing

\* With no command under way nothing is listed; GO and a CONTINUE that has
\* nothing to continue leave it so.
LEMMA OthersList ==
    ASSUME Listing, [Next]_vars, ~(Stop \/ Pass \/ Take), \A c : ~Start(c)
    PROVE  Listing'
<1>1. CASE UNCHANGED vars
  BY <1>1 DEF vars, scan, Listing, Idle, Shown
<1>2. CASE Finish
  BY <1>2 DEF Finish, Listing, Idle
<1>3. CASE Continue
  BY <1>3 DEF Continue, scan, Listing, Idle
<1>4. ASSUME NEW r \in GoTargets, Go(r) PROVE Listing'
  BY <1>4 DEF Go, scan, Listing, Idle
<1>5. ASSUME NEW c \in Commands PROVE ~Run(c) /\ ~Locate(c)
  BY DEF Run, Locate
<1> QED
  BY <1>1, <1>2, <1>3, <1>4, <1>5 DEF Next

\* Every step keeps what LIST has shown in order.
LEMMA NextLists ==
    ASSUME IInv, Listing, [Next]_vars
    PROVE  Listing'
<1>1. IInv'
  BY NextHolds
<1> QED
  BY <1>1, StopLists, PassLists, TakeLists, StartLists, OthersList

\* LIST shows every record it is to show, in order, up to where the reader quit.
THEOREM ListMet == Spec => ListIsMet
<1>1. Init => Listing
  BY DEF Init, Listing, Idle
<1>2. IInv /\ Listing /\ [Next]_vars => Listing'
  BY NextLists
<1> DEFINE Met ==
        Finish /\ cmd.verb = "list" /\ (cmd.scope = "record" => ~Conditional(cmd))
               /\ (cmd.scope = "record" => cmd.n \in Records)
        => LET shown == Selected({r \in InScope(cmd, saved) : ~table[r].deleted},
                                 cmd, table)
           IN  /\ done \subseteq shown
               /\ \A r \in done, q \in shown : q < r => q \in done
               /\ done = shown \/ Cardinality(done) % PageRows = 0
<1>3. ASSUME IInv, Listing, Finish, PlainList(cmd)
      PROVE  /\ done \subseteq Shown
             /\ \A r \in done, q \in Shown : q < r => q \in done
             /\ done = Shown \/ Cardinality(done) % PageRows = 0
  <2>1. ~Idle /\ rec > until /\ ~(rec <= until) /\ until \in Int
    BY <1>3, LoopNumbers DEF Finish
  <2>2. PICK m \in Int : /\ done = {r \in Shown : r < m}
                         /\ m > until \/ Cardinality(done) % PageRows = 0
    BY <1>3, <2>1 DEF Listing
  <2>3. \A r \in Shown : r \in Int /\ r <= until
    BY <1>3, <2>1, ListTurn DEF Shown, Selected
  <2>4. \A r \in done, q \in Shown : q < r => q \in done
    BY <2>2, <2>3
  <2>5. m > until => done = Shown
    BY <2>1, <2>2, <2>3
  <2> QED
    BY <2>2, <2>4, <2>5
<1>4. IInv /\ Listing => Met
  BY <1>3 DEF PlainList, Shown
<1>5. IInv /\ Listing => [Met]_vars
  BY <1>4
<1> QED
  BY <1>1, <1>2, <1>5, Invariance, PTL DEF Spec, ListIsMet

-----------------------------------------------------------------------------
(* What LOCATE and CONTINUE find *)

Beyond(p) == {r \in Records : r > p}

\* The records found are those sought up to record p; those sought beyond it are
\* what the clauses of c select there on the table as it is now.
HitsUpTo(p, c) ==
    /\ hits = {r \in sought : r <= p}
    /\ {r \in sought : r > p} = Selected(Beyond(p), c, table)

\* Between LOCATE and CONTINUE, with the pointer at p, a record if it was found.
FoundUpTo(p) ==
    IF found THEN p \in Records /\ HitsUpTo(p, located) ELSE hits = sought

\* The record behind which a LOCATE or CONTINUE looks.
From == IF cmd.verb = "locate" THEN 0 ELSE saved

\* In the middle of a LOCATE or CONTINUE: it has found nothing yet, and WHILE
\* held on every record it has seen; or it stands on the first that is sought.
Looking ==
    /\ cmd.for = located.for /\ cmd.while = located.while
    /\ From \in Nat /\ HitsUpTo(From, cmd)
    /\ done = {} =>
          /\ \A r \in sought : r <= From \/ rec <= r
          /\ rec <= until =>
                \A q \in Beyond(From) : q < rec => Holds(cmd.while, table, q)
    /\ done # {} =>
          /\ rec > until /\ done = {current} /\ current \in sought
          /\ current > From /\ \A r \in sought : r < current => r <= From
          /\ \A q \in Beyond(From) : q <= current => Holds(cmd.while, table, q)

\* An edit of the record that was found does not change what is sought beyond.
Searching ==
    sought # None =>
        /\ located # None
        /\ Idle => FoundUpTo(current)
        /\ ~Idle => OneRecord(cmd) \/ cmd.verb \in Finding
        /\ ~Idle /\ OneRecord(cmd) => FoundUpTo(saved)
        /\ ~Idle /\ cmd.verb \in Finding => Looking

\* What is selected depends on the clauses and the records of the range.
LEMMA SelectedSame ==
    ASSUME NEW S, NEW c, NEW d, NEW t, NEW u, \A r \in S : t[r] = u[r],
           c.for = d.for, c.while = d.while
    PROVE  Selected(S, c, t) = Selected(S, d, u)
<1>1. \A r \in S : /\ Holds(c.for, t, r) <=> Holds(d.for, u, r)
                   /\ Holds(c.while, t, r) <=> Holds(d.while, u, r)
  BY DEF Holds
<1> QED
  BY <1>1 DEF Selected

\* Behind records on which WHILE held the selection goes on as it was.
LEMMA SelectedBeyond ==
    ASSUME NEW p \in Int, NEW k \in Int, p <= k, NEW c, NEW t,
           \A q \in Beyond(p) : q <= k => Holds(c.while, t, q)
    PROVE  Selected(Beyond(k), c, t) = {r \in Selected(Beyond(p), c, t) : r > k}
<1>1. \A r \in Records : r \in Int
  BY DEF Records
<1>2. \A r \in Beyond(k) : r \in Beyond(p) /\ r > k
  BY <1>1 DEF Beyond
<1>3. \A r \in Beyond(p) : r \in Beyond(k) <=> r > k
  BY <1>1 DEF Beyond
<1>4. ASSUME NEW r \in Beyond(k)
      PROVE  (\A q \in Beyond(k) : q <= r => Holds(c.while, t, q))
             <=> (\A q \in Beyond(p) : q <= r => Holds(c.while, t, q))
  <2>1. \A q \in Beyond(p) : q <= k \/ q \in Beyond(k)
    BY <1>1 DEF Beyond
  <2> QED
    BY <1>2, <2>1
<1> QED
  BY <1>2, <1>3, <1>4 DEF Selected

\* A turn of LOCATE or CONTINUE.
LEMMA FindTurn ==
    ASSUME IInv, ~Idle, cmd.verb \in Finding
    PROVE  /\ until = NRecs /\ From \in Int /\ From < rec /\ rec \in Int
           /\ From \in Nat /\ rec <= until =>
                 /\ Here = rec /\ rec \in Beyond(From) /\ rec \in Records
                 /\ \A p \in Stands : p = rec
           /\ ~Unconditional(cmd) /\ ~Hidden /\ ~OneRecord(cmd)
           /\ Settled = current
<1>1. /\ cmd.scope = "none" /\ cmd.verb \in {"locate", "continue"}
      /\ saved \in Int /\ rec \in Int
      /\ First(cmd, saved) <= rec /\ until = Until(cmd, saved)
  BY LoopNumbers DEF IInv, Formed, Finding
<1>2. ~Unconditional(cmd) /\ ~Hidden /\ ~OneRecord(cmd) /\ ScopeOf(cmd) = "none"
  BY <1>1 DEF Unconditional, Hidden, OneRecord, ScopeOf, Editing
<1>3. until = NRecs
  BY <1>1, <1>2 DEF Until
<1>4. First(cmd, saved) = From + 1 /\ From \in Int
  BY <1>1, <1>2 DEF First, From
<1>5. From < rec
  BY <1>1, <1>4
<1>6. ASSUME From \in Nat, rec <= until
      PROVE  /\ Here = rec /\ rec \in Beyond(From) /\ rec \in Records
             /\ \A p \in Stands : p = rec
  <2>1. rec \in Records /\ rec \in Beyond(From)
    BY <1>1, <1>3, <1>5, <1>6, LoopNumbers DEF Records, Beyond
  <2>2. Here = rec
    BY <1>3, <1>6, TurnIsInTable DEF Looping
  <2>3. \A p \in Stands : p = rec
    BY <1>6, <2>1, <2>2, TurnEndsInTable DEF Looping
  <2> QED
    BY <2>1, <2>2, <2>3
<1>8. Settled = current
  BY <1>1 DEF Settled, Editing, Finding
<1> QED
  BY <1>1, <1>2, <1>3, <1>4, <1>5, <1>6, <1>8

\* What is sought beyond is in the table and selected there.
LEMMA SoughtBeyond ==
    ASSUME IInv, sought # None, NEW p \in Int, NEW c, HitsUpTo(p, c)
    PROVE  /\ \A r \in sought : r \in Records /\ r \in Int
           /\ \A r \in Beyond(p) :
                 r \in sought <=> /\ Holds(c.for, table, r)
                                  /\ \A q \in Beyond(p) : q <= r => Holds(c.while, table, q)
<1>1. \A r \in sought : r \in Records /\ r \in Int
  BY DEF IInv, TypeOK, Records
<1>2. \A r \in Beyond(p) : r > p
  BY DEF Beyond
<1> QED
  BY <1>1, <1>2 DEF HitsUpTo, Selected

\* WHILE ends the search.
LEMMA StopLooks ==
    ASSUME IInv, Stop, cmd.verb \in Finding, sought # None, Looking
    PROVE  Looking'
<1>1. /\ ~Idle /\ rec <= until /\ Stops /\ rec' = until + 1
      /\ UNCHANGED <<table, hits, sought, located, cmd, until, saved, done>>
      /\ until \in Int /\ rec \in Int
  BY LoopNumbers DEF Stop, Looping, search
<1>2. From \in Nat /\ Here = rec /\ rec \in Beyond(From) /\ rec \in Records
  BY <1>1, FindTurn DEF Looking
<1>3. done = {} /\ \A r \in sought : r <= From \/ rec <= r
  BY <1>1 DEF Looking
<1>4. ~Holds(cmd.while, table, rec)
  BY <1>1, <1>2 DEF Stops, CanFail
<1>5. ASSUME NEW r \in sought, ~(r <= From) PROVE FALSE
  <2>1. rec <= r /\ r \in Beyond(From)
    BY <1>2, <1>3, <1>5, SoughtBeyond DEF Beyond, Looking
  <2> QED
    BY <1>2, <1>4, <2>1, SoughtBeyond DEF Looking
<1>6. From' = From /\ HitsUpTo(From', cmd') /\ ~(until + 1 <= until)
  BY <1>1 DEF From, Looking
<1>7. HitsUpTo(From, cmd)'
  BY <1>1, <1>6 DEF HitsUpTo, Looking
<1> QED
  BY <1>1, <1>3, <1>5, <1>6, <1>7 DEF Looking

\* The record is not the one.
LEMMA PassLooks ==
    ASSUME IInv, Pass, cmd.verb \in Finding, sought # None, Looking
    PROVE  Looking'
<1>1. /\ ~Idle /\ rec <= until /\ Passes /\ rec' = rec + 1
      /\ UNCHANGED <<table, hits, sought, located, cmd, until, saved, done>>
      /\ until \in Int /\ rec \in Int
  BY LoopNumbers DEF Pass, Looping, search
<1>2. /\ From \in Nat /\ Here = rec /\ rec \in Beyond(From) /\ rec \in Records
      /\ ~Hidden
  BY <1>1, FindTurn DEF Looking
<1>3. /\ done = {} /\ \A r \in sought : r <= From \/ rec <= r
      /\ \A q \in Beyond(From) : q < rec => Holds(cmd.while, table, q)
  BY <1>1 DEF Looking
<1>4. Holds(cmd.while, table, rec) /\ ~Holds(cmd.for, table, rec)
  BY <1>1, <1>2 DEF Passes, CanHold, CanFail
<1>5. rec \notin sought
  BY <1>2, <1>4, SoughtBeyond DEF Looking
<1>6. \A r \in sought : r <= From \/ rec + 1 <= r
  <2>1. \A r \in sought : r \in Int /\ r # rec
    BY <1>2, <1>5, SoughtBeyond DEF Looking
  <2> QED
    BY <1>1, <1>2, <1>3, <2>1
<1>7. \A q \in Beyond(From) : q < rec + 1 => Holds(cmd.while, table, q)
  <2>1. \A q \in Beyond(From) : q \in Int
    BY DEF Beyond, Records
  <2>2. \A q \in Beyond(From) : q < rec + 1 => q < rec \/ q = rec
    BY <1>1, <2>1
  <2> QED
    BY <1>3, <1>4, <2>2
<1>8. From' = From /\ HitsUpTo(From, cmd)'
  BY <1>1 DEF HitsUpTo, Looking, From
<1> QED
  BY <1>1, <1>3, <1>6, <1>7, <1>8 DEF Looking

\* The record is the one.
LEMMA TakeLooks ==
    ASSUME IInv, Take, cmd.verb \in Finding, sought # None, Looking
    PROVE  Looking'
<1>1. /\ ~Idle /\ rec <= until /\ Accepts /\ rec' = until + 1
      /\ UNCHANGED <<hits, sought, located, cmd, until, saved>>
      /\ current' \in Stands /\ done' = done \cup {current'}
      /\ until \in Int /\ rec \in Int
  BY LoopNumbers DEF Take, Looping, search
<1>2. /\ From \in Nat /\ Here = rec /\ rec \in Beyond(From) /\ rec \in Records
      /\ ~Unconditional(cmd) /\ current' = rec
  BY <1>1, FindTurn DEF Looking
<1>3. table' = table
  <2>1. \A r : Edited(cmd, r) = r
    BY DEF Edited, Finding
  <2>2. table' = [table EXCEPT ![Here] = table[Here]]
    BY <1>2, <2>1, TakeWrites
  <2> QED
    BY <1>2, <2>2, LoopNumbers
<1>4. /\ done = {} /\ \A r \in sought : r <= From \/ rec <= r
      /\ \A q \in Beyond(From) : q < rec => Holds(cmd.while, table, q)
  BY <1>1 DEF Looking
<1>5. Holds(cmd.while, table, rec) /\ Holds(cmd.for, table, rec)
  BY <1>1, <1>2 DEF Accepts, CanHold
<1>6. \A q \in Beyond(From) : q <= rec => Holds(cmd.while, table, q)
  <2>1. \A q \in Beyond(From) : q \in Int
    BY DEF Beyond, Records
  <2>2. \A q \in Beyond(From) : q <= rec => q < rec \/ q = rec
    BY <1>1, <2>1
  <2> QED
    BY <1>4, <1>5, <2>2
<1>7. rec \in sought
  BY <1>2, <1>5, <1>6, SoughtBeyond DEF Looking
<1>8. \A r \in sought : r < rec => r <= From
  <2>1. \A r \in sought : r \in Int
    BY <1>2, SoughtBeyond DEF Looking
  <2> QED
    BY <1>1, <1>2, <1>4, <2>1
<1>9. rec > From /\ until + 1 > until
  BY <1>1, <1>2 DEF Beyond
<1>10. From' = From /\ HitsUpTo(From, cmd)'
  BY <1>1, <1>3 DEF HitsUpTo, Looking, From
<1>11. done' = {rec} /\ current' = rec
  BY <1>1, <1>2, <1>4
<1> QED
  BY <1>1, <1>3, <1>6, <1>7, <1>8, <1>9, <1>10, <1>11 DEF Looking

\* An edit of the current record touches no record beyond it.
LEMMA OneTurn ==
    ASSUME IInv, ~Idle, OneRecord(cmd), Stop \/ Pass \/ Take
    PROVE  /\ UNCHANGED <<cmd, saved, found, hits, sought, located>>
           /\ saved \in Records => \A r \in Beyond(saved) : table'[r] = table[r]
<1>1. UNCHANGED <<cmd, saved, found, hits, sought, located>>
  BY DEF Stop, Pass, Take, search
<1>2. CASE Stop \/ Pass
  BY <1>1, <1>2 DEF Stop, Pass
<1>3. CASE Take /\ saved \in Records
  <2>1. rec <= until /\ cmd.verb # "continue" /\ OneRecord(cmd) /\ ScopeOf(cmd) = "none"
    BY <1>3 DEF Take, Looping, OneRecord, Editing
  <2>2. First(cmd, saved) = saved /\ Until(cmd, saved) = saved
    BY <2>1 DEF First, Until
  <2>3. rec = saved
    BY <2>1, <2>2, LoopNumbers
  <2>4. Here = saved
    BY <2>3, LoopNumbers DEF Here, Goto
  <2>5. table' = [table EXCEPT ![saved] = Edited(cmd, table[saved])]
    BY <1>3, <2>4, TakeWrites
  <2>6. \A r \in Beyond(saved) : r \in Records /\ r # saved
    BY LoopNumbers DEF Beyond
  <2> QED
    BY <1>1, <2>5, <2>6, LoopNumbers
<1> QED
  BY <1>1, <1>2, <1>3

\* What was found stays found if nothing beyond the record changes.
LEMMA FoundKept ==
    ASSUME (saved' = saved /\ FoundUpTo(saved)) \/ (saved' = current /\ FoundUpTo(current)),
           UNCHANGED <<found, hits, sought, located>>,
           saved' \in Records => \A r \in Beyond(saved') : table'[r] = table[r]
    PROVE  FoundUpTo(saved)'
<1>1. saved' \in Records =>
         Selected(Beyond(saved'), located, table') = Selected(Beyond(saved'), located, table)
  BY SelectedSame
<1> QED
  BY <1>1 DEF FoundUpTo, HitsUpTo

\* The turns of a loop.
LEMMA LoopSearches ==
    ASSUME IInv, Searching, Stop \/ Pass \/ Take
    PROVE  Searching'
<1>1. ~Idle /\ UNCHANGED <<cmd, sought, located>>
  BY DEF Stop, Pass, Take, Looping, search
<1>2. SUFFICES ASSUME sought # None
               PROVE  Searching'
  BY <1>1 DEF Searching
<1>3. ~Idle' /\ located' # None /\ sought' # None
  BY <1>1, <1>2 DEF Searching, Idle
<1>4. CASE cmd.verb \in Finding
  <2>1. Looking
    BY <1>1, <1>2, <1>4 DEF Searching
  <2>2. Looking'
    BY <1>2, <1>4, <2>1, StopLooks, PassLooks, TakeLooks
  <2>3. ~OneRecord(cmd)
    BY <1>4 DEF OneRecord, Editing, Finding
  <2> QED
    BY <1>1, <1>3, <1>4, <2>2, <2>3 DEF Searching
<1>5. CASE OneRecord(cmd)
  <2>1. FoundUpTo(saved)
    BY <1>1, <1>2, <1>5 DEF Searching
  <2>2. FoundUpTo(saved)'
    <3>1. /\ UNCHANGED <<cmd, saved, found, hits, sought, located>>
          /\ saved \in Records => \A r \in Beyond(saved) : table'[r] = table[r]
      BY <1>1, <1>5, OneTurn
    <3> QED
      BY <2>1, <3>1, FoundKept
  <2>3. cmd.verb \notin Finding
    BY <1>5 DEF OneRecord, Editing, Finding
  <2> QED
    BY <1>1, <1>3, <1>5, <2>2, <2>3 DEF Searching
<1> QED
  BY <1>1, <1>2, <1>4, <1>5 DEF Searching

\* What a LOCATE or CONTINUE that ends has found.
LEMMA FindEnds ==
    ASSUME IInv, ~Idle, rec > until, cmd.verb \in Finding, sought # None, Looking
    PROVE  /\ done = {} => hits = sought
           /\ done # {} => /\ done = {current} /\ current \in sought
                           /\ \A h \in hits : h < current
                           /\ hits \cup done = {r \in sought : r <= current}
                           /\ {r \in sought : r > current}
                              = Selected(Beyond(current), cmd, table)
<1> USE NRecsAssumption
<1>1. /\ From \in Nat /\ rec \in Int /\ until = NRecs /\ current \in Int
      /\ \A r \in sought : r \in Records /\ r \in Int
      /\ HitsUpTo(From, cmd)
  BY FindTurn, SoughtBeyond, LoopNumbers DEF Looking
<1>2. ASSUME done = {} PROVE hits = sought
  <2>1. \A r \in sought : r <= From \/ rec <= r
    BY <1>2 DEF Looking
  <2>2. \A r \in sought : r <= From
    BY <1>1, <2>1 DEF Records
  <2> QED
    BY <1>1, <2>2 DEF HitsUpTo
<1>3. ASSUME done # {}
      PROVE  /\ done = {current} /\ current \in sought
             /\ \A h \in hits : h < current
             /\ hits \cup done = {r \in sought : r <= current}
             /\ {r \in sought : r > current} = Selected(Beyond(current), cmd, table)
  <2>1. /\ done = {current} /\ current \in sought
        /\ current > From /\ \A r \in sought : r < current => r <= From
        /\ \A q \in Beyond(From) : q <= current => Holds(cmd.while, table, q)
    BY <1>3 DEF Looking
  <2>2. current \in Int /\ From < current /\ From <= current
    BY <1>1, <2>1
  <2>3. hits = {r \in sought : r <= From}
    BY <1>1 DEF HitsUpTo
  <2>4. Selected(Beyond(current), cmd, table)
        = {r \in Selected(Beyond(From), cmd, table) : r > current}
    BY <1>1, <2>1, <2>2, SelectedBeyond
  <2>5. Selected(Beyond(From), cmd, table) = {r \in sought : r > From}
    BY <1>1 DEF HitsUpTo
  <2>6. \A r \in sought : /\ r <= current <=> r <= From \/ r = current
                          /\ r > current => r > From
    BY <1>1, <2>1, <2>2
  <2>7. \A h \in hits : h < current
    BY <1>1, <2>2, <2>3
  <2>8. hits \cup done = {r \in sought : r <= current}
    BY <2>1, <2>3, <2>6
  <2> QED
    BY <2>1, <2>4, <2>5, <2>6, <2>7, <2>8
<1> QED
  BY <1>2, <1>3

\* A loop ends.
LEMMA FinishSearches ==
    ASSUME IInv, Searching, Finish
    PROVE  Searching'
<1>1. /\ ~Idle /\ rec > until /\ current' = Settled /\ Idle'
      /\ UNCHANGED <<table, located, sought>>
  BY DEF Finish, Idle
<1>2. SUFFICES ASSUME sought # None
               PROVE  FoundUpTo(current)'
  BY <1>1 DEF Searching
<1>3. CASE OneRecord(cmd)
  <2>1. FoundUpTo(saved) /\ cmd.verb \notin Finding \cup {"list"}
        /\ ScopeOf(cmd) \notin {"next", "rest"}
    BY <1>1, <1>2, <1>3 DEF Searching, OneRecord, Editing, Finding
  <2>2. Settled = saved
    BY <1>1, <2>1, SettledStays
  <2>3. UNCHANGED <<found, hits>>
    BY <2>1 DEF Finish
  <2> QED
    BY <1>1, <2>1, <2>2, <2>3 DEF FoundUpTo, HitsUpTo
<1>4. CASE cmd.verb \in Finding
  <2>1. Looking /\ Settled = current
    BY <1>1, <1>2, <1>4, FindTurn DEF Searching
  <2>2. /\ found' = (done # {}) /\ hits' = hits \cup done /\ current' = current
    BY <1>1, <1>4, <2>1 DEF Finish
  <2>3. CASE done = {}
    BY <1>1, <1>2, <1>4, <2>1, <2>2, <2>3, FindEnds DEF FoundUpTo
  <2>4. CASE done # {}
    <3>1. /\ hits \cup done = {r \in sought : r <= current}
          /\ {r \in sought : r > current} = Selected(Beyond(current), cmd, table)
      BY <1>1, <1>2, <1>4, <2>1, <2>4, FindEnds
    <3>2. Selected(Beyond(current), cmd, table) = Selected(Beyond(current), located, table)
      BY <2>1, SelectedSame DEF Looking
    <3>3. HitsUpTo(current, located)'
      BY <1>1, <2>2, <3>1, <3>2 DEF HitsUpTo
    <3>4. found'
      BY <2>2, <2>4, Zenon
    <3>5. current' \in Records
      BY <1>1, <1>2, <1>4, <2>1, <2>2, <2>4, FindEnds DEF IInv, TypeOK
    <3> QED
      BY <3>3, <3>4, <3>5 DEF FoundUpTo
  <2> QED
    BY <2>3, <2>4
<1> QED
  BY <1>1, <1>2, <1>3, <1>4 DEF Searching

\* A command other than LOCATE and CONTINUE starts.
LEMMA RunSearches ==
    ASSUME IInv, Searching, NEW c \in Commands, Run(c)
    PROVE  Searching'
<1>1. /\ Idle /\ c.verb \notin Finding /\ cmd' = c /\ saved' = current
      /\ UNCHANGED <<table, current, found, located>>
      /\ IF OneRecord(c) THEN UNCHANGED <<sought, hits>> ELSE sought' = None
  BY DEF Run, Start
<1>2. ~Idle'
  BY <1>1, CommandsAssumption, NoneAssumption DEF Idle
<1>3. CASE OneRecord(c) /\ sought # None
  <2>1. located # None /\ FoundUpTo(current)
    BY <1>1, <1>3 DEF Searching
  <2>2. FoundUpTo(saved)'
    BY <1>1, <1>3, <2>1, FoundKept
  <2> QED
    BY <1>1, <1>2, <1>3, <2>1, <2>2 DEF Searching
<1>4. CASE ~OneRecord(c) \/ sought = None
  BY <1>1, <1>4 DEF Searching
<1> QED
  BY <1>3, <1>4

\* LOCATE looks from the top.
LEMMA LocateSearches ==
    ASSUME IInv, Searching, NEW c \in Commands, Locate(c)
    PROVE  Searching'
<1>1. /\ Idle /\ c.verb = "locate" /\ cmd' = c /\ located' = c /\ table' = table
      /\ done' = {} /\ rec' = First(c, current)
      /\ sought' = Selected(Records, c, table) /\ hits' = {}
  BY DEF Locate, Start
<1>2. ~Idle' /\ located' # None
  BY <1>1, CommandsAssumption, NoneAssumption DEF Idle
<1>3. From' = 0 /\ From' \in Nat /\ Beyond(0) = Records
  BY <1>1 DEF From, Beyond, Records
<1>4. rec' = 1
  <2>1. c.scope = "none" /\ ScopeOf(c) = "none" /\ ~OneRecord(c)
    BY <1>1, CommandsAssumption DEF ScopeOf, OneRecord, Editing
  <2> QED
    BY <1>1, <2>1 DEF First
<1>5. \A r \in Records : r > 0 /\ 1 <= r /\ ~(r < 1) /\ ~(r <= 0)
  BY DEF Records
<1>6. HitsUpTo(0, c)'
  <2>1. \A r \in Selected(Records, c, table) : r \in Records
    BY DEF Selected
  <2> QED
    BY <1>1, <1>3, <1>5, <2>1 DEF HitsUpTo
<1>7. \A r \in sought' : rec' <= r
  BY <1>1, <1>4, <1>5 DEF Selected
<1>8. \A q \in Beyond(0) : ~(q < rec')
  BY <1>3, <1>4, <1>5
<1>9. Looking'
  BY <1>1, <1>3, <1>6, <1>7, <1>8 DEF Looking, HitsUpTo
<1>10. cmd'.verb \in Finding /\ ~OneRecord(cmd')
  BY <1>1 DEF Finding, OneRecord, Editing
<1> QED
  BY <1>2, <1>9, <1>10 DEF Searching

\* CONTINUE looks behind the record found last.
LEMMA ContinueSearches ==
    ASSUME IInv, Searching, Continue
    PROVE  Searching'
<1>1. CASE located = None
  <2>1. /\ sought = None /\ sought' = sought
    BY <1>1 DEF Continue, Searching
  <2> QED
    BY <2>1 DEF Searching
<1>2. CASE located # None /\ found /\ sought # None
  <2> DEFINE c == [located EXCEPT !.verb = "continue"]
  <2>1. /\ Idle /\ Start(c)
        /\ UNCHANGED <<table, current, located, found, sought, hits>>
    BY <1>2 DEF Continue
  <2>2. located \in Command
    BY <1>2, CommandsAssumption DEF IInv, TypeOK
  <2>3. /\ c \in Command /\ c.verb = "continue"
        /\ c.for = located.for /\ c.while = located.while
    BY <2>2 DEF Command, Verbs, Finding
  <2> HIDE DEF c
  <2>4. /\ cmd' = c /\ saved' = current /\ done' = {} /\ rec' = current + 1
        /\ current \in Int
    <3>1. located.scope = "none"
      BY <1>2 DEF IInv, Formed
    <3>2. ~OneRecord(c) /\ ScopeOf(c) = "none"
      BY <2>3, <3>1 DEF c, OneRecord, ScopeOf, Editing
    <3>3. First(c, current) = current + 1
      BY <2>3, <3>2 DEF First
    <3> QED
      BY <2>1, <3>3, LoopNumbers DEF Start
  <2>5. ~Idle'
    BY <2>3, <2>4, NoneAssumption DEF Idle
  <2>6. From' = current
    BY <2>3, <2>4 DEF From
  <2>7. HitsUpTo(current, located) /\ current \in Records /\ From' \in Nat
    BY <1>2, <2>1, <2>6 DEF Searching, FoundUpTo, Records
  <2>8. Selected(Beyond(current), c, table) = Selected(Beyond(current), located, table)
    BY <2>3, SelectedSame
  <2>9. HitsUpTo(From, cmd)'
    BY <2>1, <2>4, <2>6, <2>7, <2>8 DEF HitsUpTo
  <2>10. /\ \A r \in sought' : r <= current \/ rec' <= r
         /\ \A q \in Beyond(current) : ~(q < rec')
    <3>1. \A r \in sought' : r \in Records
      BY <1>2, <2>1 DEF IInv, TypeOK
    <3> QED
      BY <2>4, <3>1 DEF Beyond, Records
  <2>11. Looking'
    BY <2>1, <2>3, <2>4, <2>6, <2>7, <2>9, <2>10 DEF Looking
  <2>12. cmd'.verb \in Finding /\ ~OneRecord(cmd') /\ located' # None
    BY <1>2, <2>1, <2>3, <2>4 DEF Finding, OneRecord, Editing
  <2> QED
    BY <2>5, <2>11, <2>12 DEF Searching
<1>3. CASE located # None /\ ~(found /\ sought # None)
  BY <1>3 DEF Continue, Searching
<1> QED
  BY <1>1, <1>2, <1>3

\* Every step keeps what is found in step with what is sought.
LEMMA NextSearches ==
    ASSUME IInv, Searching, [Next]_vars
    PROVE  Searching'
<1>1. ASSUME NEW r \in GoTargets, Go(r) PROVE Searching'
  BY <1>1 DEF Go, Searching
<1>2. ASSUME UNCHANGED vars PROVE Searching'
  BY <1>2 DEF vars, scan, search, Searching, Idle, FoundUpTo, HitsUpTo, Looking, From
<1> QED
  BY <1>1, <1>2, LoopSearches, FinishSearches, RunSearches, LocateSearches,
     ContinueSearches DEF Next

\* LOCATE and its CONTINUEs find every record once and in order, and the one
\* that finds none has left none out.
THEOREM LocateFinds == Spec => LocateFindsAll
<1>1. Init => Searching
  BY DEF Init, Searching
<1>2. IInv /\ Searching /\ [Next]_vars => Searching'
  BY NextSearches
<1> DEFINE Finds ==
        Finish /\ cmd.verb \in Finding /\ sought # None =>
            /\ done \subseteq sought /\ \A r \in done, h \in hits : h < r
            /\ done = {} => hits = sought
            /\ done # {} => current' \in done
<1>3. IInv /\ Searching => Finds
  <2> SUFFICES ASSUME IInv, Searching, Finish, cmd.verb \in Finding, sought # None
               PROVE  /\ done \subseteq sought /\ \A r \in done, h \in hits : h < r
                      /\ done = {} => hits = sought
                      /\ done # {} => current' \in done
    OBVIOUS
  <2>1. ~Idle /\ rec > until /\ current' = Settled
    BY DEF Finish
  <2>2. Looking /\ Settled = current
    BY <2>1, FindTurn DEF Searching
  <2>3. /\ done = {} => hits = sought
        /\ done # {} => /\ done = {current} /\ current \in sought
                        /\ \A h \in hits : h < current
    BY <2>1, <2>2, FindEnds
  <2> QED
    BY <2>1, <2>2, <2>3
<1>4. IInv /\ Searching => [Finds]_vars
  BY <1>3
<1> QED
  BY <1>1, <1>2, <1>4, Invariance, PTL DEF Spec, LocateFindsAll
=============================================================================
