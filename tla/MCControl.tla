----------------------------- MODULE MCControl -----------------------------
(***************************************************************************)
(* Programs for Control.                                                   *)
(***************************************************************************)
EXTENDS Control

L(k) == [kw |-> k, name |-> ""]
N(k, n) == [kw |-> k, name |-> n]
S == <<L("stmt")>>
Eof == <<L("eof")>>
Exit == <<L("exit")>>
Loop == <<L("loop")>>
Ret == <<L("return")>>
Quit == <<L("cancel")>>
Call1(n) == <<N("do", n)>>
SetProc(n) == <<N("setproc", n)>>
If1(b) == <<L("if")>> \o b \o <<L("endif")>>
If2(b, c) == <<L("if")>> \o b \o <<L("else")>> \o c \o <<L("endif")>>
While(b) == <<L("while")>> \o b \o <<L("enddo")>>
Case1(b) == <<L("docase"), L("case")>> \o b \o <<L("endcase")>>
Case2(b, c) == <<L("docase"), L("case")>> \o b \o <<L("case")>> \o c \o <<L("endcase")>>
Case3(b, c) == <<L("docase"), L("case")>> \o b \o <<L("otherwise")>> \o c \o <<L("endcase")>>
Proc(n, b) == <<N("procedure", n)>> \o b

\* Code of exactly n lines; loop: they are inside a DO WHILE, and jumps may be
\* used; call: the procedures they may call.
RECURSIVE Code(_, _, _), One(_, _, _)
One(n, loop, call) ==
    IF n = 1 THEN {S} \cup {Call1(p) : p \in call} \cup (IF loop THEN {Exit, Loop} ELSE {})
    ELSE {If1(b) : b \in Code(n - 2, loop, call)}
         \cup {While(b) : b \in Code(n - 2, TRUE, call)}
         \cup UNION {{If2(b, c) : b \in Code(i, loop, call),
                                  c \in Code(n - 3 - i, loop, call)} : i \in 0..(n - 3)}
         \cup {Case1(b) : b \in Code(n - 3, loop, call)}
         \cup UNION {{Case2(b, c) : b \in Code(i, loop, call),
                                    c \in Code(n - 4 - i, loop, call)} : i \in 0..(n - 4)}
         \cup UNION {{Case3(b, c) : b \in Code(i, loop, call),
                                    c \in Code(n - 4 - i, loop, call)} : i \in 0..(n - 4)}
Code(n, loop, call) ==
    IF n < 0 THEN {} ELSE IF n = 0 THEN {<<>>}
    ELSE UNION {{a \o b : a \in One(k, loop, call), b \in Code(n - k, loop, call)} : k \in 1..n}

File(b) == [lines |-> b \o Eof, files |-> <<>>]

Small == {File(b) : b \in UNION {Code(n, FALSE, {}) : n \in 1..7}}

\* A program with a second file: its lines, and that file's, known as "f".
Files(b, c) == [lines |-> b \o Eof \o c \o Eof,
                files |-> [n \in {"f"} |-> Len(b) + 2]]

\* Procedures that return, from inside their blocks too, and call each other.
Returning ==
    File(While(If2(Exit, Call1("a"))) \o Call1("b") \o Call1("missing")
         \o Proc("a", If1(Ret) \o S \o Ret)
         \o Proc("b", Case3(Ret, Call1("a")) \o While(If2(Loop, Ret)) \o Ret))

\* Procedures without RETURN, more of them than there are frames.
Falling ==
    File(While(Call1("a")) \o Call1("b") \o If1(Quit) \o S
         \o Proc("a", If1(Call1("b"))) \o Proc("b", S))

\* One of each: the frame the first one leaves is the one RETURN pops.
Mixed ==
    File(Call1("a") \o Call1("b") \o S \o Ret
         \o Proc("a", Call1("b") \o If1(Ret)) \o Proc("b", S))

\* Three calls deep, one more than there are frames.
Deep ==
    File(Call1("a") \o S \o Proc("a", Call1("b") \o Ret)
         \o Proc("b", Call1("c") \o Ret) \o Proc("c", S \o Ret))

\* A file run for what stands before its procedures, one run for its procedure,
\* and a procedure file; procedures with RETURN and without.
RunsFile == Files(Call1("f") \o Call1("g") \o S, If1(Ret) \o S \o Proc("g", Ret))
RunsOwn == Files(While(Call1("f")) \o S, Quit \o Proc("f", S \o Ret))
UsesFile ==
    Files(Call1("a") \o SetProc("f") \o Call1("g") \o Call1("a") \o Proc("a", Ret),
          S \o Proc("g", S) \o Proc("h", Ret))

OnlyFile == Files(SetProc("f") \o Call1("g") \o S, Proc("g", Call1("h") \o Ret) \o Proc("h", Ret))

\* A procedure that sets the procedure file runs on into the next one.
RunsOn == Files(Call1("a") \o S \o Proc("a", SetProc("f")) \o Proc("b", S), S)

\* Every DO of a file without a procedure of its name registers its procedures again.
Repeated == Files(While(Call1("f")) \o SetProc("none") \o S, S \o Proc("g", S) \o Proc("h", S))

\* Loops, branches and jumps inside each other.
Nested ==
    {File(b) : b \in
       {While(While(If1(Exit)) \o If1(Loop) \o S) \o S,
        While(If2(If1(Exit) \o S, While(Loop)) \o S) \o S,
        While(Exit \o Case1(S)) \o S,
        While(If1(Exit) \o While(Case1(S))) \o While(S) \o S,
        While(Case2(S \o Exit \o S, If1(Loop)) \o S) \o S,
        While(Case3(While(Exit), Loop)) \o S,
        If2(S \o If2(S, S) \o S, If2(S, S)) \o S,
        If2(S, If2(S, S) \o S) \o S,
        If2(While(If1(S)) \o Case1(S), S) \o S,
        Case2(Case2(S, S) \o S, S) \o S,
        Case2(If2(S, S), While(S)) \o S,
        <<L("docase")>> \o S \o Tail(Case3(S, S)) \o S,
        While(If1(Ret) \o If1(Quit)) \o S}}

Procedures == {Returning, Falling, Mixed, Deep, RunsFile, RunsOwn, UsesFile, OnlyFile, RunsOn, Repeated}

SomePrograms == Small \cup Nested \cup Procedures

\* What the theorem FollowsStructure asks of the programs: all of these are well
\* formed, and most call only what is known from the first file.
ASSUME FollowsAssumption ==
    /\ \A g \in SomePrograms : WellFormed(g)
    /\ \A g \in Small \cup Nested \cup {Returning, Falling, Mixed, Deep} : CallsKnown(g)

\* The menu of examples/crud/main.prg: EXIT in a branch of DO CASE.
Menu == {File(While(Case2(Call1("add"), Exit)) \o S)}
=============================================================================
