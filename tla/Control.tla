------------------------------ MODULE Control ------------------------------
(***************************************************************************)
(* The flow of control of a program in executor.c: IF, DO WHILE, DO CASE,  *)
(* EXIT, LOOP, DO, RETURN, CANCEL and SET PROCEDURE.                       *)
(*                                                                         *)
(* The interpreter has no syntax tree.  A C function per construct moves   *)
(* one cursor over the tokens, skips what is not executed by looking for   *)
(* keywords, and tells its caller by a status how it ended.  The C stack   *)
(* is "stack", one activation per running construct; beside it the         *)
(* interpreter keeps a stack of its own, "calls", that RETURN pops.        *)
(*                                                                         *)
(* What a condition yields is left open each time it is evaluated.         *)
(***************************************************************************)
EXTENDS Program

CONSTANTS
    Programs,       \* the programs that may be run
    MaxDepth,       \* MAX_CALL_DEPTH
    MaxProcs,       \* MAX_PROCEDURES
    MaxTurns        \* bound: the loop turns of a run

ASSUME ProgramsAssumption == \A g \in Programs : IsProgram(g)
\* SET PROCEDURE frees the tokens of the procedure file before: in a procedure of
\* such a file it would free what is being run.
ASSUME SetProcAssumption ==
    \A g \in Programs : \A p \in 1..Len(g.lines), f \in DOMAIN g.files :
        Kw(g, p) = "setproc" => p < g.files[f]
ASSUME BoundsAssumption == /\ MaxDepth \in Nat \ {0} /\ MaxProcs \in Nat
                           /\ MaxTurns \in Nat

VARIABLES
    prog,       \* the program
    cur,        \* the token cursor
    stack,      \* the C functions that run, innermost last
    status,     \* what the innermost statement returned
    calls,      \* call_stack: the tokens to resume at
    target,     \* last_return_target, 0 while it is NULL
    registry,   \* procedures: the lines of the PROCEDUREs known, in order
    turns,      \* loop turns so far
    \* history
    line,       \* the last line control was settled on
    fellOff,    \* some procedure ended without a RETURN
    refused     \* call_push() found the stack full

vars == <<prog, cur, stack, status, calls, target, registry, turns,
          line, fellOff, refused>>
history == <<fellOff, refused>>

Blocks == {"then", "else", "while", "case"}
CallKinds == {"tokens", "range"}    \* execute_tokens(), execute_token_range()

\* at: the line of the block (history but for DO WHILE), or the end_sentinel of a
\* range.
\* resume: where the caller goes on when a call ends without RETURN.
\* level: how many calls are running here, this one included.
Activation ==
    [kind : Blocks \cup CallKinds, at : Nat, resume : Nat, level : Nat,
     matched : BOOLEAN, body : {"none", "case", "otherwise"}]

Top == stack[Len(stack)]
Popped == SubSeq(stack, 1, Len(stack) - 1)

Started(k, at, resume, level) ==
    [kind |-> k, at |-> at, resume |-> resume, level |-> level,
     matched |-> FALSE, body |-> "none"]

Block(k, at) == Started(k, at, 0, Top.level)
Call(k, at, resume) == Started(k, at, resume, Top.level + 1)

\* Mutant: a full registry is not noticed.
RegisterAll(known, new) == known \o new

Register(known, new) ==
    known \o SubSeq(new, 1, IF MaxProcs - Len(known) < Len(new)
                            THEN MaxProcs - Len(known) ELSE Len(new))

Init ==
    /\ prog \in Programs
    /\ cur = 1 /\ line = 1
    /\ stack = <<Started("tokens", 0, 0, 0)>>
    /\ status = "ok" /\ calls = <<>> /\ target = 0
    /\ registry = Register(<<>>, Scanned(prog, 1))
    /\ turns = 0 /\ fellOff = FALSE /\ refused = FALSE

-----------------------------------------------------------------------------
(* Where the innermost function looks for the end of its block *)

\* DO CASE looks for the next branch.
Dispatching == Top.kind = "case" /\ Top.body = "none"

AtBlockEnd ==
    \/ Kw(prog, cur) = "eof"
    \/ Kw(prog, cur) \in
         CASE Top.kind = "then"        -> {"else", "endif"}
           [] Top.kind = "else"        -> {"endif"}
           [] Top.kind = "while"       -> {"enddo"}
           [] Top.kind = "case"        -> IF Top.body = "case" THEN Heads ELSE {"endcase"}
           [] Top.kind = "tokens"      -> {"procedure"}
           [] OTHER                    -> {}
    \/ Top.kind = "range" /\ cur = Top.at /\ Kw(prog, cur) = "procedure"

Running == stack # <<>> /\ status = "ok"
At(kws) == Running /\ ~Dispatching /\ ~AtBlockEnd /\ Kw(prog, cur) \in kws
Ending(kinds) == Running /\ ~Dispatching /\ AtBlockEnd /\ Top.kind \in kinds

Keep == UNCHANGED <<prog, calls, target, registry, turns, history>>
Stay == status' = status

\* Control is settled where the next statement is executed; between a status
\* and its handler, and while DO CASE looks for its branch, it is not.
Settle ==
    line' = IF /\ stack' # <<>> /\ status' = "ok"
               /\ LET top == stack'[Len(stack')]
                  IN top.kind = "case" => top.body # "none"
            THEN cur' ELSE line

-----------------------------------------------------------------------------
(* Statements *)

\* Any other command, and a keyword that has no business here.
Simple == /\ At({"stmt"} \cup {"else", "endif", "enddo", "procedure"} \cup Heads)
          /\ cur' = cur + 1
          /\ UNCHANGED stack /\ Stay /\ Keep

IfTrue == /\ At({"if"})
          /\ cur' = cur + 1
          /\ stack' = Append(stack, Block("then", cur))
          /\ Stay /\ Keep

\* skip_block_nested() counts an ELSE as the end of a block wherever it meets one.
IfFalse ==
    /\ At({"if"})
    /\ \E q \in 1..Len(prog.lines) :
         /\ StopsAt(prog, cur + 1, Openers, Closers \cup {"else"}, q)
         /\ IF Kw(prog, q) = "else"
            THEN cur' = q + 1 /\ stack' = Append(stack, Block("else", cur))
            ELSE cur' = Consumed(prog, q, "endif") /\ UNCHANGED stack
    /\ Stay /\ Keep

\* Mutant: DO WHILEs on the way are not counted.
SkipToEnddo(p) ==
    \E q \in 1..Len(prog.lines) : /\ StopsAt(prog, p, {}, {"enddo"}, q)
                                  /\ cur' = Consumed(prog, q, "enddo")

\* Past the loop: only DO WHILEs are counted on the way to ENDDO.
SkipLoop(p) ==
    \E q \in 1..Len(prog.lines) : /\ StopsAt(prog, p, {"while"}, {"enddo"}, q)
                                  /\ cur' = Consumed(prog, q, "enddo")

WhileTrue ==
    /\ At({"while"}) /\ turns < MaxTurns
    /\ turns' = turns + 1
    /\ cur' = cur + 1
    /\ stack' = Append(stack, Block("while", cur))
    /\ Stay /\ UNCHANGED <<prog, calls, target, registry, history>>

WhileFalse == /\ At({"while"})
              /\ SkipLoop(cur + 1)
              /\ UNCHANGED stack /\ Stay /\ Keep

DoCase == /\ At({"docase"})
          /\ cur' = cur + 1
          /\ stack' = Append(stack, Block("case", cur))
          /\ Stay /\ Keep

\* EXIT and LOOP, and RETURN, which pops the interpreter's own stack at once.
Raise == /\ At({"exit", "loop"})
         /\ status' = Kw(prog, cur)
         /\ cur' = cur + 1
         /\ UNCHANGED stack /\ Keep

\* Mutant: the popped frame is left where it was.
LeavesFrame(frames) == frames

PopFrame(frames) == SubSeq(frames, 1, Len(frames) - 1)

Return ==
    /\ At({"return"})
    /\ status' = "return"
    /\ IF calls = <<>> THEN UNCHANGED <<calls, target>>
       ELSE target' = calls[Len(calls)] /\ calls' = PopFrame(calls)
    /\ cur' = cur + 1
    /\ UNCHANGED <<prog, stack, registry, turns, history>>

\* CANCEL and QUIT: every function hands the status on.
Cancel == /\ At({"cancel"})
          /\ status' = "cancel" /\ stack' = <<>>
          /\ UNCHANGED cur /\ Keep

-----------------------------------------------------------------------------
(* DO name, SET PROCEDURE TO file *)

\* Mutant: the call resumes at the DO itself.
ResumeAtCall(p) == p

ReturnPoint(p) == p + 1

\* call_push(): a full stack keeps its frames, and the call goes on all the same.
PushFrame(frames, p) == IF Len(frames) < MaxDepth THEN Append(frames, p) ELSE frames

\* The procedure that begins at line p is the first registered under the name.
Finds(known, name, p) ==
    \E i \in DOMAIN known : /\ known[i] = p /\ Name(prog, p) = name
                            /\ \A j \in 1..(i - 1) : Name(prog, known[j]) # name

Unknown(known, name) == \A i \in DOMAIN known : Name(prog, known[i]) # name

\* The body ends at the next PROCEDURE token, be it that of a SET PROCEDURE.
RunBody(kind, start) ==
    /\ refused' = (refused \/ Len(calls) = MaxDepth)
    /\ calls' = PushFrame(calls, ReturnPoint(cur))
    /\ cur' = start
    /\ \E q \in 1..Len(prog.lines) :
         /\ StopsAt(prog, start, {}, {"procedure", "setproc"}, q)
         /\ stack' = Append(stack, Call(kind, q, ReturnPoint(cur)))

\* A procedure that is known, else a file: its procedures become known, and the
\* one of its own name is run, or what stands before its first.
Do ==
    /\ At({"do"})
    /\ LET name == Name(prog, cur)
       IN \/ /\ \E p \in 1..Len(prog.lines) : /\ Finds(registry, name, p)
                                                /\ RunBody("range", p + 1)
             /\ UNCHANGED registry
          \/ /\ Unknown(registry, name) /\ name \in DOMAIN prog.files
             /\ registry' = Register(registry, Scanned(prog, prog.files[name]))
             /\ \/ \E p \in 1..Len(prog.lines) : /\ Finds(registry', name, p)
                                                   /\ RunBody("range", p + 1)
                \/ Unknown(registry', name) /\ RunBody("tokens", prog.files[name])
          \/ /\ Unknown(registry, name) /\ name \notin DOMAIN prog.files
             /\ cur' = ReturnPoint(cur)
             /\ UNCHANGED <<stack, calls, registry, refused>>
    /\ Stay /\ UNCHANGED <<prog, target, turns, fellOff>>

\* The procedures known so far are forgotten, those of the program itself included.
SetProcedure ==
    /\ At({"setproc"})
    /\ LET name == Name(prog, cur)
       IN registry' = IF name \in DOMAIN prog.files
                      THEN Register(<<>>, Scanned(prog, prog.files[name])) ELSE <<>>
    /\ cur' = cur + 1
    /\ Stay /\ UNCHANGED <<prog, stack, calls, target, turns, history>>

-----------------------------------------------------------------------------
(* The end of a block *)

\* After the true branch: the ELSE branch is skipped.
EndThen ==
    /\ Ending({"then"})
    /\ IF Kw(prog, cur) = "else"
       THEN \E q \in 1..Len(prog.lines) :
              /\ StopsAt(prog, cur + 1, Openers, Closers, q)
              /\ cur' = Consumed(prog, q, "endif")
       ELSE cur' = Consumed(prog, cur, "endif")
    /\ stack' = Popped
    /\ Stay /\ Keep

EndElse == /\ Ending({"else"})
           /\ cur' = Consumed(prog, cur, "endif")
           /\ stack' = Popped
           /\ Stay /\ Keep

AtLoopEnd == \/ Ending({"while"})
             \/ stack # <<>> /\ status = "loop" /\ Top.kind = "while"

LoopAgain ==
    /\ AtLoopEnd /\ turns < MaxTurns
    /\ turns' = turns + 1
    /\ cur' = Top.at + 1
    /\ status' = "ok"
    /\ UNCHANGED <<prog, stack, calls, target, registry, history>>

LoopDone == /\ AtLoopEnd
            /\ SkipLoop(cur)
            /\ stack' = Popped
            /\ status' = "ok" /\ Keep

EndBranch == /\ Ending({"case"})
             /\ stack' = Append(Popped, [Top EXCEPT !.body = "none"])
             /\ UNCHANGED cur /\ Stay /\ Keep

\* A procedure or a file that runs to its end: its frame stays on "calls".
EndCall == /\ Ending(CallKinds) /\ Len(stack) > 1
           /\ cur' = Top.resume
           /\ stack' = Popped
           /\ fellOff' = TRUE
           /\ Stay /\ UNCHANGED <<prog, calls, target, registry, turns, refused>>

EndProgram == /\ Ending(CallKinds) /\ Len(stack) = 1
              /\ stack' = <<>>
              /\ UNCHANGED cur /\ Stay /\ Keep

-----------------------------------------------------------------------------
(* DO CASE: the next branch *)

Choosing(kws) == Running /\ Dispatching /\ Kw(prog, cur) \in kws

Enter(body) == /\ stack' = Append(Popped, [Top EXCEPT !.matched = TRUE, !.body = body])
               /\ cur' = cur + 1

\* Blocks inside a branch that is skipped are not counted.
SkipBranch(ends) ==
    /\ \E q \in 1..Len(prog.lines) : StopsAt(prog, cur + 1, {}, ends, q) /\ cur' = q
    /\ UNCHANGED stack

Untaken(kws) == Choosing(kws) /\ ~Top.matched

CaseTrue == Untaken({"case"}) /\ Enter("case") /\ Stay /\ Keep

CaseSkipped == Choosing({"case"}) /\ SkipBranch(Heads) /\ Stay /\ Keep

Otherwise == Untaken({"otherwise"}) /\ Enter("otherwise") /\ Stay /\ Keep

OtherwiseSkipped ==
    /\ Choosing({"otherwise"}) /\ Top.matched
    /\ SkipBranch({"endcase"})
    /\ Stay /\ Keep

EndCase == /\ Choosing({"endcase", "eof"})
           /\ cur' = Consumed(prog, cur, "endcase")
           /\ stack' = Popped
           /\ Stay /\ Keep

NoBranch == /\ Choosing(Keywords \ (Heads \cup {"eof"}))
            /\ cur' = cur + 1
            /\ UNCHANGED stack /\ Stay /\ Keep

-----------------------------------------------------------------------------
(* A status on its way out of the C functions *)

Leaving(kinds, statuses) == /\ stack # <<>> /\ status \in statuses
                            /\ Top.kind \in kinds

\* IF hands every status on, loops and branches only RETURN.
PassOn == /\ \/ Leaving({"then", "else"}, {"exit", "loop", "return"})
             \/ Leaving({"while", "case"}, {"return"})
          /\ stack' = Popped
          /\ UNCHANGED cur /\ Stay /\ Keep

\* EXIT in a loop: the scan counts every DO block, and only ENDDO closes one.
ExitLoop ==
    /\ Leaving({"while"}, {"exit"})
    /\ \E q \in 1..Len(prog.lines) :
         /\ StopsAt(prog, cur, {"while", "docase"}, {"enddo"}, q)
         /\ cur' = Consumed(prog, q, "enddo")
    /\ stack' = Popped
    /\ status' = "ok" /\ Keep

\* A branch of DO CASE, a procedure and the program itself ignore EXIT and LOOP.
Swallow == /\ Leaving({"case"} \cup CallKinds, {"exit", "loop"})
           /\ status' = "ok"
           /\ UNCHANGED <<cur, stack>> /\ Keep

ReturnFromCall == /\ Leaving(CallKinds, {"return"}) /\ Len(stack) > 1
                  /\ cur' = target
                  /\ stack' = Popped
                  /\ status' = "ok" /\ Keep

ReturnFromProgram == /\ Leaving(CallKinds, {"return"}) /\ Len(stack) = 1
                     /\ stack' = <<>>
                     /\ UNCHANGED cur /\ Stay /\ Keep

-----------------------------------------------------------------------------
Step == \/ Simple \/ IfTrue \/ IfFalse \/ WhileTrue \/ WhileFalse \/ DoCase
        \/ Raise \/ Return \/ Cancel \/ Do \/ SetProcedure
        \/ EndThen \/ EndElse \/ LoopAgain \/ LoopDone \/ EndBranch
        \/ EndCall \/ EndProgram
        \/ CaseTrue \/ CaseSkipped \/ Otherwise \/ OtherwiseSkipped \/ EndCase
        \/ NoBranch
        \/ PassOn \/ ExitLoop \/ Swallow \/ ReturnFromCall \/ ReturnFromProgram

Finished == stack = <<>>

Next == \/ Step /\ Settle
        \/ Finished /\ UNCHANGED vars

\* One thread: the interpreter goes on for as long as it can.
Fairness == WF_vars(Step /\ Settle)

Spec == Init /\ [][Next]_vars /\ Fairness
-----------------------------------------------------------------------------
(* Properties *)

IsCall(a) == a.kind \in CallKinds

TypeOK ==
    /\ IsProgram(prog)
    /\ cur \in 0..Len(prog.lines) /\ line \in 0..Len(prog.lines)
    /\ stack \in Seq(Activation)
    /\ status \in {"ok", "exit", "loop", "return", "cancel"}
    /\ calls \in Seq(1..Len(prog.lines)) /\ Len(calls) <= MaxDepth
    /\ target \in 0..Len(prog.lines)
    /\ registry \in Seq(1..Len(prog.lines)) /\ Len(registry) <= MaxProcs
    /\ turns \in 0..MaxTurns
    /\ fellOff \in BOOLEAN /\ refused \in BOOLEAN

\* A RETURN that leaves its procedure resumes at the DO that called it, and not
\* at one of another call: the interpreter keeps the return tokens on a stack of
\* its own (call_push, call_pop), beside the C stack of exec_do_call.  Ruined by
\* a procedure that ends without RETURN and by a call beyond MAX_CALL_DEPTH.
ReturnsToCaller ==
    (~fellOff /\ ~refused /\ status = "return" /\ stack # <<>>) =>
        (IsCall(Top) /\ Len(stack) > 1 => target = Top.resume)

\* The interpreter's stack names the running calls, innermost last, and no other.
CallsMatch ==
    (~fellOff /\ ~refused /\ status # "return" /\ stack # <<>>) =>
        /\ Len(calls) = Top.level
        /\ \A i \in 2..Len(stack) :
              IsCall(stack[i]) => calls[stack[i].level] = stack[i].resume

\* What the scans of the code misread: an ELSE in an IF inside a true branch that
\* is skipped, a DO CASE inside a branch that is skipped, a DO CASE between an
\* EXIT and its ENDDO; EXIT or LOOP in a branch of DO CASE, which is ignored; and
\* SET PROCEDURE where there are procedures already, which it forgets (and in one
\* of them it hides the PROCEDURE that ends it).
Misread(g, p) ==
    CASE Kw(g, p) = "if" ->
           \E r \in (p + 1)..End(g, p) :
              /\ Kw(g, r) = "else" /\ ~Directly(g, p, r)
              /\ \A e \in ElseOf(g, p) : r < e
      [] Kw(g, p) = "docase" ->
           \E r \in (p + 1)..End(g, p) :
              \/ Kw(g, r) = "docase"
              \/ /\ Kw(g, r) \in {"exit", "loop"}
                 /\ \A w \in (p + 1)..r : Kw(g, w) = "while" => ~Encloses(g, w, r)
      [] Kw(g, p) = "exit" ->
           \E w \in 1..p : /\ Kw(g, w) = "while" /\ Encloses(g, w, p)
                           /\ \A v \in (w + 1)..p : Kw(g, v) = "while" => ~Encloses(g, v, p)
                           /\ Count(g, p, End(g, w), {"docase"}) > 0
      [] Kw(g, p) = "setproc" ->
           \E r \in 1..Len(g.lines) :
              /\ Kw(g, r) = "procedure"
              /\ Name(g, p) \in DOMAIN g.files => r < g.files[Name(g, p)]
      [] OTHER -> FALSE

Tame(g) == \A p \in 1..Len(g.lines) : ~Misread(g, p)

\* A procedure that is called is in the first file, whose procedures all find room
\* in the registry, and no SET PROCEDURE makes the interpreter forget them.
CallsKnown(g) ==
    \A d, p \in 1..Len(g.lines) :
        (Kw(g, d) = "do" /\ Kw(g, p) = "procedure" /\ Name(g, p) = Name(g, d)) =>
            /\ \A s \in 1..Len(g.lines) : Kw(g, s) # "setproc"
            /\ Len(Scanned(g, 1)) <= MaxProcs
            /\ \E i \in DOMAIN Scanned(g, 1) : Name(g, Scanned(g, 1)[i]) = Name(g, d)

\* Where the running calls resume, innermost last.
Returns ==
    LET running == Chosen(stack, {i \in DOMAIN stack : IsCall(stack[i])}, Len(stack))
    IN [i \in 1..(IF Finished THEN 0 ELSE Len(running) - 1) |-> running[i + 1].resume]

\* Executed line by line, a tame program takes the branches, turns and calls of
\* its block structure (Structured), whatever its conditions yield, up to the
\* first procedure that ends without RETURN or call that finds no free frame.
Intended == INSTANCE Structured WITH pc <- line, done <- Finished, rets <- Returns

ImplementsStructured ==
    /\ Intended!Init
    /\ [][(Tame(prog) /\ ~fellOff /\ ~refused) => Intended!Next]_Intended!vars

\* A program whose loops turn finitely often and whose procedures do not call
\* each other in a circle ends.
Terminates == <>Finished

\* EXIT leaves the loop it is in: the next statement is the one behind its ENDDO.
ExitLeavesLoop ==
    [][(status = "exit" /\ status' = "ok") =>
         cur' = End(prog, Around(prog, "while", line)) + 1]_vars
=============================================================================
