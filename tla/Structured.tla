----------------------------- MODULE Structured -----------------------------
(***************************************************************************)
(* What the flow of control of a program is meant to be: every block ends  *)
(* at the keyword that matches it, EXIT and LOOP are those of the          *)
(* innermost loop around them, one branch of a DO CASE is taken, and a     *)
(* procedure returns behind the DO that called it, with or without a       *)
(* RETURN.  The state is the line to be executed and the lines to return   *)
(* to; no statuses, no scans, no activations.                              *)
(***************************************************************************)
EXTENDS Program

CONSTANTS Programs

VARIABLES prog, pc, rets, done

vars == <<prog, pc, rets, done>>

\* The procedure or file a DO names.
Bodies(name) == {q \in 1..Len(prog.lines) : Kw(prog, q) = "procedure" /\ Name(prog, q) = name}

Init == prog \in Programs /\ pc = 1 /\ rets = <<>> /\ done = FALSE

Here(kws) == ~done /\ Kw(prog, pc) \in kws
Go(p) == pc' = p /\ UNCHANGED <<prog, rets, done>>

Simple == Here({"stmt", "setproc"}) /\ Go(pc + 1)

If == /\ Here({"if"})
      /\ \/ Go(pc + 1)
         \/ \E q \in ElseOf(prog, pc) : Go(q + 1)
         \/ ElseOf(prog, pc) = {} /\ Go(End(prog, pc) + 1)

EndIf == \/ Here({"else"}) /\ Go(End(prog, Around(prog, "if", pc)) + 1)
         \/ Here({"endif"}) /\ Go(pc + 1)

While == Here({"while"}) /\ (Go(pc + 1) \/ Go(End(prog, pc) + 1))

\* ENDDO and LOOP evaluate the condition; EXIT does not.
EndDo == /\ Here({"enddo", "loop"})
         /\ LET loop == Around(prog, "while", pc) IN Go(loop + 1) \/ Go(End(prog, loop) + 1)

Exit == Here({"exit"}) /\ Go(End(prog, Around(prog, "while", pc)) + 1)

DoCase == /\ Here({"docase"})
          /\ \/ \E b \in Branches(prog, pc) : Go(b + 1)
             \/ /\ \A b \in Branches(prog, pc) : Kw(prog, b) = "case"
                /\ Go(End(prog, pc) + 1)

EndCase == Here(Heads) /\ Go(End(prog, Around(prog, "docase", pc)) + 1)

Do == /\ Here({"do"})
      /\ LET name == Name(prog, pc)
         IN \/ \E b \in Bodies(name) : pc' = b + 1 /\ rets' = Append(rets, pc + 1)
            \/ /\ Bodies(name) = {} /\ name \in DOMAIN prog.files
               /\ pc' = prog.files[name] /\ rets' = Append(rets, pc + 1)
            \/ /\ Bodies(name) = {} /\ name \notin DOMAIN prog.files
               /\ pc' = pc + 1 /\ UNCHANGED rets
      /\ UNCHANGED <<prog, done>>

\* RETURN, or the end of the body.
Return == /\ Here({"return", "procedure", "eof"})
          /\ IF rets = <<>> THEN done' = TRUE /\ UNCHANGED <<pc, rets>>
             ELSE /\ pc' = rets[Len(rets)]
                  /\ rets' = SubSeq(rets, 1, Len(rets) - 1)
                  /\ UNCHANGED done
          /\ UNCHANGED prog

Cancel == Here({"cancel"}) /\ done' = TRUE /\ rets' = <<>> /\ UNCHANGED <<prog, pc>>

Next == \/ Simple \/ If \/ EndIf \/ While \/ EndDo \/ Exit \/ DoCase \/ EndCase
        \/ Do \/ Return \/ Cancel

Spec == Init /\ [][Next]_vars
=============================================================================
