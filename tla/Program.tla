------------------------------ MODULE Program ------------------------------
(***************************************************************************)
(* A dBase program as the interpreter holds it: lists of tokens, of which  *)
(* only the first keyword of a line matters to the flow of control.  A     *)
(* program here is the lines of all its files, one file after the other    *)
(* and each ended by "eof"; a position is an index into the lines.         *)
(***************************************************************************)
EXTENDS Integers, Sequences, FiniteSets, Selection

\* "stmt" is any command that leaves the flow of control alone.
Keywords ==
    {"stmt", "if", "else", "endif", "while", "enddo", "docase", "case", "otherwise",
     "endcase", "exit", "loop", "return", "cancel", "do", "procedure", "setproc", "eof"}

Openers == {"if", "while", "docase"}
Closers == {"endif", "enddo", "endcase"}
Heads == {"case", "otherwise", "endcase"}

\* A program: its lines, and where each file begins.  The first file is run.
IsProgram(g) ==
    /\ g.lines \in Seq([kw : Keywords, name : STRING]) /\ g.lines # <<>>
    /\ g.lines[Len(g.lines)].kw = "eof"
    /\ \A f \in DOMAIN g.files : g.files[f] \in 1..Len(g.lines)

\* A null token ends the loops as the end of the file does.
Kw(g, p) == IF p \in 1..Len(g.lines) THEN g.lines[p].kw ELSE "eof"
Name(g, p) == g.lines[p].name

Count(g, p, q, kws) == Cardinality({r \in p..q : Kw(g, r) \in kws})

Depth(g, p, q, opens, closes) == 1 + Count(g, p, q, opens) - Count(g, p, q, closes)

\* The scan that starts at p stops at q: the first of the closing keywords that
\* is not taken by a block opened on the way, or the end of the file.
StopsAt(g, p, opens, closes, q) ==
    /\ q >= p
    /\ \A r \in p..(q - 1) : Kw(g, r) # "eof" /\ Depth(g, p, r, opens, closes) > 0
    /\ Kw(g, q) = "eof" \/ Depth(g, p, q, opens, closes) = 0

\* The cursor past the scan: the keyword it looked for is consumed, if it is that.
Consumed(g, q, kw) == IF Kw(g, q) = kw THEN q + 1 ELSE q

\* proc_scan(): the procedures of the file that begins at p, in order.
Scanned(g, p) ==
    Chosen([q \in 1..Len(g.lines) |-> q],
           {q \in p..Len(g.lines) : /\ Kw(g, q) = "procedure"
                                    /\ \A r \in p..q : Kw(g, r) # "eof"},
           Len(g.lines))

-----------------------------------------------------------------------------
(* The block structure of a program, by matching keywords *)

\* The line that ends the block opened at p.
End(g, p) == CHOOSE q \in 1..Len(g.lines) : StopsAt(g, p + 1, Openers, Closers, q)

Encloses(g, b, p) == b < p /\ p <= End(g, b)

\* The innermost block of the kind around line p.
Around(g, kw, p) ==
    CHOOSE b \in 1..Len(g.lines) :
      /\ Kw(g, b) = kw /\ Encloses(g, b, p)
      /\ \A c \in (b + 1)..(p - 1) : Kw(g, c) = kw => ~Encloses(g, c, p)

\* Line q is directly in the block opened at p.
Directly(g, p, q) == Encloses(g, p, q) /\ Depth(g, p + 1, q, Openers, Closers) = 1

ElseOf(g, p) == {q \in 1..Len(g.lines) : Kw(g, q) = "else" /\ Directly(g, p, q)}
Branches(g, p) ==
    {q \in 1..Len(g.lines) : Kw(g, q) \in {"case", "otherwise"} /\ Directly(g, p, q)}

ClosingOf == [if |-> "endif", while |-> "enddo", docase |-> "endcase"]

\* Every block has its end and every end its block; an IF has at most one ELSE, an
\* OTHERWISE comes last; EXIT and LOOP are in a loop; procedures and files begin
\* outside all blocks.
WellFormed(g) ==
    /\ \A b \in 1..Len(g.lines) : Kw(g, b) \in Openers =>
          \E q \in 1..Len(g.lines) : /\ StopsAt(g, b + 1, Openers, Closers, q)
                                    /\ Kw(g, q) = ClosingOf[Kw(g, b)]
    /\ \A q \in 1..Len(g.lines) :
          LET Holds(kws) == \E b \in 1..(q - 1) : Kw(g, b) \in kws /\ q <= End(g, b)
          IN /\ Kw(g, q) \in Closers =>
                   \E b \in 1..(q - 1) : Kw(g, b) \in Openers /\ q = End(g, b)
             /\ Kw(g, q) = "else" => \E b \in 1..q : Kw(g, b) = "if" /\ q \in ElseOf(g, b)
             /\ Kw(g, q) \in {"case", "otherwise"} =>
                   \E b \in 1..q : Kw(g, b) = "docase" /\ q \in Branches(g, b)
             /\ Kw(g, q) \in {"exit", "loop"} => Holds({"while"})
             /\ Kw(g, q) = "procedure" => ~Holds(Openers)
    /\ \A b \in 1..Len(g.lines) :
          /\ Kw(g, b) = "if" => \A q, r \in ElseOf(g, b) : q = r
          /\ Kw(g, b) = "docase" =>
                \A q, r \in Branches(g, b) : Kw(g, q) = "otherwise" => r <= q
    /\ \A f \in DOMAIN g.files : Kw(g, g.files[f] - 1) = "eof"
=============================================================================
