----------------------------- MODULE MCDbtMemo -----------------------------
\* Texts of every shape: empty, with room left in one block, one block to the
\* brim, two blocks, and one so long that a byte cannot count its blocks.
EXTENDS DbtMemo

Text(id, full, rest) == [id |-> id, full |-> full, rest |-> rest]

SomeTexts == {Text("empty", 0, FALSE), Text("a", 0, TRUE),
              Text("brim", 1, FALSE), Text("two", 1, TRUE), Text("huge", 6, TRUE)}
=============================================================================
