-------------------------------- MODULE Front --------------------------------
(***************************************************************************)
(* A source text through the scanner and the parser, up to main.c's        *)
(* decision whether the later phases get its tree.                         *)
(***************************************************************************)
EXTENDS LumisText

CONSTANT Sources    \* records [text, tree, scan]

VARIABLES
    source,          \* the one chosen
    phase,           \* "scan", "scanned", "source", "parsed" or "rejected"
    parsed           \* the tree the later phases get

vars == <<lexVars, parserVars, source, phase, parsed>>

Init ==
    /\ source \in Sources /\ ParseInit(source.text)
    /\ phase = (IF source.scan THEN "scan" ELSE "source")
    /\ parsed = NoTree

(* A text that is only scanned: its tokens are dropped.                    *)
Scan ==
    /\ phase = "scan"
    /\ \/ Lex /\ UNCHANGED phase
       \/ /\ look # NoToken
          /\ phase' = (IF look.t = "$end" THEN "scanned" ELSE phase)
          /\ look' = NoToken
          /\ UNCHANGED <<text, pos, lexical_errors, lexed>>
    /\ UNCHANGED <<parserVars, source, parsed>>

Compile == phase = "source" /\ Parse /\ UNCHANGED <<source, phase, parsed>>

Rejected == yyparse = "gave up" \/ lexical_errors > 0 \/ syntax_errors > 0

(* main's test of the first phases.                                        *)
Reject ==
    /\ phase = "source" /\ yyparse # "running" /\ Rejected
    /\ phase' = "rejected"
    /\ UNCHANGED <<lexVars, parserVars, source, parsed>>

(* ast_root is not NULL: the tree goes on to the later phases.             *)
Accept ==
    /\ phase = "source" /\ yyparse = "accepted" /\ ~Rejected
    /\ phase' = "parsed" /\ parsed' = ast_root
    /\ UNCHANGED <<lexVars, parserVars, source>>

Ended == phase \in {"scanned", "parsed", "rejected"} /\ UNCHANGED vars
Next  == Scan \/ Compile \/ Reject \/ Accept \/ Ended
Spec  == Init /\ [][Next]_vars

-----------------------------------------------------------------------------
(* Properties.                                                             *)

(* What the later phases assume of a tree's nodes (LumisAst).              *)
Shape(heap) == INSTANCE LumisAst WITH Ast <- heap, Roots <- {}, VarName <- {}
WellBuilt(t) ==
    LET heap == [p \in Paths(t, <<1>>) |-> PoolNode(<<t>>, p)]
    IN  \A n \in DOMAIN heap : /\ heap[n] \in Shape(heap)!AstNode
                               /\ Shape(heap)!WellShaped(n)

(* Types; and every tree the rules build, whichever they are and in        *)
(* whatever order, is one the checker, the interpreter and the backends    *)
(* can take apart by the numbers of its children.                          *)
TypeOK ==
    /\ phase \in {"scan", "scanned", "source", "parsed", "rejected"}
    /\ yyparse \in {"running", "accepted", "gave up"}
    /\ pos \in 1 .. Len(text) + 1 /\ lexical_errors \in Nat /\ syntax_errors \in 0 .. 1
    /\ Len(stack) > 1 =>
          LET top == stack[Len(stack)]
          IN  /\ top.k # {}
              /\ top.s \in {"function_list", "stmt", "expr"} => WellBuilt(top.v)

(* A reference for what a text is at each character: comment, string and   *)
(* so on, read one character at a time.                                    *)
Follow(state, c) ==
    LET code == CASE c = "/"  -> "slash"    [] c = "\"" -> "string"
                  [] c = "'"  -> "char1"    [] c \in Digit -> "digits"
                  [] c = "&"  -> "amp"      [] c = "|"  -> "bar"
                  [] c \in Letter -> "word"
                  [] c \in Chars("+-*%=!<>;,(){} \t\r\n") -> "code"
                  [] OTHER    -> "bad"
    IN  CASE state = "bad"     -> "bad"
          [] state = "slash"   -> CASE c = "/" -> "line" [] c = "*" -> "block"
                                    [] OTHER -> code
          [] state = "line"    -> IF c = "\n" THEN "code" ELSE "line"
          [] state = "block"   -> IF c = "*" THEN "star" ELSE "block"
          [] state = "star"    -> CASE c = "*" -> "star" [] c = "/" -> "closed"
                                    [] OTHER -> "block"
          [] state = "string"  -> CASE c = "\\" -> "escape" [] c = "\"" -> "quoted"
                                    [] c = "\n" -> "bad" [] OTHER -> "string"
          [] state = "escape"  -> IF c = "\n" THEN "bad" ELSE "string"
          [] state = "char1"   -> CASE c = "\\" -> "charescape"
                                    [] c \in {"'", "\n"} -> "bad" [] OTHER -> "char2"
          [] state = "charescape" -> IF c = "\n" THEN "bad" ELSE "char2"
          [] state = "char2"   -> IF c = "'" THEN "char" ELSE "bad"
          [] state = "amp"     -> IF c = "&" THEN "code" ELSE "bad"
          [] state = "bar"     -> IF c = "|" THEN "code" ELSE "bad"
          [] state = "digits"  -> CASE c \in Digit -> "digits" [] c = "." -> "point"
                                    [] OTHER -> code
          [] state = "point"   -> IF c \in Digit THEN "fraction" ELSE "bad"
          [] state = "fraction" -> IF c \in Digit THEN "fraction" ELSE code
          [] state = "word"    -> IF c \in Letter \cup Digit THEN "word" ELSE code
          [] OTHER             -> code

(* The state after each character.                                         *)
Followed == LET after[i \in 0 .. Len(text)] ==
                  IF i = 0 THEN "code" ELSE Follow(after[i - 1], SubSeq(text, i, i))
            IN  after

ClassOf(state) ==
    CASE state \in {"line", "block", "star", "closed"}            -> "comment"
      [] state \in {"string", "escape", "quoted"}                 -> "string"
      [] state \in {"char1", "charescape", "char2", "char"}       -> "char"
      [] state \in {"digits", "point", "fraction"}                -> "number"
      [] state = "word"                                           -> "word"
      [] OTHER                                                    -> "code"

RuleClass(rule) ==
    CASE rule \in {"line comment", "block comment"}   -> "comment"
      [] rule = "STRING_LIT"                          -> "string"
      [] rule = "CHAR_LIT"                            -> "char"
      [] rule \in {"INT_NUM", "FLOAT_NUM"}            -> "number"
      [] rule \in {"ID"} \cup {Keyword[i] : i \in DOMAIN Keyword} -> "word"
      [] OTHER                                        -> "code"

(* The scanner takes each character for what it is: comments, strings,     *)
(* quotes and numbers begin and end where they should, whatever is inside  *)
(* them, and none swallows what follows it.                                *)
LexedAsRead ==
    phase = "scan" /\ look = NoToken /\ pos > Len(text) =>
       LET after == Followed
       IN  after[Len(text)] # "bad" /\ lexical_errors = 0 =>
              \A l \in Range(lexed) : \A i \in l.from .. l.upto :
                 \/ ClassOf(after[i]) = RuleClass(l.rule)
                 \/ i = l.from /\ after[i] = "slash" /\ RuleClass(l.rule) = "comment"

(* A text the scanner has no complaint about is one that is read to its    *)
(* end without a bad character or an open comment, string or quote, and    *)
(* the other way around.                                                   *)
ErrorsReported ==
    phase = "scan" /\ look = NoToken /\ pos > Len(text) =>
       (lexical_errors = 0 <=>
           Followed[Len(text)] \in {"code", "slash", "word", "digits", "fraction",
                                    "line", "closed", "quoted", "char"})

(* A tree's text, with parentheses only where the strata of GRAMMAR.md's   *)
(* expressions ask for them and with the statements of parser.y, is        *)
(* accepted and read as that tree: the ambiguous rules of parser.y and     *)
(* their precedences mean what the unambiguous strata mean.                *)
ParsesBack ==
    source.tree # NoTree /\ phase \in {"parsed", "rejected"} =>
       phase = "parsed" /\ parsed = source.tree

(* Nothing of an accepted text gets lost and nothing is added: the leaves  *)
(* of its tree are its lexemes in their order, parentheses aside.          *)
Significant(lexemes) == SelectSeq(lexemes, LAMBDA l : l \notin {"(", ")"})

Lexed == LET tokens == SelectSeq(lexed, LAMBDA l : l.rule \notin
                          {"blank", "newline", "line comment", "block comment"})
         IN  [i \in DOMAIN tokens |-> SubSeq(text, tokens[i].from, tokens[i].upto)]

(* Literals are equal to what is written of them in the tree's text: ints  *)
(* that fit, and strings and chars without escapes.                        *)
PlainText == \A i \in DOMAIN lexed :
    LET l == SubSeq(text, lexed[i].from, lexed[i].upto)
    IN  CASE lexed[i].rule = "INT_NUM"    -> \E n \in Ints(l) : ToString(n) = l
          [] lexed[i].rule = "FLOAT_NUM"  -> Float(l) = l
          [] lexed[i].rule \in {"CHAR_LIT", "STRING_LIT"} -> "\\" \notin Chars(l)
          [] OTHER -> TRUE

NothingLost ==
    phase = "source" /\ yyparse = "accepted" /\ ~Rejected /\ PlainText =>
       Significant(Lexed) = Significant(Lexemes(ast_root))

=============================================================================
