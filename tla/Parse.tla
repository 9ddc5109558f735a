------------------------------- MODULE Parse -------------------------------
(***************************************************************************)
(* The recursive-descent parser of the shell (sh.c), against the grammar   *)
(* that its functions are named for:                                       *)
(*   line  ::= pipe { & } [ ; line ]                                       *)
(*   pipe  ::= exec [ | pipe ]                                             *)
(*   exec  ::= ( line ) redirs   or   redirs { word redirs }               *)
(*   redirs ::= { < word  or  > word }                                     *)
(*                                                                         *)
(* The line is a sequence of tokens, as gettoken() returns them: "a" is a  *)
(* word (">>" is a token that the parser treats like ">").  A tree is a    *)
(* tuple whose first element is its type; redirections are in the order    *)
(* in which redircmd() wraps them, the last outermost.                     *)
(***************************************************************************)
EXTENDS Integers, Sequences, FiniteSets

CONSTANTS Tokens, MaxLine, MAXARGS

VARIABLE line

\* panic() of the shell: the line is not run
SyntaxError == [cmd |-> <<"error">>, rest |-> <<>>]
Failed(r) == r.cmd[1] = "error"

peek(s, toks) == s # <<>> /\ Head(s) \in toks
-----------------------------------------------------------------------------
(* each function takes the tokens left and returns a tree and what is left then *)

RECURSIVE parseredirs(_, _)
parseredirs(cmd, s) ==
  IF ~peek(s, {"<", ">"}) THEN [cmd |-> cmd, rest |-> s]
  ELSE IF ~peek(Tail(s), {"a"}) THEN SyntaxError
  ELSE parseredirs(<<"REDIR", Head(s), cmd>>, Tail(Tail(s)))

\* the word count of an EXEC node is below all of its redirections
RECURSIVE AddArg(_)
AddArg(cmd) == IF cmd[1] = "EXEC" THEN <<"EXEC", cmd[2] + 1>>
               ELSE <<"REDIR", cmd[2], AddArg(cmd[3])>>

RECURSIVE Argc(_)
Argc(cmd) == IF cmd[1] = "EXEC" THEN cmd[2] ELSE Argc(cmd[3])

\* the loop of parseexec()
RECURSIVE parseargs(_)
parseargs(r) ==
  IF Failed(r) \/ r.rest = <<>> \/ peek(r.rest, {"|", ")", "&", ";"}) THEN r
  ELSE IF Head(r.rest) # "a" \/ Argc(r.cmd) + 1 >= MAXARGS THEN SyntaxError
  ELSE parseargs(parseredirs(AddArg(r.cmd), Tail(r.rest)))

RECURSIVE parseline(_)
RECURSIVE parsepipe(_)
RECURSIVE parseback(_)

parseblock(s) ==
  LET r == parseline(Tail(s))
  IN IF Failed(r) \/ ~peek(r.rest, {")"}) THEN SyntaxError
     ELSE parseredirs(r.cmd, Tail(r.rest))

parseexec(s) ==
  IF peek(s, {"("}) THEN parseblock(s) ELSE parseargs(parseredirs(<<"EXEC", 0>>, s))

parsepipe(s) ==
  LET r == parseexec(s)
      right == parsepipe(Tail(r.rest))
  IN IF Failed(r) \/ ~peek(r.rest, {"|"}) THEN r
     ELSE IF Failed(right) THEN SyntaxError
     ELSE [cmd |-> <<"PIPE", r.cmd, right.cmd>>, rest |-> right.rest]

\* the loop of parseline()
parseback(r) ==
  IF Failed(r) \/ ~peek(r.rest, {"&"}) THEN r
  ELSE parseback([cmd |-> <<"BACK", r.cmd>>, rest |-> Tail(r.rest)])

parseline(s) ==
  LET r == parseback(parsepipe(s))
      right == parseline(Tail(r.rest))
  IN IF Failed(r) \/ ~peek(r.rest, {";"}) THEN r
     ELSE IF Failed(right) THEN SyntaxError
     ELSE [cmd |-> <<"LIST", r.cmd, right.cmd>>, rest |-> right.rest]

\* mutant: what is left over is ignored
parsecmd_Leftovers(s) == parseline(s).cmd

\* the tree of a whole line; leftovers are a syntax error
parsecmd(s) ==
  LET r == parseline(s) IN IF r.rest # <<>> THEN SyntaxError.cmd ELSE r.cmd
-----------------------------------------------------------------------------
(* the grammar: all trees of the tokens s *)

Splits(s, tok) == {k \in DOMAIN s : s[k] = tok}
Before(s, k) == SubSeq(s, 1, k - 1)
After(s, k) == SubSeq(s, k + 1, Len(s))

\* s is a word or a redirection at a time, from the left
RECURSIVE Wrapped(_, _)
Wrapped(cmd, s) ==
  IF s = <<>> THEN {cmd}
  ELSE IF Head(s) \in {"<", ">"} /\ Len(s) > 1 /\ s[2] = "a"
  THEN Wrapped(<<"REDIR", Head(s), cmd>>, SubSeq(s, 3, Len(s)))
  ELSE {}

IsWord(s, k) == s[k] = "a" /\ (k = 1 \/ s[k - 1] \notin {"<", ">"})
Words(s) == Cardinality({k \in DOMAIN s : IsWord(s, k)})
Redirs(s) == SelectSeq(s, LAMBDA t : t \in {"<", ">"})

\* a simple command: its words, inside its redirections
Simple(s) ==
  IF /\ \A k \in DOMAIN s : s[k] \in {"a", "<", ">"}
     /\ \A k \in DOMAIN s : s[k] # "a" => k < Len(s) /\ s[k + 1] = "a"
     /\ Words(s) < MAXARGS
  THEN LET marks == Redirs(s)
       IN Wrapped(<<"EXEC", Words(s)>>,
                  [j \in 1..2 * Len(marks) |-> IF j % 2 = 1 THEN marks[(j + 1) \div 2] ELSE "a"])
  ELSE {}

RECURSIVE LineTrees(_)
RECURSIVE PipeTrees(_)
RECURSIVE BackTrees(_)

BlockTrees(s) ==
  UNION {UNION {Wrapped(t, After(s, k)) : t \in LineTrees(SubSeq(s, 2, k - 1))} :
           k \in {j \in Splits(s, ")") : s[1] = "("}}

ExecTrees(s) == Simple(s) \union BlockTrees(s)

PipeTrees(s) ==
  ExecTrees(s) \union
  UNION {{<<"PIPE", l, r>> : l \in ExecTrees(Before(s, k)), r \in PipeTrees(After(s, k))} :
           k \in Splits(s, "|")}

BackTrees(s) ==
  PipeTrees(s) \union
  (IF s # <<>> /\ s[Len(s)] = "&" THEN {<<"BACK", t>> : t \in BackTrees(Before(s, Len(s)))} ELSE {})

LineTrees(s) ==
  BackTrees(s) \union
  UNION {{<<"LIST", l, r>> : l \in BackTrees(Before(s, k)), r \in LineTrees(After(s, k))} :
           k \in Splits(s, ";")}
-----------------------------------------------------------------------------
Init == line = <<>>

\* the user types one more token
Next == \E t \in Tokens : Len(line) < MaxLine /\ line' = Append(line, t)

Spec == Init /\ [][Next]_line
-----------------------------------------------------------------------------
\* The parser accepts a line exactly if the grammar has a tree for it, the grammar has at
\* most one, and that is the tree the parser builds: the greedy loops of parseline() and
\* parseexec() with one token of lookahead decide as the grammar does, nothing is left
\* over or skipped, and an unfinished redirection or block is always refused.
ParsesGrammar ==
  LineTrees(line) = IF Failed([cmd |-> parsecmd(line)]) THEN {} ELSE {parsecmd(line)}
=============================================================================
