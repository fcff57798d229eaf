---------------------------- MODULE ShellParser ----------------------------
(***************************************************************************)
(* The parser of sh.c: a recursive-descent parser that takes one token of  *)
(* lookahead, and the grammar it is meant to parse.                        *)
(*                                                                         *)
(* A line is a sequence of tokens, as gettoken() returns them: words and   *)
(* the symbols of the shell.  Where the code panics there is no command.   *)
(***************************************************************************)
EXTENDS Integers, Sequences, SequencesExt, FiniteSets

CONSTANTS Words, MAXARGS

RedirOps == {"<", ">", ">>"}
Symbols == RedirOps \cup {"|", "&", ";", "(", ")"}

execcmd(argc) == [type |-> "EXEC", argc |-> argc]
redircmd(cmd, op) == [type |-> "REDIR", cmd |-> cmd, op |-> op, fd |-> IF op = "<" THEN 0 ELSE 1]
pipecmd(l, r) == [type |-> "PIPE", left |-> l, right |-> r]
listcmd(l, r) == [type |-> "LIST", left |-> l, right |-> r]
backcmd(cmd) == [type |-> "BACK", cmd |-> cmd]

\* A command and the tokens after it; panic() is a syntax error.
Parsed(cmd, ts) == [cmd |-> cmd, rest |-> ts]
Panic == Parsed([type |-> "none"], << >>)
Failed(x) == x.cmd.type = "none"

peek(ts, S) == ts # << >> /\ Head(ts) \in S
After(ts, n) == SubSeq(ts, n + 1, Len(ts))

\* Redirections wrap a command: the first one is the innermost.
Redirected(cmd, ops) == FoldLeft(redircmd, cmd, ops)

RECURSIVE parseline(_), parsepipe(_), parseexec(_), parseredirs(_, _), parseargs(_, _, _)
RECURSIVE parseback(_)

\* The redirections ops so far, and the tokens after them.
parseredirs(ops, ts) ==
  IF ~peek(ts, RedirOps) THEN [ok |-> TRUE, ops |-> ops, rest |-> ts]
  ELSE IF Len(ts) < 2 \/ ts[2] \notin Words THEN [ok |-> FALSE, ops |-> ops, rest |-> ts]
  ELSE parseredirs(Append(ops, Head(ts)), After(ts, 2))

\* The loop of parseexec(): arguments and redirections in any order.
parseargs(argc, ops, ts) ==
  LET r == parseredirs(ops, Tail(ts))
  IN  IF ts = << >> \/ peek(ts, {"|", ")", "&", ";"})
        THEN Parsed(Redirected(execcmd(argc), ops), ts)
      ELSE IF Head(ts) \notin Words \/ argc + 1 >= MAXARGS \/ ~r.ok THEN Panic
      ELSE parseargs(argc + 1, r.ops, r.rest)

parseblock(ts) ==
  LET l == parseline(Tail(ts))
      r == parseredirs(<< >>, Tail(l.rest))
  IN  IF Failed(l) \/ ~peek(l.rest, {")"}) \/ ~r.ok THEN Panic
      ELSE Parsed(Redirected(l.cmd, r.ops), r.rest)

parseexec(ts) ==
  LET r == parseredirs(<< >>, ts)
  IN  IF peek(ts, {"("}) THEN parseblock(ts)
      ELSE IF ~r.ok THEN Panic ELSE parseargs(0, r.ops, r.rest)

parsepipe(ts) ==
  LET l == parseexec(ts)
      r == parsepipe(Tail(l.rest))
  IN  IF Failed(l) \/ ~peek(l.rest, {"|"}) THEN l
      ELSE IF Failed(r) THEN Panic ELSE Parsed(pipecmd(l.cmd, r.cmd), r.rest)

\* The loop of parseline() over "&".
parseback(x) ==
  IF Failed(x) \/ ~peek(x.rest, {"&"}) THEN x
  ELSE parseback(Parsed(backcmd(x.cmd), Tail(x.rest)))

parseline(ts) ==
  LET l == parseback(parsepipe(ts))
      r == parseline(Tail(l.rest))
  IN  IF Failed(l) \/ ~peek(l.rest, {";"}) THEN l
      ELSE IF Failed(r) THEN Panic ELSE Parsed(listcmd(l.cmd, r.cmd), r.rest)

\* Mutant: what is left over is ignored.
parsecmd_leftovers(ts) == parseline(ts).cmd

parsecmd(ts) == IF parseline(ts).rest # << >> THEN Panic.cmd ELSE parseline(ts).cmd

-----------------------------------------------------------------------------
(* The grammar: the set of commands that a sequence of tokens stands for   *)

Before(ts, i) == SubSeq(ts, 1, i - 1)
Places(ts, t) == {i \in DOMAIN ts : ts[i] = t}
Pairs(Op(_, _), L, R) == {Op(x[1], x[2]) : x \in L \X R}

RECURSIVE Lines(_), Jobs(_), Pipes(_)

\* Only redirections, and the operators of those.
AreRedirs(ts) ==
  Len(ts) % 2 = 0 /\ \A i \in DOMAIN ts : ts[i] \in IF i % 2 = 1 THEN RedirOps ELSE Words
OpsOf(ts) == SelectSeq(ts, LAMBDA t : t \in RedirOps)

\* Words and redirections in any order.
Simple(ts) ==
  LET Ops == {i \in DOMAIN ts : ts[i] \in RedirOps}
      argc == Len(ts) - 2 * Cardinality(Ops)
  IN  IF /\ \A i \in Ops : i < Len(ts) /\ ts[i + 1] \in Words
         /\ \A i \in DOMAIN ts \ Ops : ts[i] \in Words
         /\ argc < MAXARGS
      THEN {Redirected(execcmd(argc), OpsOf(ts))} ELSE {}

\* A line in parentheses, and redirections.
Blocks(ts) ==
  IF ~peek(ts, {"("}) THEN {}
  ELSE UNION {{Redirected(l, OpsOf(After(ts, i))) : l \in Lines(SubSeq(ts, 2, i - 1))}
              : i \in {j \in Places(ts, ")") : AreRedirs(After(ts, j))}}

Pipes(ts) ==
  Simple(ts) \cup Blocks(ts)
    \cup UNION {Pairs(pipecmd, Simple(Before(ts, i)) \cup Blocks(Before(ts, i)),
                      Pipes(After(ts, i))) : i \in Places(ts, "|")}

Jobs(ts) ==
  Pipes(ts) \cup IF ts # << >> /\ Last(ts) = "&" THEN {backcmd(j) : j \in Jobs(Front(ts))} ELSE {}

Lines(ts) ==
  Jobs(ts) \cup UNION {Pairs(listcmd, Jobs(Before(ts, i)), Lines(After(ts, i)))
                       : i \in Places(ts, ";")}
=============================================================================
