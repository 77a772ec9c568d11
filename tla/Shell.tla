------------------------------- MODULE Shell --------------------------------
(***************************************************************************)
(* The shell (user/sh.c): its parser, from a line's tokens to a command    *)
(* tree, and runcmd(), as the system calls a process makes for a tree.     *)
(*                                                                         *)
(* A token is one of the symbols, "+" for >>, or a word ('a'); a parse     *)
(* that ends in panic() has ok = FALSE.  Code is a sequence of             *)
(* <<call, argument, ...>>, run by module Streams.                         *)
(***************************************************************************)
EXTENDS Integers, Sequences

CONSTANT MAXARGS

Symbols == {"|", "&", ";", "(", ")", "<", ">", "+"}

-----------------------------------------------------------------------------
(* The constructors                                                        *)

execcmd(argv) == [type |-> "EXEC", argv |-> argv]
redircmd(cmd, file, tok) ==
  [type |-> "REDIR", cmd |-> cmd, file |-> file,
   mode |-> IF tok = "<" THEN "read" ELSE IF tok = ">" THEN "trunc" ELSE "write",
   fd |-> IF tok = "<" THEN 0 ELSE 1]
pipecmd(left, right) == [type |-> "PIPE", left |-> left, right |-> right]
listcmd(left, right) == [type |-> "LIST", left |-> left, right |-> right]
backcmd(cmd) == [type |-> "BACK", cmd |-> cmd]

-----------------------------------------------------------------------------
(* The parser: each takes the tokens from *ps on                           *)

peek(ts, toks) == ts # << >> /\ Head(ts) \in toks

Panic == [ok |-> FALSE, cmd |-> execcmd(<< >>), rest |-> << >>]
Parsed(cmd, rest) == [ok |-> TRUE, cmd |-> cmd, rest |-> rest]

RECURSIVE parseline(_), parsepipe(_), parseredirs(_, _), parseargs(_, _), parseback(_), wrap(_, _)

\* < file, > file and >> file: the tokens are kept until the command is complete.
parseredirs(redirs, ts) ==
  IF ~peek(ts, {"<", ">", "+"}) THEN [ok |-> TRUE, redirs |-> redirs, rest |-> ts]
  ELSE IF Len(ts) < 2 \/ ts[2] \in Symbols THEN [ok |-> FALSE, redirs |-> redirs, rest |-> ts]
  ELSE parseredirs(Append(redirs, <<ts[1], ts[2]>>), SubSeq(ts, 3, Len(ts)))

\* The first redirection is the innermost one.
wrap(cmd, redirs) ==
  IF redirs = << >> THEN cmd
  ELSE wrap(redircmd(cmd, redirs[1][2], redirs[1][1]), Tail(redirs))

\* "(", a line, ")" and the redirections r.
blockredirs(cmd, r) == IF r.ok THEN Parsed(wrap(cmd, r.redirs), r.rest) ELSE Panic
blockend(body) ==
  IF ~body.ok \/ ~peek(body.rest, {")"}) THEN Panic ELSE blockredirs(body.cmd, parseredirs(<< >>, Tail(body.rest)))
parseblock(ts) == blockend(parseline(Tail(ts)))

\* The loop of parseexec(): words, each with the redirections r after it.
parseargs(argv, r) ==
  IF ~r.ok THEN Panic
  ELSE IF r.rest = << >> \/ peek(r.rest, {"|", ")", "&", ";"}) THEN Parsed(wrap(execcmd(argv), r.redirs), r.rest)
  ELSE IF Head(r.rest) \in Symbols \/ Len(argv) + 1 >= MAXARGS THEN Panic
  ELSE parseargs(Append(argv, Head(r.rest)), parseredirs(r.redirs, Tail(r.rest)))
parseexec(ts) == IF peek(ts, {"("}) THEN parseblock(ts) ELSE parseargs(<< >>, parseredirs(<< >>, ts))

\* Variant: a pipeline of more than two commands is grouped from the left.
RECURSIVE pipefrom(_)
leftjoin(left, right) == IF right.ok THEN Parsed(pipecmd(left, right.cmd), right.rest) ELSE Panic
pipefrom(r) == IF ~r.ok \/ ~peek(r.rest, {"|"}) THEN r ELSE pipefrom(leftjoin(r.cmd, parseexec(Tail(r.rest))))
parsepipeLeft(ts) == pipefrom(parseexec(ts))

pipejoin(left, right) == IF right.ok THEN Parsed(pipecmd(left, right.cmd), right.rest) ELSE Panic
piperest(r) == IF ~r.ok \/ ~peek(r.rest, {"|"}) THEN r ELSE pipejoin(r.cmd, parsepipe(Tail(r.rest)))
parsepipe(ts) == piperest(parseexec(ts))

\* parseline(): a pipeline with its "&", and after ";" another line.
parseback(r) == IF r.ok /\ peek(r.rest, {"&"}) THEN parseback(Parsed(backcmd(r.cmd), Tail(r.rest))) ELSE r
linejoin(left, right) == IF right.ok THEN Parsed(listcmd(left, right.cmd), right.rest) ELSE Panic
linerest(r) == IF ~r.ok \/ ~peek(r.rest, {";"}) THEN r ELSE linejoin(r.cmd, parseline(Tail(r.rest)))
parseline(ts) == linerest(parseback(parsepipe(ts)))

\* Variant: what follows the command is ignored.
parsecmdIgnores(ts) == parseline(ts)

cmdend(r) == IF r.ok /\ r.rest = << >> THEN r ELSE Panic
parsecmd(ts) == cmdend(parseline(ts))

-----------------------------------------------------------------------------
(* runcmd() and main()                                                     *)

Exit == << <<"exit">> >>

RECURSIVE runcmd(_)

\* Variant: a list does not wait for its left command.
runcmdListAtOnce(cmd) ==
  CASE cmd.type = "EXEC" -> IF cmd.argv = << >> THEN Exit ELSE << <<"exec", cmd.argv>> >>
    [] cmd.type = "REDIR" -> << <<"close", cmd.fd>>, <<"open", cmd.file, cmd.mode>> >> \o runcmd(cmd.cmd)
    [] cmd.type = "LIST" -> << <<"fork", runcmd(cmd.left)>> >> \o runcmd(cmd.right)
    [] cmd.type = "PIPE" ->
         << <<"pipe">>,
            <<"fork", << <<"close", 1>>, <<"dupp", 1>>, <<"closep", 0>>, <<"closep", 1>> >> \o runcmd(cmd.left)>>,
            <<"fork", << <<"close", 0>>, <<"dupp", 0>>, <<"closep", 0>>, <<"closep", 1>> >> \o runcmd(cmd.right)>>,
            <<"closep", 0>>, <<"closep", 1>>, <<"wait">>, <<"wait">>, <<"exit">> >>
    [] cmd.type = "BACK" -> << <<"fork", runcmd(cmd.cmd)>>, <<"exit">> >>

runcmd(cmd) ==
  CASE cmd.type = "EXEC" -> IF cmd.argv = << >> THEN Exit ELSE << <<"exec", cmd.argv>> >>
    [] cmd.type = "REDIR" -> << <<"close", cmd.fd>>, <<"open", cmd.file, cmd.mode>> >> \o runcmd(cmd.cmd)
    [] cmd.type = "LIST" -> << <<"fork", runcmd(cmd.left)>>, <<"wait">> >> \o runcmd(cmd.right)
    [] cmd.type = "PIPE" ->
         << <<"pipe">>,
            <<"fork", << <<"close", 1>>, <<"dupp", 1>>, <<"closep", 0>>, <<"closep", 1>> >> \o runcmd(cmd.left)>>,
            <<"fork", << <<"close", 0>>, <<"dupp", 0>>, <<"closep", 0>>, <<"closep", 1>> >> \o runcmd(cmd.right)>>,
            <<"closep", 0>>, <<"closep", 1>>, <<"wait">>, <<"wait">>, <<"exit">> >>
    [] cmd.type = "BACK" -> << <<"fork", runcmd(cmd.cmd)>>, <<"exit">> >>

\* What the child that main() forks for a line runs, r being parsecmd() of the line.
runline(r) == IF r.ok THEN runcmd(r.cmd) ELSE Exit

\* The loop of main(), for the lines it gets.
RECURSIVE main(_)
main(rs) == IF rs = << >> THEN Exit ELSE << <<"fork", runline(Head(rs))>>, <<"wait">> >> \o main(Tail(rs))

-----------------------------------------------------------------------------
(* What the parser should accept, and what a tree looks like as a line     *)

\* The grammar, by the tokens that a part may consist of:
\*   line ::= pipe "&"* [";" line]      pipe ::= exec ["|" pipe]
\*   exec ::= "(" line ")" redir* | redir* (word redir*)*
RECURSIVE IsLine(_), IsPipe(_), IsRedirs(_), IsWords(_)
Cut(ts, i) == SubSeq(ts, i, Len(ts))
IsRedirs(ts) ==
  \/ ts = << >>
  \/ Len(ts) >= 2 /\ ts[1] \in {"<", ">", "+"} /\ ts[2] \notin Symbols /\ IsRedirs(Cut(ts, 3))
IsWords(ts) == \/ ts = << >>
               \/ \E i \in 1 .. Len(ts) :
                    /\ Head(ts) \notin Symbols /\ IsRedirs(SubSeq(ts, 2, i)) /\ IsWords(Cut(ts, i + 1))
IsExec(ts) ==
  \/ \E i \in 0 .. Len(ts) : IsRedirs(SubSeq(ts, 1, i)) /\ IsWords(Cut(ts, i + 1))
  \/ \E i \in 2 .. Len(ts) :
       Head(ts) = "(" /\ IsLine(SubSeq(ts, 2, i - 1)) /\ ts[i] = ")" /\ IsRedirs(Cut(ts, i + 1))
IsPipe(ts) == IsExec(ts) \/ \E i \in 1 .. Len(ts) : ts[i] = "|" /\ IsExec(SubSeq(ts, 1, i - 1)) /\ IsPipe(Cut(ts, i + 1))
IsJob(ts) == \E i \in 0 .. Len(ts) : IsPipe(SubSeq(ts, 1, i)) /\ \A j \in i + 1 .. Len(ts) : ts[j] = "&"
IsLine(ts) == IsJob(ts) \/ \E i \in 1 .. Len(ts) : ts[i] = ";" /\ IsJob(SubSeq(ts, 1, i - 1)) /\ IsLine(Cut(ts, i + 1))

\* What a command does, in one piece: st = [in, out, store] with what is left of its
\* input, its output and the files.  A command that runs in the background is not
\* given a meaning; sides of a pipeline that share a file neither.
RECURSIVE Meaning(_, _)
Meaning(cmd, st) ==
  CASE cmd.type = "EXEC" ->
         IF cmd.argv = << >> THEN st
         ELSE IF cmd.argv[1] = "echo" THEN [st EXCEPT !.out = @ \o Tail(cmd.argv)]
         ELSE IF cmd.argv[1] = "cat" THEN [st EXCEPT !.in = << >>, !.out = @ \o st.in]
         ELSE st
    [] cmd.type = "REDIR" /\ cmd.mode = "read" ->
         IF st.store[cmd.file] = <<"absent">> THEN st
         ELSE [Meaning(cmd.cmd, [st EXCEPT !.in = st.store[cmd.file]]) EXCEPT !.in = st.in]
    [] cmd.type = "REDIR" /\ cmd.mode = "trunc" ->
         LET r == Meaning(cmd.cmd, [st EXCEPT !.out = << >>])
         IN  [r EXCEPT !.out = st.out, !.store[cmd.file] = r.out]
    [] cmd.type = "PIPE" ->
         LET left == Meaning(cmd.left, [st EXCEPT !.out = << >>])
             right == Meaning(cmd.right, [left EXCEPT !.in = left.out, !.out = st.out])
         IN  [right EXCEPT !.in = left.in]
    [] cmd.type = "LIST" -> Meaning(cmd.right, Meaning(cmd.left, st))

RECURSIVE Meanings(_, _)
Meanings(rs, st) == IF rs = << >> THEN st ELSE Meanings(Tail(rs), Meaning(Head(rs).cmd, st))

\* A tree as a line, in parentheses where the grammar needs them.
RECURSIVE Unparse(_)
Paren(cmd, bare) == IF bare THEN Unparse(cmd) ELSE <<"(">> \o Unparse(cmd) \o <<")">>
Atom(cmd) == cmd.type \in {"EXEC", "REDIR"}
Unparse(cmd) ==
  CASE cmd.type = "EXEC" -> cmd.argv
    [] cmd.type = "REDIR" -> Paren(cmd.cmd, Atom(cmd.cmd)) \o
         <<IF cmd.mode = "read" THEN "<" ELSE IF cmd.mode = "trunc" THEN ">" ELSE "+", cmd.file>>
    [] cmd.type = "PIPE" -> Paren(cmd.left, Atom(cmd.left)) \o <<"|">> \o
                            Paren(cmd.right, Atom(cmd.right) \/ cmd.right.type = "PIPE")
    [] cmd.type = "LIST" -> Paren(cmd.left, cmd.left.type # "LIST") \o <<";">> \o Unparse(cmd.right)
    [] cmd.type = "BACK" -> Paren(cmd.cmd, cmd.cmd.type # "LIST") \o <<"&">>
=============================================================================
