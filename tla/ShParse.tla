------------------------------ MODULE ShParse -------------------------------
(***************************************************************************)
(* The shell's parser (user/sh.c): it walks over the characters of a line  *)
(* in place, keeps the two ends of every word, and cuts the words off      *)
(* inside the line when the whole command has been read.                   *)
(*                                                                         *)
(* A line is a sequence of characters; " " stands for all white space and  *)
(* any character that is not special for the ones words are made of.  A    *)
(* pointer is an index, and es is Len(buf) + 1.                            *)
(***************************************************************************)
EXTENDS Integers, Sequences, SequencesExt

CONSTANT MAXARGS

NUL == "0"
symbols == {"<", "|", ">", "&", ";", "(", ")"}

Panic == [type |-> "panic"]
execcmd(argv) == [type |-> "EXEC", argv |-> argv]
redircmd(cmd, file, mode) == [type |-> "REDIR", cmd |-> cmd, file |-> file, mode |-> mode]
pipecmd(left, right) == [type |-> "PIPE", left |-> left, right |-> right]
listcmd(left, right) == [type |-> "LIST", left |-> left, right |-> right]
backcmd(cmd) == [type |-> "BACK", cmd |-> cmd]

At(buf, i) == IF i <= Len(buf) THEN buf[i] ELSE NUL
(* The first place from i on that has one of the characters in S, or es. *)
Until(buf, i, S) == CHOOSE j \in i..(Len(buf) + 1) : (j > Len(buf) \/ buf[j] \in S) /\ \A k \in i..(j - 1) : buf[k] \notin S
Chars(buf) == {buf[i] : i \in DOMAIN buf}
Skip(buf, s) == Until(buf, s, Chars(buf) \ {" "})

(* The token at q: what it is, where it ends, where to go on after it. *)
Kind(buf, q) ==
  CASE At(buf, q) \notin symbols \cup {NUL} -> "a"
    [] At(buf, q) = ">" /\ At(buf, q + 1) = ">" -> "+"
    [] OTHER -> At(buf, q)
EndOf(buf, q, tok) ==
  CASE tok = "a" -> Until(buf, q, symbols \cup {" "})
    [] tok = "+" -> q + 2
    [] tok = NUL -> q
    [] OTHER -> q + 1
TokenTo(buf, q, tok, eq) == [tok |-> tok, q |-> q, eq |-> eq, s |-> Skip(buf, eq)]
Token(buf, q, tok) == TokenTo(buf, q, tok, EndOf(buf, q, tok))
TokenAt(buf, q) == Token(buf, q, Kind(buf, q))
gettoken(buf, s) == TokenAt(buf, Skip(buf, s))

peek(buf, s, toks) == At(buf, Skip(buf, s)) \in toks

(* What is left to parse after a token. *)
Rest(buf, s) == gettoken(buf, s).s

(* The redirections that follow, after those in rs. *)
RECURSIVE parseredirs(_, _, _), Redir(_, _, _, _)
Redir(rs, buf, mode, file) ==
  IF file.tok # "a" THEN [ok |-> FALSE, rs |-> rs, s |-> file.s]
  ELSE parseredirs(Append(rs, [q |-> file.q, eq |-> file.eq, mode |-> mode.tok]), buf, file.s)
RedirAt(rs, buf, mode) == Redir(rs, buf, mode, gettoken(buf, mode.s))
parseredirs(rs, buf, s) ==
  IF peek(buf, s, {"<", ">"}) THEN RedirAt(rs, buf, gettoken(buf, s)) ELSE [ok |-> TRUE, rs |-> rs, s |-> s]

(* Each redirection is put around what was there: the last one is outside. *)
Redirected(cmd, rs) == FoldLeft(LAMBDA c, r : redircmd(c, [q |-> r.q, eq |-> r.eq], r.mode), cmd, rs)

(* Mutant: the array of arguments may be filled up. *)
TooMany_late(argc) == argc > MAXARGS
TooMany(argc) == argc >= MAXARGS

(* The loop of parseexec, at token t; r has the redirections up to it. *)
RECURSIVE ParseArgs(_, _, _, _)
ParseArgs(argv, r, buf, t) ==
  IF ~r.ok THEN [cmd |-> Panic, s |-> r.s]
  ELSE IF t.tok \in {"|", ")", "&", ";", NUL} THEN [cmd |-> Redirected(execcmd(argv), r.rs), s |-> t.q]
  ELSE IF t.tok # "a" \/ TooMany(Len(argv) + 1) THEN [cmd |-> Panic, s |-> t.s]
  ELSE LET arg == [q |-> t.q, eq |-> t.eq]
           next(x) == ParseArgs(Append(argv, arg), x, buf, gettoken(buf, x.s))
       IN  next(parseredirs(r.rs, buf, t.s))

ParseWords(r, buf) == ParseArgs(<<>>, r, buf, gettoken(buf, r.s))

RECURSIVE parseline(_, _), parsepipe(_, _), ParseBacks(_, _)

(* A block's redirections come after its closing parenthesis. *)
BlockDone(x, r) == [cmd |-> IF r.ok THEN Redirected(x.cmd, r.rs) ELSE Panic, s |-> r.s]
CloseBlock(buf, x) ==
  IF x.cmd = Panic \/ ~peek(buf, x.s, {")"}) THEN [cmd |-> Panic, s |-> x.s]
  ELSE BlockDone(x, parseredirs(<<>>, buf, Rest(buf, x.s)))
parseblock(buf, s) == CloseBlock(buf, parseline(buf, Rest(buf, s)))

parseexec(buf, s) ==
  IF peek(buf, s, {"("}) THEN parseblock(buf, s) ELSE ParseWords(parseredirs(<<>>, buf, s), buf)

PipeDone(x, y) == [cmd |-> IF y.cmd = Panic THEN Panic ELSE pipecmd(x.cmd, y.cmd), s |-> y.s]
PipeRest(buf, x) ==
  IF x.cmd = Panic \/ ~peek(buf, x.s, {"|"}) THEN x ELSE PipeDone(x, parsepipe(buf, Rest(buf, x.s)))
parsepipe(buf, s) == PipeRest(buf, parseexec(buf, s))

ParseBacks(buf, x) ==
  IF x.cmd = Panic \/ ~peek(buf, x.s, {"&"}) THEN x
  ELSE ParseBacks(buf, [cmd |-> backcmd(x.cmd), s |-> Rest(buf, x.s)])

ListDone(x, y) == [cmd |-> IF y.cmd = Panic THEN Panic ELSE listcmd(x.cmd, y.cmd), s |-> y.s]
LineRest(buf, x) ==
  IF x.cmd = Panic \/ ~peek(buf, x.s, {";"}) THEN x ELSE ListDone(x, parseline(buf, Rest(buf, x.s)))
parseline(buf, s) == LineRest(buf, ParseBacks(buf, parsepipe(buf, s)))

(* The places where nulterminate writes a NUL. *)
RECURSIVE WordEnds(_)
WordEnds(c) ==
  CASE c.type = "EXEC" -> {c.argv[i].eq : i \in DOMAIN c.argv}
    [] c.type = "REDIR" -> WordEnds(c.cmd) \cup {c.file.eq}
    [] c.type \in {"PIPE", "LIST"} -> WordEnds(c.left) \cup WordEnds(c.right)
    [] c.type = "BACK" -> WordEnds(c.cmd)

nulterminate(buf, c) == [i \in DOMAIN buf |-> IF i \in WordEnds(c) THEN NUL ELSE buf[i]]

(* The command, with a word as the string its pointer leads to. *)
RECURSIVE Strings(_, _)
Strings(buf, c) ==
  LET str(w) == SubSeq(buf, w.q, Until(buf, w.q, {NUL}) - 1)
  IN  CASE c.type = "EXEC" -> execcmd([i \in DOMAIN c.argv |-> str(c.argv[i])])
        [] c.type = "REDIR" -> redircmd(Strings(buf, c.cmd), str(c.file), c.mode)
        [] c.type = "PIPE" -> pipecmd(Strings(buf, c.left), Strings(buf, c.right))
        [] c.type = "LIST" -> listcmd(Strings(buf, c.left), Strings(buf, c.right))
        [] c.type = "BACK" -> backcmd(Strings(buf, c.cmd))

Parsed(buf, x) ==
  IF x.cmd = Panic \/ Skip(buf, x.s) # Len(buf) + 1 THEN Panic ELSE Strings(nulterminate(buf, x.cmd), x.cmd)
parsecmd(buf) == Parsed(buf, parseline(buf, 1))

-----------------------------------------------------------------------------
(* The grammar the parser is for, over the tokens of a line: the set of    *)
(* commands that a sequence of tokens may stand for.                       *)

RECURSIVE TokensFrom(_, _)
TokensFrom(buf, s) ==
  LET t == gettoken(buf, s)
  IN  IF t.tok = NUL THEN <<>>
      ELSE <<[tok |-> t.tok, text |-> SubSeq(buf, t.q, t.eq - 1)]>> \o TokensFrom(buf, t.s)

Toks(ts) == {ts[i].tok : i \in DOMAIN ts}
Arrow == {"<", ">", "+"}
Before(ts, k) == SubSeq(ts, 1, k - 1)
After(ts, k) == SubSeq(ts, k + 1, Len(ts))

(* Words and redirections in any order; how many words. *)
Plain(ts) ==
  /\ Toks(ts) \subseteq {"a"} \cup Arrow
  /\ \A i \in DOMAIN ts : ts[i].tok \in Arrow => i < Len(ts) /\ ts[i + 1].tok = "a"
Named(ts) == {i \in DOMAIN ts : i > 1 /\ ts[i - 1].tok \in Arrow}
Args(ts) == {i \in DOMAIN ts : ts[i].tok = "a"} \ Named(ts)
InOrder(I) == SetToSortSeq(I, LAMBDA i, j : i < j)
WithRedirs(c, ts) ==
  FoldLeft(LAMBDA d, i : redircmd(d, ts[i].text, ts[i - 1].tok), c, InOrder(Named(ts)))

RECURSIVE LineOf(_), BackOf(_), PipeOf(_)
Simple(ts) ==
  LET argv == InOrder(Args(ts))
  IN  IF Plain(ts) /\ Len(argv) < MAXARGS
      THEN {WithRedirs(execcmd([n \in DOMAIN argv |-> ts[argv[n]].text]), ts)} ELSE {}
Block(ts) ==
  UNION {{WithRedirs(c, After(ts, k)) : c \in LineOf(SubSeq(ts, 2, k - 1))} :
           k \in {k \in 2..Len(ts) : /\ ts[1].tok = "(" /\ ts[k].tok = ")"
                                    /\ Plain(After(ts, k)) /\ Args(After(ts, k)) = {}}}
OneOf(ts) == Simple(ts) \cup Block(ts)
PipeOf(ts) ==
  OneOf(ts) \cup UNION {{pipecmd(l, r) : l \in OneOf(Before(ts, k)), r \in PipeOf(After(ts, k))} :
                          k \in {k \in DOMAIN ts : ts[k].tok = "|"}}
BackOf(ts) ==
  PipeOf(ts) \cup IF ts # <<>> /\ Last(ts).tok = "&" THEN {backcmd(c) : c \in BackOf(Front(ts))} ELSE {}
LineOf(ts) ==
  BackOf(ts) \cup UNION {{listcmd(l, r) : l \in BackOf(Before(ts, k)), r \in LineOf(After(ts, k))} :
                           k \in {k \in DOMAIN ts : ts[k].tok = ";"}}

(* What a line means: its command, if the grammar has one. *)
Meaning(buf) == LET S == LineOf(TokensFrom(buf, 1)) IN IF S = {} THEN {Panic} ELSE S
=============================================================================
