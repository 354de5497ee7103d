-------------------------------- MODULE Query --------------------------------
(***************************************************************************)
(* The filter language of internal/core/query.go: how a filter is taken    *)
(* apart, and which flows it selects.                                      *)
(*                                                                         *)
(* A filter is a sequence of symbols: the characters that mean something   *)
(* to the tokenizer, and words, field names and numerals in one piece.  A  *)
(* token is a sequence of symbols.  The tree the parser builds is replaced *)
(* by what its nodes match: a set of flows.  Letter case is left out.      *)
(***************************************************************************)
EXTENDS Symbols

CONSTANTS Flows   \* the flows there are, with what a filter looks at

Operators == {"(", ")", "|", "!"}
Digits == [d \in {"0", "1", "2", "3", "4", "5"} |->
             CASE d = "0" -> 0 [] d = "1" -> 1 [] d = "2" -> 2
               [] d = "3" -> 3 [] d = "4" -> 4 [] d = "5" -> 5]

-----------------------------------------------------------------------------
(* tokenizeQuery.                                                          *)

(* The end of a regular expression: a backslash keeps what follows it.     *)
RegexEnd(text, i) ==
  LET from[j \in i .. Len(text) + 1] ==
        IF j > Len(text) THEN j
        ELSE IF text[j] = "\\" /\ j < Len(text) THEN from[j + 2]
        ELSE IF text[j] \in {"/", Space} THEN j ELSE from[j + 1]
  IN from[i]

Tokenize(text) ==
  LET from[i \in 1 .. Len(text) + 2] ==
        IF i > Len(text) THEN <<>>
        ELSE CASE text[i] = Space -> from[i + 1]
               [] text[i] \in Operators -> <<<<text[i]>>>> \o from[i + 1]
               [] text[i] = "/" ->
                    LET j == RegexEnd(text, i + 1)
                        next == IF j <= Len(text) /\ text[j] = "/" THEN j + 1 ELSE j
                    IN <<SubSeq(text, i, next - 1)>> \o from[next]
               [] text[i] = "\"" ->
                    LET j == Until(text, i + 1, {"\""})
                    IN <<SubSeq(text, i + 1, j - 1)>> \o from[j + 1]
               [] OTHER ->
                    LET j == Until(text, i, Operators \cup {Space})
                        word == SubSeq(text, i, j - 1)
                    IN <<IF word = <<"or">> THEN <<"|">> ELSE word>> \o from[j]
  IN from[1]

-----------------------------------------------------------------------------
(* compileToken, statusPredicate and matchFlow.                            *)

(* strconv.Atoi: -1 stands for an error, which no status equals.           *)
IsNumber(s) == s # <<>> /\ \A k \in 1 .. Len(s) : s[k] \in DOMAIN Digits
Atoi(s) == IF IsNumber(s) THEN FoldLeft(LAMBDA n, d : 10 * n + Digits[d], 0, s) ELSE -1

Exactly(v, code) == IsNumber(v) /\ code = Atoi(v)

Compares(op, n, code) ==
  CASE op = ">=" -> code >= n [] op = "<=" -> code <= n
    [] op = ">" -> code > n   [] op = "<" -> code < n

(* The comparison a status begins with, and the number behind it.          *)
Comparison(v) ==
  IF v # <<>> /\ v[1] \in {"<", ">"}
  THEN IF Len(v) >= 2 /\ v[2] = "=" THEN [op |-> v[1] \o "=", n |-> Atoi(SubSeq(v, 3, Len(v)))]
       ELSE [op |-> v[1], n |-> Atoi(Tail(v))]
  ELSE [op |-> "none", n |-> -1]

StatusMatches(v, code) ==
  LET c == Comparison(v)
  IN CASE v # <<>> /\ Last(v) = "xx" /\ v[1] \in DOMAIN Digits ->
            code \in Digits[v[1]] * 100 .. Digits[v[1]] * 100 + 99
       [] c.n >= 0 -> Compares(c.op, c.n, code)
       [] OTHER -> Exactly(v, code)

(* One of the methods in a list.                                           *)
MethodMatches(v, method) == \E m \in ToSet(Split(v, ",")) : Trim(m) = <<method>>

(* The body of a regular expression: the alternatives it is made of, when  *)
(* it can be compiled.  A backslash takes its meaning from a mark; before  *)
(* a word, or at the end, it is an error.                                  *)
Marks == {"/", "\\", "\"", "|", Space}
RegexSymbol(re, c) ==
  IF re.escaped THEN [re EXCEPT !.escaped = FALSE, !.ok = @ /\ c \in Marks, !.part = Append(@, c)]
  ELSE IF c = "\\" THEN [re EXCEPT !.escaped = TRUE]
  ELSE IF c = "|" THEN [re EXCEPT !.done = @ \cup {re.part}, !.part = <<>>]
  ELSE [re EXCEPT !.part = Append(@, c)]

Regex(body) ==
  LET re == FoldLeft(RegexSymbol, [escaped |-> FALSE, ok |-> TRUE, part |-> <<>>, done |-> {}], body)
  IN [ok |-> re.ok /\ ~re.escaped, parts |-> re.done \cup {re.part}]

IsRegex(token) == Len(token) > 2 /\ token[1] = "/" /\ Last(token) = "/"
Body(token) == SubSeq(token, 2, Len(token) - 1)
Broken(token) == IsRegex(token) /\ ~Regex(Body(token)).ok

(* A token that has kept its "!": it was in quotation marks.               *)
Negative(token) == token # <<>> /\ token[1] = "!"
Bare(token) == IF Negative(token) THEN Tail(token) ELSE token

(* What a field of a flow holds, apart from its method and status.         *)
Fields == {"url:", "host:", "body:", "tag:"}

Matches(token, f) ==
  LET field == IF IsRegex(token) \/ token = <<>> THEN "none" ELSE token[1]
      v == Tail(token)
  IN CASE field = "method:" -> MethodMatches(v, f.method)
       [] field = "status:" -> IF f.status = 0 THEN v \in {<<"0">>, <<"err">>}
                               ELSE StatusMatches(v, f.status)
       [] field \in Fields -> \E s \in f.texts[field] : Includes(s, v)
       [] OTHER -> LET parts == IF ~IsRegex(token) THEN {token}
                                ELSE IF Broken(token) THEN {Body(token)} ELSE Regex(Body(token)).parts
                   IN \E s \in f.texts["url:"], p \in parts : Includes(s, p)

AtomMatches(token, f) == Negative(token) # Matches(Bare(token), f)

Atom(token) == {f \in Flows : AtomMatches(token, f)}

-----------------------------------------------------------------------------
(* The parser.  Of a rule of the grammar and a position, p[rule, pos] is   *)
(* the flows matched, the position behind and the first error.             *)

Peek(toks, pos) == IF pos > Len(toks) THEN <<>> ELSE toks[pos]

Parsed(set, pos, err) == [set |-> set, pos |-> pos, err |-> err]

First(err, other) == IF err = "none" THEN other ELSE err

Joined(one, other) == Parsed(one.set \cup other.set, other.pos, First(one.err, other.err))

(* Variant: an alternative ends the group.                                 *)
AlternativeOnce(toks, p, one) ==
  IF Peek(toks, one.pos) = <<"|">> THEN Joined(one, p["and", one.pos + 1]) ELSE one

Alternatives(toks, p, one) ==
  IF Peek(toks, one.pos) = <<"|">> THEN Joined(one, p["or", one.pos + 1]) ELSE one

ParseOr(toks, p, pos) == Alternatives(toks, p, p["and", pos])

(* What stands side by side.                                               *)
Met(one, rest) == Parsed(one.set \cap rest.set, rest.pos, First(one.err, rest.err))

ParseAnd(toks, p, pos) ==
  IF Peek(toks, pos) \in {<<>>, <<"|">>, <<")">>} THEN Parsed(Flows, pos, "none")
  ELSE LET one == p["unary", pos] IN Met(one, p["and", one.pos])

Negated(one) == Parsed(Flows \ one.set, one.pos, one.err)

Grouped(toks, inner) ==
  IF Peek(toks, inner.pos) = <<")">> THEN Parsed(inner.set, inner.pos + 1, inner.err)
  ELSE Parsed(inner.set, inner.pos, First(inner.err, "missing"))

ParseUnary(toks, p, pos) ==
  LET t == Peek(toks, pos)
  IN CASE t = <<"!">> -> Negated(p["unary", pos + 1])
       [] t = <<"(">> -> Grouped(toks, p["or", pos + 1])
       [] t = <<")">> -> Parsed(Flows, pos + 1, "unexpected")
       [] OTHER -> Parsed(Atom(t), pos + 1, IF Broken(Bare(t)) THEN "regex" ELSE "none")

Parse(toks) ==
  LET p[rule \in {"or", "and", "unary"}, pos \in 1 .. Len(toks) + 2] ==
        CASE rule = "or" -> ParseOr(toks, p, pos)
          [] rule = "and" -> ParseAnd(toks, p, pos)
          [] rule = "unary" -> ParseUnary(toks, p, pos)
  IN p["or", 1]

Ended(toks, p) ==
  [p EXCEPT !.err = First(@, IF p.pos <= Len(toks) THEN "unexpected" ELSE "none")]

Compiled(toks) ==
  IF toks = <<>> THEN Parsed(Flows, 1, "none") ELSE Ended(toks, Parse(toks))
=============================================================================
