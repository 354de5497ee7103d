---------------------------- MODULE FilterMeaning ----------------------------
(***************************************************************************)
(* What a filter means, by what query.go:10-25 and docs/guide.md:453-487   *)
(* say of the language: the reference that the tokenizer and the parser of *)
(* Query are compared with.  It reads the text itself.  A piece in slashes *)
(* is one regular expression, whatever slashes it holds; a piece in        *)
(* quotation marks is one word.  A text means something when its           *)
(* parentheses match, its expressions can be compiled and every "!" has    *)
(* something to negate; its alternatives are what stands between the "|"   *)
(* outside of all parentheses.                                             *)
(***************************************************************************)
EXTENDS Query

(* Behind an odd run of backslashes, in the expression that begins at i.   *)
Escaped(text, i, k) == (k - Max({j \in i .. k - 1 : text[j] # "\\"})) % 2 = 0

Unescaped(text, i, c) == {k \in i + 1 .. Len(text) : text[k] = c /\ ~Escaped(text, i, k)}

(* A slash closes an expression when a piece may end behind it.            *)
Closing(text, i) ==
  {k \in Unescaped(text, i, "/") : k = Len(text) \/ text[k + 1] \in {Space, "|", ")"}}

(* An expression that is not closed reaches to the next blank.             *)
ExpressionEnd(text, i) ==
  Min(Closing(text, i) \cup {k - 1 : k \in Unescaped(text, i, Space)} \cup {Len(text)})

PieceEnd(text, i) ==
  CASE text[i] \in Operators -> i
    [] text[i] = "/" -> ExpressionEnd(text, i)
    [] text[i] = "\"" -> Min({Until(text, i + 1, {"\""}), Len(text)})
    [] OTHER -> Until(text, i, Operators \cup {Space}) - 1

(* Where the pieces of a text begin, in order.                             *)
Begins(text) ==
  LET from[i \in 1 .. Len(text) + 1] ==
        IF i > Len(text) THEN <<>>
        ELSE IF text[i] = Space THEN from[i + 1] ELSE <<i>> \o from[PieceEnd(text, i) + 1]
  IN from[1]

PiecesOf(text) ==
  LET piece(i) == SubSeq(text, i, PieceEnd(text, i))
      begins == Begins(text)
  IN [k \in 1 .. Len(begins) |-> piece(begins[k])]

InQuotes(piece) == piece[1] = "\""
Unquoted(piece) == IF InQuotes(piece) THEN SelectSeq(piece, LAMBDA c : c # "\"") ELSE piece

Alternates(piece) == piece \in {<<"|">>, <<"or">>}
Negates(piece) == piece = <<"!">>

Depth(pieces, k) ==
  Cardinality({j \in 1 .. k : pieces[j] = <<"(">>})
    - Cardinality({j \in 1 .. k : pieces[j] = <<")">>})

Balanced(pieces) ==
  /\ \A k \in 1 .. Len(pieces) : Depth(pieces, k) >= 0
  /\ Depth(pieces, Len(pieces)) = 0

Compiles(pieces) == \A k \in 1 .. Len(pieces) : ~Broken(Bare(Unquoted(pieces[k])))

(* A "!" at the end of all, of an alternative or of a group.               *)
Dangles(pieces, k) ==
  /\ Negates(pieces[k])
  /\ k = Len(pieces) \/ Alternates(pieces[k + 1]) \/ pieces[k + 1] = <<")">>

Meaningful(pieces) ==
  /\ Balanced(pieces) /\ Compiles(pieces)
  /\ \A k \in 1 .. Len(pieces) : ~Dangles(pieces, k)

-----------------------------------------------------------------------------
(* Where the program is known to read a text in another way, in silence.   *)

(* An expression that holds a slash is cut behind it: /v1/.*json/ becomes  *)
(* the expression v1 and the word .*json/ (query.go:95).                   *)
HoldsSlash(text) ==
  \E i \in ToSet(Begins(text)) :
    text[i] = "/" /\ \E k \in Unescaped(text, i, "/") : k <= PieceEnd(text, i) /\ k \notin Closing(text, i)

(* A quoted operator is taken for the operator, and an empty word for the  *)
(* end of the text (query.go:112, 143).                                    *)
QuotesOperator(pieces) ==
  \E k \in 1 .. Len(pieces) :
    InQuotes(pieces[k]) /\ Unquoted(pieces[k]) \in {<<>>} \cup {<<c>> : c \in Operators}

ReadOtherwise(text) == HoldsSlash(text) \/ QuotesOperator(PiecesOf(text))

(* A "!" at the end of all negates everything, and one before a "|" the    *)
(* word "|" (query.go:191, 206, 250).                                      *)
NegatesNothing(pieces) ==
  \E k \in 1 .. Len(pieces) :
    Negates(pieces[k]) /\ (k = Len(pieces) \/ Alternates(pieces[k + 1]))

-----------------------------------------------------------------------------
(* Where what begins at i ends: a word, a group, or a negation of either.  *)
EndOf(pieces, i) ==
  LET k == Min({j \in i .. Len(pieces) : ~Negates(pieces[j])})
  IN Min({j \in k .. Len(pieces) : Depth(pieces, j) = Depth(pieces, k - 1)})

(* What stands from i to j.                                                *)
Meaning(pieces) ==
  LET of[i \in 1 .. Len(pieces) + 1, j \in 0 .. Len(pieces)] ==
        LET bars == {k \in i .. j : Alternates(pieces[k]) /\ Depth(pieces, k) = Depth(pieces, i - 1)}
            bar == Max(bars)
            first == EndOf(pieces, i)
        IN IF i > j THEN Flows
           ELSE IF bars # {} THEN of[i, bar - 1] \cup of[bar + 1, j]
           ELSE IF first < j THEN of[i, first] \cap of[first + 1, j]
           ELSE IF Negates(pieces[i]) THEN Flows \ of[i + 1, j]
           ELSE IF pieces[i] = <<"(">> THEN of[i + 1, j - 1]
           ELSE Atom(Unquoted(pieces[i]))
  IN of[1, Len(pieces)]

(* The statuses a pattern names: a class, a number, or a comparison.       *)
Value(v) == MapThenSumSet(LAMBDA k : Digits[v[k]] * 10 ^ (Len(v) - k), 1 .. Len(v))

Bound(v) == IF v[2] = "=" THEN 2 ELSE 1
Compared(v) == v[1] \in {"<", ">"} /\ Len(v) > 1 /\ IsNumber(SubSeq(v, Bound(v) + 1, Len(v)))
IsClass(v) == Len(v) = 2 /\ v[2] = "xx" /\ v[1] \in DOMAIN Digits

StatusPattern(v) == IsNumber(v) \/ IsClass(v) \/ Compared(v)

StatusMeaning(v, code) ==
  \/ IsClass(v) /\ code \div 100 = Digits[v[1]]
  \/ IsNumber(v) /\ code = Value(v)
  \/ /\ Compared(v)
     /\ LET n == Value(SubSeq(v, Bound(v) + 1, Len(v))) IN
          \/ v[1] = ">" /\ code > n
          \/ v[1] = "<" /\ code < n
          \/ v[2] = "=" /\ code = n
=============================================================================
