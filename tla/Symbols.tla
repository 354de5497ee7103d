------------------------------- MODULE Symbols -------------------------------
(***************************************************************************)
(* What the languages of the prompts have in common: a text is a sequence  *)
(* of symbols, the characters that mean something and words in one piece.  *)
(***************************************************************************)
EXTENDS Integers, Sequences, SequencesExt, FiniteSetsExt

Space == " "

(* The first place from k on that holds one of these, or the end.          *)
Until(text, k, stops) ==
  Min({j \in k .. Len(text) + 1 : j > Len(text) \/ text[j] \in stops})

(* strings.TrimSpace, strings.Split and strings.Contains.                  *)
Trim(text) ==
  LET kept == {k \in 1 .. Len(text) : text[k] # Space}
  IN IF kept = {} THEN <<>> ELSE SubSeq(text, Min(kept), Max(kept))

Longer(pieces, c, mark) ==
  IF c = mark THEN Append(pieces, <<>>)
  ELSE [pieces EXCEPT ![Len(pieces)] = Append(@, c)]

Split(text, mark) ==
  LET upTo[n \in 0 .. Len(text)] ==
        IF n = 0 THEN <<<<>>>> ELSE Longer(upTo[n - 1], text[n], mark)
  IN upTo[Len(text)]

Includes(text, part) ==
  \E k \in 1 .. Len(text) - Len(part) + 1 : SubSeq(text, k, k + Len(part) - 1) = part
=============================================================================
