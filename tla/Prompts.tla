------------------------------- MODULE Prompts -------------------------------
(***************************************************************************)
(* The prompts of internal/tui/app.go: a line with a caret, and what       *)
(* becomes of it.  The filter bar applies the line at every key; a rule is *)
(* read when its line is submitted, a rule that is edited is written out   *)
(* first, and a rule for a flow is put together from the flow.             *)
(*                                                                         *)
(* An operator has the keyboard of one behaviour, `keys`, so that the      *)
(* texts stay few: the alphabets are named in the MC module.               *)
(*                                                                         *)
(* The specification is LineSpec, so that one module can be about the      *)
(* rules as they are kept (Lists) and as they are written.                 *)
(***************************************************************************)
EXTENDS FilterMeaning, RuleText

CONSTANTS
  FilterKeys, RuleKeys,  \* the alphabets: sets of symbols
  EditKeys,              \* those that move and erase, and start from a flow, as well
  MaxPressed             \* alphabet -> bound on the keys pressed in the prompts

ASSUME PromptsAssumption ==
  /\ \A alphabet \in FilterKeys \cup RuleKeys : alphabet \subseteq STRING
  /\ MaxPressed \in [FilterKeys \cup RuleKeys -> Nat]
  /\ \A f \in Flows : f.method \in STRING /\ f.url \in Seq(STRING \ {Space})

VARIABLES
  keys,        \* the alphabet
  pressed,     \* how many keys have been pressed in the prompts
  purpose,     \* App.p: what the line is for, or "closed"
  text, caret, \* prompt.Value and prompt.CX
  flow,        \* the flow a prompt was opened on
  filterText,  \* App.filterText
  rule,        \* the rule read last
  madeFor      \* history: the flow it was made for

lineVars == <<keys, pressed, purpose, text, caret, flow, filterText, rule, madeFor>>

FilterKeyboard == keys \in FilterKeys
Edits == keys \in EditKeys

NoFlow == [method |-> "none"]

LineInit ==
  /\ keys \in FilterKeys \cup RuleKeys /\ pressed = 0
  /\ purpose = "closed" /\ text = <<>> /\ caret = 0 /\ flow = NoFlow
  /\ filterText = <<>> /\ rule = NoRule /\ madeFor = NoFlow

-----------------------------------------------------------------------------
(* Opening.                                                                *)

Opens(kind, line, f) ==
  /\ purpose = "closed" /\ purpose' = kind
  /\ text' = line /\ caret' = Len(line) /\ flow' = f
  /\ UNCHANGED <<keys, pressed, filterText, rule, madeFor>>

OpenFilter == FilterKeyboard /\ Opens("filter", filterText, NoFlow)

(* A behaviour follows one rule, from its first line through its edits.    *)
NoneYet == ~FilterKeyboard /\ rule = NoRule

(* The keys a and e of the rules' view, M and m of the flows'.             *)
OpenNew == NoneYet /\ Opens("new", <<>>, NoFlow)

(* The Note of a rule made for a flow (app.go:1295) is not in its line, so *)
(* an edit loses it (app.go:1079); it is shown and nothing else, and not in*)
(* the model.                                                              *)
OpenEdit == rule # NoRule /\ Opens("edit", String(rule), NoFlow)

OpenRedirect == NoneYet /\ Edits /\ \E f \in Flows : Opens("redirect", <<>>, f)

OpenMock == NoneYet /\ Edits /\ \E f \in Flows : Opens("file", <<"tmp">>, f)

(* What cannot be read is reported and given up.                           *)
Reads(line, f) ==
  LET r == ParseRule(line)
  IN IF r.err = "none" THEN rule' = r /\ madeFor' = f ELSE UNCHANGED <<rule, madeFor>>

(* The key i of the flows' view asks nothing.                              *)
BreakSelected ==
  /\ purpose = "closed" /\ NoneYet /\ Edits
  /\ \E f \in Flows : Reads(RuleFor(f) \o <<Space, "::", Space, "break", "=", "both">>, f)
  /\ UNCHANGED <<keys, pressed, purpose, text, caret, flow, filterText>>

-----------------------------------------------------------------------------
(* handlePromptKey.                                                        *)

Press ==
  /\ purpose # "closed" /\ pressed < MaxPressed[keys] /\ pressed' = pressed + 1
  /\ UNCHANGED <<keys, purpose, flow, rule, madeFor>>

(* The line and the caret after a key; the filter is applied at once.      *)
Becomes(line, place) ==
  /\ text' = line /\ caret' = place
  /\ filterText' = IF purpose = "filter" THEN line ELSE filterText

Type == Press /\ \E s \in keys : Becomes(InsertAt(text, caret + 1, s), caret + 1)

Backspace == Press /\ Edits /\ caret > 0 /\ Becomes(RemoveAt(text, caret), caret - 1)

Delete == Press /\ Edits /\ caret < Len(text) /\ Becomes(RemoveAt(text, caret + 1), caret)

(* Left, right, home and end.                                              *)
Move ==
  /\ Press /\ Edits /\ UNCHANGED <<text, filterText>>
  /\ caret' \in {Max({caret - 1, 0}), Min({caret + 1, Len(text)}), 0, Len(text)}

Closes ==
  /\ purpose # "closed" /\ purpose' = "closed" /\ text' = <<>> /\ caret' = 0 /\ flow' = NoFlow
  /\ UNCHANGED <<keys, pressed>>

Escape ==
  /\ Closes
  /\ filterText' = IF purpose = "filter" THEN <<>> ELSE filterText
  /\ UNCHANGED <<rule, madeFor>>

SubmitFilter == purpose = "filter" /\ Closes /\ UNCHANGED <<filterText, rule, madeFor>>

SubmitRule ==
  purpose \in {"new", "edit"} /\ Closes /\ Reads(text, NoFlow) /\ UNCHANGED filterText

SubmitForFlow ==
  /\ purpose \in {"redirect", "file"} /\ Closes /\ UNCHANGED filterText
  /\ IF Trim(text) = <<>> THEN UNCHANGED <<rule, madeFor>>
     ELSE Reads(RuleFor(flow) \o <<Space, "::", Space, purpose, "=">> \o Trim(text), flow)

LineNext ==
  \/ OpenFilter \/ OpenNew \/ OpenEdit \/ OpenRedirect \/ OpenMock \/ BreakSelected
  \/ Type \/ Backspace \/ Delete \/ Move
  \/ Escape \/ SubmitFilter \/ SubmitRule \/ SubmitForFlow

LineSpec == LineInit /\ [][LineNext]_lineVars
-----------------------------------------------------------------------------
(* Every variable keeps its type, and the caret is in the text.            *)
LineTypeOK ==
  /\ keys \in FilterKeys \cup RuleKeys /\ pressed \in 0 .. MaxPressed[keys]
  /\ purpose \in {"closed", "filter", "new", "edit", "redirect", "file"}
  /\ caret \in 0 .. Len(text)
  /\ flow \in Flows \cup {NoFlow} /\ madeFor \in Flows \cup {NoFlow}

(* The filter in force, looked at once for every text.                     *)
Settled == FilterKeyboard /\ caret = Len(text)

(* Taking a filter apart loses nothing but blanks and quotation marks.     *)
NothingIsLost ==
  Settled =>
    LET bare(s) == [k \in 1 .. Len(s) |-> IF s[k] = "or" THEN "|" ELSE s[k]]
        marked(s) == SelectSeq(bare(s), LAMBDA c : c \notin {Space, "\""})
    IN marked(FlattenSeq(Tokenize(filterText))) = marked(filterText)

(* A filter that means something, read as the guide describes it, is       *)
(* accepted and selects just the flows it means, however its words, groups,*)
(* negations and alternatives are nested.  Excepted by name: an expression *)
(* that holds a slash, a quoted operator and an empty quotation.           *)
ParsesAsMeant ==
  Settled /\ ~ReadOtherwise(filterText) /\ Meaningful(PiecesOf(filterText)) =>
    LET q == Compiled(Tokenize(filterText))
    IN q.err = "none" /\ q.set = Meaning(PiecesOf(filterText))

(* A filter that is accepted means something: unmatched parentheses and    *)
(* expressions that cannot be compiled are always reported.  Excepted, with*)
(* the texts excepted above, is what a "!" with nothing to negate means.   *)
ErrorsAreTold ==
  Settled /\ ~ReadOtherwise(filterText) /\ Compiled(Tokenize(filterText)).err = "none" =>
    LET pieces == PiecesOf(filterText)
    IN /\ Balanced(pieces) /\ Compiles(pieces)
       /\ Meaningful(pieces) \/ NegatesNothing(pieces)

(* A legal status pattern selects exactly the statuses it names.           *)
StatusAsMeant ==
  Settled =>
    \A k \in 1 .. Len(Tokenize(filterText)) :
      LET t == Tokenize(filterText)[k] IN
        Len(t) > 1 /\ t[1] = "status:" /\ StatusPattern(Tail(t)) =>
          \A f \in Flows : f.status # 0 => (f \in Atom(t) <=> StatusMeaning(Tail(t), f.status))

(* The filter bar selects what its text means, and reports parentheses that*)
(* do not match and expressions that cannot be compiled.  Three kinds of   *)
(* text are excepted: an expression that holds a slash and a quoted        *)
(* operator are read otherwise than meant, and a "!" with nothing to negate*)
(* is accepted in silence.                                                 *)
FilterIsMeant == NothingIsLost /\ ParsesAsMeant /\ ErrorsAreTold /\ StatusAsMeant

(* Editing a rule and submitting it as it is written leaves its method, its*)
(* address and its actions as they are.                                    *)
SurvivesEdit == rule # NoRule => ParseRule(String(rule)) = rule

(* A rule made for a flow is for that flow, whatever was typed into its    *)
(* prompt: unless its method is none the language knows, or its address    *)
(* holds what the language reads as an action.                             *)
FitsItsFlow ==
  madeFor # NoFlow /\ madeFor.method \in KnownMethods /\ ~HoldsAction(madeFor.url)
    => Fits(rule, madeFor)

(* A rule stays what it is through an edit, and is for the flow it was     *)
(* made for.                                                               *)
RuleIsMeant == LineTypeOK /\ SurvivesEdit /\ FitsItsFlow
=============================================================================
