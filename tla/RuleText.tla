------------------------------ MODULE RuleText -------------------------------
(***************************************************************************)
(* The one-line language of the rules in internal/core/rules.go: how a     *)
(* line is read, how a rule is written, and which requests it is for.      *)
(*                                                                         *)
(* Of regular expressions there are a few: ".*", an asterisk that repeats  *)
(* what stands before it, and the quoted address of a flow between "^" and *)
(* "$".  Letter case is left out.                                          *)
(***************************************************************************)
EXTENDS Symbols

KnownMethods == {"GET", "POST"}
Kinds == {"file", "block", "break", "redirect"}

NoRule == [err |-> "none"]
Refused(why) == [err |-> why]

(* Rule.Compile: an asterisk with nothing to repeat.                       *)
BadPattern(url) == \E k \in 1 .. Len(url) : url[k] = "*" /\ (k = 1 \/ url[k - 1] \in {"*", ".*"})

IsMethod(word) == Len(word) = 1 /\ word[1] \in KnownMethods

IsMethodList(word) == "," \in ToSet(word) /\ \A m \in ToSet(Split(word, ",")) : IsMethod(m)

(* What stands before the actions: a method, if the first of several words *)
(* is one, and the address.                                                *)
MethodEnd(head) ==
  LET k == Until(head, 1, {Space})
      word == SubSeq(head, 1, k - 1)
  IN IF k <= Len(head) /\ (word = <<"*">> \/ IsMethod(word) \/ IsMethodList(word)) THEN k ELSE 1

Method(head) == IF MethodEnd(head) = 1 THEN <<"*">> ELSE SubSeq(head, 1, MethodEnd(head) - 1)

Address(head) ==
  LET url == Trim(SubSeq(head, MethodEnd(head), Len(head)))
  IN IF url = <<>> THEN <<".*">> ELSE url

Action(part) ==
  LET k == Until(part, 1, {"="})
  IN [kind |-> Trim(SubSeq(part, 1, k - 1)), arg |-> Trim(SubSeq(part, k + 1, Len(part)))]

(* The actions behind the first part, of those parts that are not blank.   *)
WithAction(actions, part) ==
  IF Trim(part) = <<>> THEN actions ELSE Append(actions, Action(Trim(part)))

Actions(parts) ==
  LET upTo[n \in 0 .. Len(parts) - 1] ==
        IF n = 0 THEN <<>> ELSE WithAction(upTo[n - 1], parts[n + 1])
  IN upTo[Len(parts) - 1]

Known(actions) == \A k \in 1 .. Len(actions) : actions[k].kind \in {<<a>> : a \in Kinds}

ParseRule(line) ==
  LET parts == Split(Trim(line), "::")
      actions == Actions(parts)
      url == Address(Trim(parts[1]))
  IN IF Trim(line) = <<>> \/ Trim(line)[1] = "#" THEN Refused("empty rule")
     ELSE IF ~Known(actions) THEN Refused("unknown action")
     ELSE IF actions = <<>> THEN Refused("rule has no actions")
     ELSE IF BadPattern(url) THEN Refused("regexp")
     ELSE [err |-> "none", method |-> Method(Trim(parts[1])), url |-> url, actions |-> actions]

-----------------------------------------------------------------------------
(* Rule.String.                                                            *)

ActionText(a) ==
  <<Space, "::", Space>> \o a.kind \o (IF a.arg = <<>> THEN <<>> ELSE <<"=">> \o a.arg)

ActionsText(actions) ==
  LET upTo[n \in 0 .. Len(actions)] ==
        IF n = 0 THEN <<>> ELSE upTo[n - 1] \o ActionText(actions[n])
  IN upTo[Len(actions)]

(* Variant: a rule for every method is written without one.                *)
StringBare(r) ==
  (IF r.method = <<"*">> THEN <<>> ELSE r.method \o <<Space>>) \o r.url
    \o ActionsText(r.actions)

String(r) == r.method \o <<Space>> \o r.url \o ActionsText(r.actions)

-----------------------------------------------------------------------------
(* Rule.Match, for an address that was quoted, and ruleFor in              *)
(* internal/tui/app.go.                                                    *)

MethodFits(spec, method) == spec = <<"*">> \/ <<method>> \in ToSet(Split(spec, ","))

Fits(r, f) == MethodFits(r.method, f.method) /\ r.url = <<"^">> \o f.url \o <<"$">>

(* An address with "::", a kind of action and "=" in it: what stands       *)
(* behind "::" is read as an action.                                       *)
HoldsAction(url) ==
  \E k \in 1 .. Len(url) - 2 : url[k] = "::" /\ url[k + 1] \in Kinds /\ url[k + 2] = "="

RuleFor(f) == <<f.method, Space, "^">> \o f.url \o <<"$">>
=============================================================================
