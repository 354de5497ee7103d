------------------------------ MODULE MCPrompts ------------------------------
(* Instances of Prompts for TLC.                                           *)
EXTENDS Prompts

(* Words and groups, quoting and expressions, fields; the lines of rules;  *)
(* and short ones of both for whoever moves and erases.                    *)
Groups == {"a", "b", "(", ")", "|", "!", Space}
Quotes == {"a", "or", "/", "\\", "\"", "|", Space}
Named  == {"status:", "method:", "GET", ",", "2", "0", "xx", ">", "=", Space}
Words  == {"a", "|", "!"}
Lines  == {"GET", "x", "*", ",", "::", "=", "block", Space}
Heads  == {"GET", "*", ",", "::", "block", Space}
Parts  == {"x", "::", "block", Space}

MCFilterKeys == {Groups, Quotes, Named, Words}
MCRuleKeys   == {Lines, Heads, Parts}
MCEditKeys   == {Words, Parts}
MCMaxPressed == [k \in MCFilterKeys \cup MCRuleKeys |->
                   CASE k = Groups -> 6 [] k = Heads -> 7 [] k = Parts -> 3 [] OTHER -> 5]

MCFlow(method, status, url) ==
  [method |-> method, status |-> status, url |-> url,
   texts |-> [f \in Fields |-> IF f = "url:" THEN {url} ELSE {}]]
MCFlows == {MCFlow("GET", 200, <<"a", "/", "b">>), MCFlow("POST", 0, <<"a", "|">>),
            MCFlow("PROP", 20, <<"b", "\"">>), MCFlow("GET", 2, <<"x", "::", "y">>),
            MCFlow("GET", 200, <<"x", "::", "block", "=", "y">>)}
=============================================================================
