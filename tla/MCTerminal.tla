----------------------------- MODULE MCTerminal -----------------------------
(* Instances of Terminal for TLC: a terminal that reports keys as xterm    *)
(* does.                                                                   *)
EXTENDS Terminal

Xterm ==
  "x" :> <<120>> @@ "e acute" :> <<195, 169>> @@ "alt-x" :> <<27, 120>>
  @@ "enter" :> <<13>> @@ "backspace" :> <<127>> @@ "delete" :> <<27, 91, 51, 126>>
  @@ "left" :> <<27, 91, 68>> @@ "ctrl-right" :> <<27, 91, 49, 59, 53, 67>>
  @@ "home" :> <<27, 79, 72>> @@ "up" :> <<27, 91, 65>>
  @@ "esc" :> <<27>> @@ "send" :> <<19>>
  @@ "click" :> <<27, 91, 60, 48, 59, 57, 59, 52, 77>>
  @@ "hover" :> <<27, 91, 60, 51, 53, 59, 57, 59, 52, 77>>
  @@ "old click" :> <<27, 91, 77, 32, 41, 36>>

XtermKeys == DOMAIN Xterm
XtermHasty == {"left", "esc"}
Held == <<<<120>>, <<>>>>

ASSUME XtermIsLegible == Legible
=============================================================================
