# A verification of cli-proxy

cli-proxy is an intercepting HTTP/HTTPS proxy with a terminal UI, written in
Go. This directory holds TLA+ models of its core, translated from the source,
the TLC configurations that check them on small instances, and proofs, checked
by TLAPS, of what matters most for every value of the constants.

- [1. The system](#1-the-system): components, state, interactions, hard behaviours
- [2. The models](#2-the-models): each module and how it corresponds to the code
- [3. What TLC checks](#3-what-tlc-checks): runs, bounds, fairness
- [4. What is proved](#4-what-is-proved)
- [5. Where the code disagrees with what is said of it](#5-where-the-code-disagrees-with-what-is-said-of-it)
- [6. What is not modelled](#6-what-is-not-modelled)
- [7. Plan](#7-plan)

## 1. The system

| component | state | operations | what makes it correct |
|---|---|---|---|
| `internal/sysproxy` controller | the snapshot in memory, the target, the recovery copy `sysproxy-backup.json`, and the operating system's settings themselves | `Enable`, `repointLocked`, `Restore`/`Disable`, `RecoverStale` | the user's own settings can always be got back, also after a kill; a snapshot is never of cli-proxy's own settings |
| `core/breakpoint.go` queue and the editor in `tui/app.go` | queue, next ID, one-token wake-up channel, one verdict channel per breakpoint; the editor's breakpoint and text | `Hold`, `Submit`, `ReleaseAll`, `wake`; `onBreakpointChange`, `submitEditor` | no paused exchange is lost, answered twice or forgotten; typed text survives |
| `Proxy.handle` (`proxy/proxy.go`) | one handler per request, its flow, its plan of rules | receive, short circuits, breakpoints, forward, stream or buffer, upgrade, fail | sent and answered at most once, in that order; refused requests stay local; the listed flow shows what the client got |
| `core/store.go` and its readers | bounded list of flows, subscriptions | `Add`, `Update`, `Get`, `Snapshot`, `Clear`, `Notify`; UI refresh, headless poller | never above its limit; every change is seen |
| connections (`proxy/proxy.go`) | server, listener, tracked connections, mode, CA pointer | `Start`, `Rebind`, `Close`, `SetTunnelOnly`, `handleConnect`, `tunnel`, `mitm` | exactly one current listener; nothing survives `Close`; interception only with a CA |
| `internal/ca` | root pair on disk, cache of leaf certificates | `Load`, `generate`, `Leaf` | key and certificate match; one leaf per name |
| `core/rules.go`, `core/filter.go` | persistent lists, next ID, compiled cache | add, replace, remove, toggle, load, save, match | what is on disk is what the list was; IDs are unique; the cache is never stale |
| `core/query.go`, `ParseRule` | none | parse and match, write a rule out | precedence, quoting, equivalence with a reference meaning; a rule survives an edit |
| `internal/term` | bytes read so far, pending escape sequence, two goroutines | decode keys and mouse | no key is invented or lost; nobody waits for ever |
| `internal/tui` table, prompts, editor | the copy of the flows, filter, selection, scroll position, prompt, view, text buffer | handlers of the event loop | the selection names what the operator sees; a key acts on what is there; the cursor stays in view |
| `internal/trust`, `core/log.go`, `proxy/local.go`, `main.go` | little | helpers, start and exit | restore on every exit path |

**Interactions.** Every accepted request runs `handle` in a goroutine of its
own. It writes to the shared store, asks the rule set for a plan, and may block
in `Hold`. The UI is one goroutine that selects over key events, store
notifications, breakpoint wake-ups and a ticker; it reads copies of flows and
sends verdicts. The system proxy controller is driven by the UI and by
`main.go` and talks to the desktop through one external command per setting.

**Hard behaviours.** Kills between two external commands; commands that fail
half way through a sequence, or take effect and then report failure; torn
files; wake-ups that share one token; an editor that is reopened under the
operator's hands; flows that are evicted or cleared while their handler still
runs; options that are toggled between two reads; failures after something was
already sent. `PROJECT.json` lists each hazard at its line.

## 2. The models

Each component has a module with its state as variables and one action per
operation or step, a module `MC...` that only gives constants values, and,
where there are theorems, a module `...Proofs`; `RulesProofs` is about two
components, `Lists` and `Prompts`, since a rule is kept in one and written in
the other. Operators whose comment says *Variant* are deliberately wrong forms
of an action: with the variant in place of the action the named property fails,
which shows that the property can see that error. They are no part of any
specification.

### SysProxy, implementing WriteAhead

`SysProxy` models `sysproxy.go` over the Linux platform code. `settings` is
the desktop's configuration, one value per setting and in the order in which
`applyPlatform` writes them; `file` and `parked` are the recovery copy;
`proc[p]` is a controller (`active` is `snap # nil`, `held` its entries,
`target`), the proxy's listen address, and where the running handler is.
`original` is a history variable: what the user configured.

Each external command is a step (`ApplyStep`, `RestoreStep`), so `Kill` can
fall between any two. The two loops differ as in the code: apply stops at the
first error (`EnableFails`, `MoveFails`), restore goes on and remembers it
(`RestoreStepFails`). A failing command may have taken effect, because `run`
also reports an error when its timeout ends. Writing the copy, and rewriting it
after a move, is a truncation followed by the data, as `os.WriteFile` does it, and
`Kill` can fall in between. A write that has returned is taken to be on disk (the
code does not call `fsync`). `Launch` is `main.go` up to
`RecoverStale`; `ChangePort` is the UI's handler with `Rebind` and the
re-point; `ExitInactive` is `Restore` without a snapshot, which removes any
copy there is. `UserEdits` is the user's own reconfiguration and external to
the program; it happens only while cli-proxy leaves the settings alone, since
otherwise there is no telling which values are to be kept.

`failed` is the error the loops of `restorePlatform` collect, and, after a handler
has returned, history: the last move or restore of this process failed, and
nothing has made up for it since. The properties name their exceptions by it.

The constant `Faults` says what may go wrong: `crash`, `apply`, `restore`,
`second` (a second process on the same directory). Writes of the copy may always
fail.

`WriteAhead` is the promise in five lines: settings are borrowed only while there
is a way back, and the way back is given up only when they are back.
`KeepsPromise` says that SysProxy keeps it, with `borrowed` as
`settings # original` and `saved` as `WayBack`: a complete copy of exactly
`original` on disk or, while a port change rewrites it, in the memory of the
process. The steps that break the promise are named (`Loses`): a kill or a failing
restore while the copy lies cut off, and going on after a restore that failed
(`GoesOn`: leaving, enabling again, or the end of a failed rollback). Every other
step keeps it. `Recoverable` is the stricter half, without the memory: the copy on
disk stays there until the settings are back, but for `GoesOn` and the truncation.

### Breakpoints

`Hold` is three steps: number and enqueue under the lock, `wake`, wait for the
verdict. A breakpoint is its ID; IDs are given and appended under one lock, so
the queue is a set whose head is its smallest element. `notify` is the
one-token channel. The UI goroutine runs one handler at a time: an event
handler that is one step in the code but touches the queue's lock twice is
two here (`Submit` removes, `Answer` sends, `Answered` wakes, `LookForNext`
reopens the head), so `Hold` can interleave. `edited` stands for the text:
whether it differs from what the breakpoint came with.

`ClickAway` says whether the operator leaves an open editor by a mouse click
on a tab; keys cannot (`handleEditorKey` sees them all).

### Exchange, implementing Relay

`Exchange` models `handle` and all it calls, for several requests sharing one
store. A message is its head and its body, each named by where it comes from
(`origin`, `ruled`, `edited`, `synthetic`, `mock`, `implicit` for a handler
that wrote nothing, `blank` for a flow nothing was recorded in); URLs,
methods and header values are not told apart, except for the scheme a request
is sent over. The plan of the rules is chosen at arrival from `Plans`. Its
routes are the short circuits in the order of the code (block, location,
file), plain forwarding and upgrade.

What a client received is recorded in `wire` and what went upstream in `sent`;
`flow` is the record, changed by `Update` only while the flow is retained,
also when it has been evicted or cleared since. Writing an answer and
recording it are two steps, as in the code, so the other exchanges and the
operator can act in between. The breakpoint's decision is taken in the model
by the actions `DropsRequest`, `SendsRequest`, ... of the operator; that the
queue delivers it is the subject of Breakpoints. `SendsRequest` shows what
`parseRawRequest` and `u = *r.URL` make of the address: `http` for a text sent
as it was shown, `relative` for a released request of an intercepted
connection. The options `BreakRequests` and `BreakResponses` are variables
because they are read again at every use.

Faults: the upstream refuses or breaks off (`refused`), a response body ends
early (`cut`), a body is longer than `MaxBody` (`long`), the client is gone
when an upgrade is confirmed (`gone`), the operator clears the list (`clear`).

`Relay` is what any proxy promises: received, then fetched at most once and
only while unanswered, then answered at most once.

### Store

`Store` models `core/store.go` between its writers and its one reader. A writer
is the goroutine of an exchange: `Add` and `Update` change the list under the
lock, `Notify` signals after the lock is given up. `token` is the subscriber's
channel of one place. The reader is the UI (`start`, `shown`, then the phases of
its event loop: `loop` is the `select`, `refresh`, `clear` and `draw` are
handlers on their way back to it) or the headless poller; a process has one of
them, and `Init` chooses. `view` is the UI's copy of the flows, `seen` the
poller's map. `Successors` is what handlers make of a flow's state; it includes
the detour of `fail`, which completes a flow before it marks the error.
`quiet` is a history variable: nothing has changed since the UI subscribed. The
UI copies the list once *before* it subscribes, so what changes in between is
shown only with the next change; the properties except exactly this.

### Connections

`Connections` models what `proxy.go` does with connections rather than with
exchanges: `Start`, `Rebind` (`RebindListens`, `RebindServes`, `RebindCloses`),
`SetTunnelOnly` with the CA that is loaded on the way, and `Close`
(`CloseBegins` copies the tracked connections, `ClosesOne`, `ClosesServer`) run
on one goroutine, `main`, beside one goroutine per client connection. `phase[c]`
is where that goroutine is, from the listener's queue (`backlog`) over the HTTP
server, the hijacked CONNECT, the dial or the TLS session to its end; `relay[c]`
are the two copying goroutines of a tunnel or an upgrade and the upstream's end.
`sock[c]` tells whether the client or the proxy has ended the connection,
`home[c]` which server still knows it, `conns` is the map `Close` works through.
Listeners and servers are numbered, because `Rebind` makes new ones and forgets
the old server. Bytes are left out but for the ends of streams, and so are
statistics and tags. `Asks` is what a client may be after.

### Lists

`Lists` is `rules.go` or `filter.go` (`kind` chooses; they differ in what a lost
entry does, in who copies the list and in the compiled filters) with the file,
the view that works on a copy (`seen`, `sel`) and the edit prompt that holds a
copy of an entry. A change and its save are separate steps, and a save truncates
before it writes, so that `Stops` (an exit or a kill) and `SaveFails` fall
between. `failed`, `prior` and `alive` are history variables. Clicks and buttons
work beside an open prompt, as in the code. Import is a sequence of `Add`.

### Terminal, over Editor and TextBuffer

`Terminal` is `term/input.go` byte by byte: `Reads` and `ReadEnds` are
`readLoop`, the actions of `Parses` are `parseLoop`, with the timeout of 25 ms
as an action that may always happen. The decoding operators (`ParseEscape`,
`ParseCSI`, `DecodeMouse`, `DecodeBytes`, ...) are evaluated on real bytes,
since the properties are about them; `Decode` is what one turn of the parser
makes of the bytes it holds. `Handles` is the UI taking an event; `Editor` is
`tui/editor.go` with lines, cursor and scrolling, and `TextOf` joins lines as
its `Text` does. `TextBuffer` is the reference: a text as one sequence of
characters with a position. Every key pressed is put on the wire as its bytes,
and applied to the reference at once (`meant`); `DecodesAsTyped` compares the
two, the text and the place of the cursor in it (`Ahead`), whenever all is
quiet. `Legible` says of a set of keys that the decoder can tell each of them
by its bytes, and when they are complete; the run's keys are, which the proof
needs to know.

### Prompts, over Query, RuleText and FilterMeaning

`Query` translates tokenizer, parser and matcher of the filter language over
*symbols* (characters that mean something, and words in one piece); the tree is
replaced by the set of flows its nodes match, and its three procedures by one
function of the procedure and the position. A token that has kept its `!` was
in quotation marks, and is negated where it is matched (`Bare`).
`FilterMeaning` says what a filter means as the guide describes the language, from
the text and without tokenizer or parser: an expression reaches to a slash behind
which a piece may end, a quotation is one word, the alternatives are what stands
between bars outside of parentheses, and so on. Only what a single word matches is
`Query`'s. `ReadOtherwise` and `NegatesNothing` name the texts the code is known to
read in another way. `RuleText` translates `ParseRule`, `Rule.String` and `ruleFor`;
`HoldsAction` names the addresses in which an action can be read. `Prompts` is
the line in which all of them are typed, key by key, with its caret, the filter
that is applied at every key, and the rules that are made for a flow. A
behaviour uses one small alphabet, and `LineSpec` is the specification.

### FlowTable

`FlowTable` is the table of `app.go` and the part of `views.go` it depends on:
filtering, the selection as an index, follow mode, scrolling by the layout of
the frame before, prompts, views, and a store that goes on changing. Every event
is one step that ends with a frame (`Drawn`). The history variables `redrawn`
and `switched` mark the two intervals in which the code knows less than the
screen shows.

## 3. What TLC checks

`PROJECT.json` lists every run with its properties. Runs expected to pass:

| run | instance | shows |
|---|---|---|
| `SysProxy` | 1 process, 3 settings, 2 user values, 2 addresses; faults crash, apply and restore at once | the first command that touches the settings is covered by a copy on disk, and that copy stays until they are back, except in the four steps `Recoverable` names; every step but those in `Loses` keeps `WriteAhead`; an enable or a port change that reports success, a no-op included, means all settings point at the listener, except a no-op after a move that failed; what is written back was taken of settings that were not cli-proxy's own (`WriteInv`); once kills stop, what a killed run left is undone if its copy was complete and no command of a restore fails |
| `Breakpoints` | 3 exchanges, 3 breakpoints | nobody is lost, answered twice or forgotten; typed text stays; every `Hold` returns |
| `Exchange` | 1 request, each rule alone and all together, store of 1, all faults | the order of phases, what the list shows in each (`FlowInv`), the refinement of `Relay`, refused requests stay local, settled stays settled, every handler ends |
| `Exchange_pair` | 2 requests, 2 rule sets, store of 1 | the listed flow shows the answer given; a break is shown exactly while paused; `FlowInv` and the limit of the store, with handlers that evict each other |
| `Store` | 2 writers, 3 flows, limit of 2, both readers | the list keeps the newest flows; what the UI has not seen is signalled and shown in the end; every settled flow is printed |
| `Connections` | 2 clients, 2 listeners; one client may do anything, the other is after a TLS session | the announced address always listens; no interception without a CA; a CONNECT is answered once and its flow follows its tunnel; `Close` reaches what it is bound to; hanging up or silence ends a handler |
| `Lists` | both kinds, lists of 2, numbers up to 3, 2 texts | numbers are unique for the list, the prompt and the next start; the file is the list or the one before; the compiled filters are the enabled ones; what a view acts on is there |
| `Terminal` | 15 keys of xterm, channels of one, a viewport of 2 by 1, 2 keys on their way | keys that arrive in one piece do what they were meant to; the cursor stays in the text and in view; the parser waits for nothing for ever |
| `Prompts` | 7 alphabets of 3 to 8 symbols, 3 to 7 keys, 5 flows | a filter selects what the documented language makes of its text; unmatched parentheses and broken expressions are reported; three kinds of text are excepted by name (section 5); a rule survives being written out and read again, and fits the flow it was made for |
| `FlowTable` | a store of 3, 4 flows, 2 sizes of the terminal, a typed and a saved filter | the table is what both filters let through; the selection is drawn, and follows the newest flow or stays with the chosen one; a filter bar is closed with its view |

Two more runs are expected to find a violation, `SysProxy_port` and
`Exchange_downgrade` (section 5).

**Why the bounds suffice.** Three settings are enough for a loop to be
interrupted before, between and after its commands; two addresses for a move
and the move back; two user values for the user to change his mind. Three
breakpoints make the queue hold one in the editor, a next head and a late
arrival, with one wake-up for several. `MaxID` bounds the breakpoints
*created* in a behaviour, not those pending. Two exchanges with a store of one
evict each other at every step of the handler. One exchange is enough for the
properties of `Exchange`, because exchanges meet only in the store and at the
toggles, which are free to change at any time, and eviction by others looks to
a handler just like `clear`. In `Store` a limit of two and three flows evict a
flow both while its handler runs and after; two writers share a token, and one
changes the list while the other is about to signal. `MaxID` bounds the flows
ever added.

In `Connections` two listeners are a move with connections at the old address,
in the queue of either, and after; the clients meet only in `conns` and in what
`main` does, so one that may do anything beside one in the most delicate
session covers their interplay. `Lists`: two entries tell the selected from
another and the end from the middle; a third number is the one given after a
removal. `Terminal`: channels of one make each goroutine wait for the next at
every byte, which larger ones only relax; the second key on its way is one that
a reader may confuse with the first (an arrow, `Esc`). `MaxText` bounds the text
typed. The viewport is smaller than the text in both directions, so every key at
its edge scrolls. `Prompts`: six symbols nest a group with alternatives inside
another or under a negation; seven write a rule with a method list and an
action. `MaxPressed` bounds the keys, not the rule that is written out.
`FlowTable`: the store drops one flow; one and two rows make the selection leave
the table in both directions.

**Fairness.** SysProxy: a handler that has begun runs on (the controller's
mutex is held by nobody else for ever; each command ends, by its timeout at
the latest), and the program is launched again. Breakpoints: goroutines run,
and the handlers of the UI run to their end; `BreakpointChange` is *strongly*
fair because Go's `select` picks among ready channels at random, so that other
events cannot keep the wake-up waiting for ever; and the operator answers the
editor in front of him. The last is an assumption about a person: without
an operator, as in headless mode, `Hold` never returns. Exchange: a handler
runs on, upstream connections answer or fail (the transport has timeouts,
upgraded connections end when a side closes), and the operator answers.

`CrashIsUndone` is conditional on kills stopping at some point, since a
program that is killed at each recovery never finishes one.

Store: `Notify` never blocks, the UI's handlers return to `select`, which
serves the subscription again and again although keys and clicks compete with it
(strong fairness, as for `BreakpointChange`), and the poller's ticker ticks.

Connections: goroutines run on; dial, handshake and first byte have deadlines;
the servers notice a connection that was left; a move, a switch or a close that
has begun comes to its end; and an upstream that is told no more will come ends
its own stream. The last is an assumption about the peer: `tunnel` sets no
deadline, so a silent upstream keeps a gone client's tunnel. Nothing is assumed
of a client, nor of a session while both ends are open. Terminal: the parser's
goroutine runs and its timer fires, and the UI handles its events until it
leaves. The runs of Lists, Prompts and FlowTable check safety only.

Deadlock is checked in every run but `Store`, `Connections` and `Terminal`, in
which the program may be left for good.

## 4. What is proved

The proofs hold for any number of processes, settings, values, exchanges,
breakpoints, rules, clients, list entries and flows, for any text and any bytes
of a terminal, under the named assumptions on constants only
(`SysProxyAssumption`, `BreakpointsAssumption`, `ExchangeAssumption`,
`StoreAssumption`, `ConnectionsAssumption`, `ListsAssumption`,
`FlowTableAssumption`, `TerminalAssumption`, `PromptsAssumption`). Each follows
one pattern: an inductive invariant, a lemma that every action preserves it,
and temporal logic for the rest. TLC has checked the invariants first, except
for what they say of types that TLC cannot enumerate.

*SysProxyProofs.* `TypeCorrect` holds under every fault, the others under every
fault of one process (`OneInstance`; a second one takes the copy of the first for
a leftover, section 5). Since restores may fail, a copy may be of settings
cli-proxy itself has written, so it is no invariant that a copy is the user's own.
What is inductive is `WriteInv`. It says of each thing that may be written back,
held in memory or parked in the file, that it is `Faithful`: the user's own, or
taken at a time when a setting was not his and still is not. A faithful copy
differs from the settings only where they are changed already, so the first write
of a handler finds the user's own on disk (`FirstWriteAlwaysCovered`). `Covered`
ties the copy to the phase of each handler: it is what the process holds, the
settings behind an apply loop are at the listener (`AlwaysPointedAtListener`), and
those behind a restore loop in which nothing failed are what it holds. The last
part is what lets the end of a restore conclude that the settings are back, so
that removing the copy is safe: `RecoverableAlways` and `PromiseKept` follow from
it step by step, with the exceptions the properties name. `AlwaysPointedAtListener`
needs that a target is the listen address unless the last move failed, which is
the case the finding of `SysProxy_port` is about.

*BreakpointsProofs.* `HeldIsReachableAlways` and `AnswerHasRoomAlways` from
`HoldInv`: each created breakpoint is in one place only and no two exchanges
share one. `NoneForgottenAlways` and `EditsAlwaysKept` assume that the
operator does not click away from an open editor (`~ClickAway`), and rest on
a second invariant about the editor.

*ExchangeProofs.* `TypeCorrect` includes the limit of the store.
`ExchangeInvAlways` proves the inductive `ExchangeInv`, whose `Ordered(g)`
says which phases come before sending and before answering, and where a
request that has been refused can be. `RefusedStaysLocalAlways` follows from
it. `RelayKept` shows every step to be a step of `Relay` or to leave its
variables alone: the three places that send need "not yet sent, not yet
answered" in the phase `forward`, the six that answer need "not yet answered".

`FlowInvAlways` adds what the list shows: `AnswerStands` relates the phase of a
handler to what its client has received and to what was recorded of it, `Listed`
the phase to the state of a flow that is still in the list. Two facts carry it
through a step of another handler: an update changes one flow only, and what
`Add` drops is never listed again. `InterceptedIsHeldAlways` and
`SettledStaysSettledAlways` follow for every fault. `SettledAsAnsweredAlways`
assumes that the client of an upgrade is not gone when it is confirmed
(`"gone" \notin Faults`): that handler returns with its flow still pending
(section 5). The run that checks the property has no faults; `Exchange` checks
`FlowInv`, from which it follows, with all of them.

*StoreProofs.* `NewestAlwaysKept` rests on lemmas about what `Add` and `Update`
leave of the list, position by position. `StaleAlwaysSignalled` is inductive
beside the type invariant: a change puts its writer in the phase that signals, a
signal stays in the channel until the UI takes it, and the UI that has taken it
is bound to copy the list.

*ConnectionsProofs.* `OnlyItsOwn` states what lets many handlers be treated
one at a time: a goroutine that serves a connection changes nothing of the
server and nothing of another connection. `ConnectionsSafe` adds to
`ConnectionsInv` that the mode has its authority (`ModeHasCA`; while a switch is
under way the authority is there already) and, for each connection, where it
may be while its listener is up, moved or being closed (`Served`).
`TunnelsAlwaysSettled` follows from `Told`, which says in which phases nothing
has been answered yet and in which the answer was a 200.

*RulesProofs*, first part. Lists have any length, so what appending, replacing
and removing do to the numbers is stated in four lemmas about sequences, once
for every action that uses them. `NumbersAlwaysUnique` needs `Numbers`: no
entry has a number above the last one given, the file's numbers are unique too,
so that the next start is safe, and an open prompt holds a number given in this
run. `FileAlwaysFollows` needs what the file holds at each stage of a save (the
list before the change, then a torn file, then the list), and
`CompiledAlwaysCurrent` that no compiled filters are kept while a change is
being saved. `ViewAlwaysThere` rests on clamping being idempotent.

*RulesProofs*, second part. `RuleIsMeantAlways` is about texts of any length
over any alphabet. `ParseRule` splits, trims and searches, and `Rule.String`
puts together: each of these functions is first described by what it returns
(`TrimIs`, `SplitExtends`, `UntilStops`), for loops by an induction over a set
of numbers (`LoopRuns`). `SplitExtends` is what the rest turns on: what
splitting makes of a text put together from two. From them `RuleRead` finds
what can be said of a rule that was read (`IsRule`: its method and address hold
no `::` and no blanks at the ends, its actions are known), and `RuleReadsAgain`
that this is enough for reading it again. `RuleForFits` shows the opposite for
an address with `::` in it: the last part of the address is an action, so
either the rule is refused or the address is one that `HoldsAction` names. The
machine adds little (`PInv`): the texts are texts, and a prompt for a flow has
one.

*FlowTableProofs.* `TableInvAlways` needs to know what the filtered list is. The
loop of `applyFilter` is a recursive function over the list (`Passing`), and the
library's induction theorems cannot be used on it, so the induction is done on a
set of natural numbers, which has a least element (`LeastNat`, from the
well-foundedness of `<`). `PassingIsWhatMatches` concludes
that the loop returns the flows both filters let through, no others, and in the
store's order. The rest is per action: what an event
does to the selection leaves it in the table, and scrolling by the layout of the
frame before leaves it in the rows drawn. `KeepsItsFlowAlways` counts the flows
listed before the selected one: with as many of them as before, and the rows in
the order of their numbers, the flow has the index it had.

*TerminalProofs.* `ScreenInvAlways` says that the cursor is in the text and in
the viewport after every event, whatever the bytes. No operation of the editor
looks at a character, so each is treated once for a text over any set of them
(`InText`), and what is decoded is added to that set. Of the decoder only one
thing is needed, that a turn of the wheel has a number (`EventIsEvent`).

`EditorIsTextBuffer` shows every operation of `editor.go` to do to lines what
`TextBuffer` does to one sequence of characters. A place in the text is the lines
above, the line left and right of the cursor, and the lines below (`Place`); an
operation is followed from place to place, and `Shows` says which text, and which
position in it, a place is. It assumes that no line holds a line end, which is
not always so (section 5, `Alt` with `Enter`).

`DecodesAsTypedAlways` rests on it. It assumes `Legible`, and nothing of how the
bytes are split up, how many fit into a channel, or when the timer fires: a
sequence the timer has cut is excepted by the property. The invariant `History`
relates three things. What is on the wire, in the channels and in the parser are
the bytes of the keys that are *owed* and the events of those already told; the
parser stands within the first key it has not told; and the keys that are owed,
done one after the other to what is shown, lead to what is meant (`Leads`). With
none owed, what is shown is what is meant.

Only model-checked: the liveness properties (`CrashIsUndone`,
`EveryHoldReturns`, `EveryExchangeSettles`, `ChangesAreShown`,
`SettledIsPrinted`, `HangUpEndsHandler`, `SilentIsLeft`, `WaitsEnd`; liveness
under fairness is outside what TLAPS can do), and one invariant, `FilterIsMeant`.
It compares a parser with a meaning: two recursions, one over positions and
procedures, one over intervals, would have to be shown equal by an induction over
how deep texts are nested, and values are folded from digits and from the symbols
of regular expressions with operators of the community modules that take an
operator, of which the provers know nothing.

## 5. Where the code disagrees with what is said of it

Two of them are runs, in which TLC finds the behaviour.

- `Exchange_downgrade`: a paused https request, sent as it is shown, goes upstream in
  the clear (`proxy.go:1345`).
- `SysProxy_port`: a move that fails half way leaves `target` naming the old address,
  so that moving back to it runs no command and reports success
  (`sysproxy.go:181`), with settings at two addresses. The guide says that changing
  the port "automatically points it at the new address" (`docs/guide.md:310`).

The models show more of them, which have no run of their own. Where a property
would fail because of one, it names the case it excepts.

**Settings, breakpoints and exchanges**

- A restore fails in one command; the copy kept "so a later run can try again" is
  removed by the `Restore` at exit, which finds no snapshot (`sysproxy.go:211`,
  `ExitInactive` in `GoesOn`).
- A second instance on the same directory takes the copy of the running one for a
  leftover (`sysproxy.go:227`, the fault `second`).
- After a click on a tab, the next wake-up reopens the breakpoint without the
  operator's text (`app.go:545`): `EditsKept` and `NoneForgotten` fail with
  `ClickAway`.
- A dropped response reaches the client as an empty 200, not a 502
  (`proxy.go:881`).
- A released request of an intercepted TLS connection fails: its address has no
  scheme any more (`proxy.go:749`).
- A power loss while a port change rewrites the recovery copy in place leaves the
  settings changed and a copy that cannot be read (`sysproxy.go:189`, `:275`), where
  the guide promises recovery after a power loss (`docs/guide.md:308`):
  `Recoverable` excepts `ReparkTruncates`, and `KeepsPromise` the kill that follows
  it (`Loses`).
- Enabling again after a failed restore takes a snapshot of cli-proxy's own
  settings and parks it over the good copy (`sysproxy.go:150`, `:163`,
  `ParkTruncates` in `GoesOn`).
- A rollback that fails deletes its copy all the same (`sysproxy.go:171`,
  `RollbackReturns` in `GoesOn`).
- The handshake of a WebSocket on an intercepted TLS connection is sent over
  plain TCP (`proxy.go:1005`, `DialsUpgrade`).
- The editor shows the response as recorded before the rules changed it, and
  sending it undoes them (`proxy.go:820`, `:1307`, `SendsResponse`).
- Clearing the list under a running exchange makes the response breakpoint show,
  and send, an empty 200 (`proxy.go:1302`, the head `blank`).
- A request body over `MaxBody` is forwarded cut short (`proxy.go:680`).
- A client that is gone when its upgrade is to be confirmed leaves a flow that
  stays pending (`proxy.go:1052`, `UpgradeAbandoned`).

**Connections**

- `Close` does not reach a connection between `Hijack` and `track`, an upgraded
  one, or one that the server of an earlier address still has: `CloseReaches` is
  about the others.
- Connections in the queue of the old listener are reset by a move, where the
  guide says "Open connections are not dropped" (`docs/guide.md:205`,
  `RebindCloses`).
- A tunnel that was acknowledged and then cannot be dialled records 502, though
  its client was told 200 (`DialFails`).
- A client that is gone leaves its tunnel to the upstream, which may keep it
  (`proxy.go:514`; see the fairness above).

**Lists**

- A file that cannot be read makes an empty list, and the next change saves that
  over it (`filter.go:180`): `FileFollows` excepts it.
- A rule or filter that is switched while its edit prompt is open gets its old
  switch back (`Submit`); an edit of a filter removed meanwhile is lost although
  "filter updated" is reported, and a removed rule comes back under a new number.
- The rules' view entered by Tab or an arrow shows the list as it was
  (`app.go:962`), and its clear button leaves the selection behind the end
  (`views.go:1720`): `SeenIsThere` and `SelectionOnEntry` say what remains true.
- `RuleSet.Match` compiles patterns under the read lock, a data race on the
  compiled form that the model does not have.

**Terminal**

- A click puts the cursor one column too far to the right (`app.go:1671` against
  `views.go:1587`); the reference is told so (`Cell` with `left + 1`).
- `Alt` with `Enter` or `Backspace` arrives as a character with the flag `Alt`
  (`input.go:255`), which the editor does not look at (`app.go:1204`): a carriage
  return, a line feed or a delete is written *into* a line. `EditorIsTextBuffer`
  assumes that no line holds a line end; the run's keys have no such pair.
- An escape sequence whose bytes come more than 25 ms apart becomes `Esc` and
  text, and `Esc` drops the message; a key within 25 ms of `Esc` is taken for
  part of it. `DecodesAsTyped` excepts both.
- The end of the input never closes the channel of events, so the branch that
  leaves the UI then (`app.go:372`) is never taken.

**Prompts**

- `/v1/.*json/` (`docs/guide.md:462`), `/api/v1/` (`:477`) and `/regex/i`
  (`query.go:16`) are not read as documented: a slash ends the expression, and what
  follows is a word (`query.go:95`). The reference takes such a piece for one
  expression (`PiecesOf`), and `FilterIsMeant` excepts it (`HoldsSlash`).
- A quoted `"|"`, `"("` or `"!"` is still an operator, and an empty pair of quotes
  ends the parse, where the tokenizer promises to keep "quoted strings intact"
  (`query.go:73`); `QuotesOperator` excepts them.
- A `!` with nothing to negate is accepted in silence: at the end it negates
  everything, and before a `|` it takes the bar for a word (`query.go:191`;
  `NegatesNothing` excepts it). Only before a `)` is it reported.
- `12xx` is read as `1xx`; it is no legal pattern (`StatusPattern`).
- Editing a rule that was made for a flow loses its note ("redirect from flow 7"):
  the line does not hold it, and the rule that is read back replaces the old one
  (`app.go:1079`). The rule of `Prompts` has no note.
- A rule for a flow whose method the language does not know (`PROPFIND`) never
  matches: its method becomes part of the address (`FitsItsFlow` excepts it).
- `ruleFor` quotes an address for the regular expression only (`app.go:1557`), and
  `::` separates actions: for a flow whose address holds `::block=`, break, mock
  and redirect make a rule for a shorter address that blocks as well, and for
  one with `::` and no action, as in `http://[::1]/`, the rule is refused as an
  unknown action (`app.go:1290`, `:1317`, `:1336`). The guide says "create a
  `break=both` rule for this URL" (`docs/guide.md:423`). `FitsItsFlow` excepts the
  first (`HoldsAction`).

**Table**

- The layout is forgotten with each frame, so a selection moved from another view
  may be off the screen until the next event (`views.go:116`).
- Space on a saved filter does not refresh: the table keeps the old filter until
  something else does (`docs/guide.md:403`, `SwitchSaved`).
- The selection is an index: an eviction, or an earlier flow that begins to match,
  makes it another flow (`KeepsItsFlow` excepts them).
- A filter bar stays open under an editor that a breakpoint opens, and the arrow
  keys still move the table (`Jump`, `Moves`).

## 6. What is not modelled

- *The certificate authority* (`internal/ca`): what is left without cryptography
  is a file pair written once in the life of an installation and a cache under
  one lock. A kill between the two writes that replace an expired pair leaves the
  new certificate beside the old key (`ca.go:182`), and `loadFrom` does not
  compare them.
- *The system proxy on macOS and Windows*: each would be a model of its own
  commands. On macOS a service without a server is restored by switching it off
  only (`darwin.go:124`).
- *Landing pages and local addresses* (`proxy/local.go`), *trust stores*
  (`internal/trust`), *the event log* (`core/log.go`), flags and banners of
  `main.go`: output, or external commands without lasting state. That a request to
  one of the proxy's own names is answered locally is a route of `Exchange` and
  `RefusesLocal` of `Connections`.
- *Drawing* (`screen.go`, `theme.go`, most of `views.go`), the detail panes, the
  certificate and log views, hover: their layout enters only as the rows the table
  and the editor have.
- Delays, tags, header contents and the matching of URLs in `Exchange`; letter
  case and most of regular expressions in `Query` and `RuleText`; the race of
  `AddTag` (`proxy.go:477`).
- The composition of `Breakpoints` and `Exchange`: each is checked against what
  the other may do at any time.

## 7. Plan

Done, in this order: `SysProxy` with `WriteAhead`, `Breakpoints`, `Exchange` with
`Relay`, `Store`, `Connections`, `Lists`, `Terminal`, `Prompts`, `FlowTable`, and the
proofs of section 4.

Open: a composition of `Breakpoints` and `Exchange`, in which the verdict an
exchange acts on is the one the queue delivered to it; and `SysProxyDarwin`, the
restore that skips an unset server, against `WriteAhead`.
