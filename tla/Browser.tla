------------------------------ MODULE Browser -------------------------------
(***************************************************************************)
(* The browser tools (zhen_tool/browser_cdp.rs, builtin/browser/): a call  *)
(* opens its own WebSocket to a tab of Chrome and sends a fixed sequence   *)
(* of commands, each awaited until a message with its id arrives or a      *)
(* deadline passes.  Calls of several sessions share the page, which other *)
(* calls navigate and on which scripts open dialogs.                       *)
(***************************************************************************)
EXTENDS Naturals, Sequences

CONSTANTS
    BrowserCalls,   \* tool calls, each with a connection of its own
    MayCall,        \* the tools each of them uses
    MaxPages,       \* bound: pages loaded
    MaxConsole      \* bound: messages a page logs to a listener

ASSUME BrowserAssumption == MaxPages \in Nat \ {0} /\ MaxConsole \in Nat

VARIABLES
    page,       \* the tab: open, how many pages it has loaded, dialog shown
    cdp         \* each call: tool, command, connection and result

browserVars == <<page, cdp>>

-----------------------------------------------------------------------------
(* The commands of each tool.  "page" commands are answered by the browser *)
(* itself, the others by the page, which stands still under a dialog.      *)
Command(i, what) == [id |-> i, what |-> what]

get_snapshot == <<Command(0, "read"), Command(1, "read")>>

click_element ==
    <<Command(0, "read"), Command(1, "read"), Command(1, "read"), Command(2, "resolve"),
      Command(3, "info"), Command(4, "act"), Command(1, "read")>>

type_text ==
    <<Command(0, "read"), Command(1, "read"), Command(1, "read"), Command(2, "resolve"),
      Command(3, "info"), Command(4, "act"), Command(1, "read")>>

press_key ==
    <<Command(0, "read"), Command(1, "page"), Command(1, "read"), Command(2, "key"),
      Command(3, "read"), Command(1, "read")>>

(* The expression of the scroll has a return outside of any function.      *)
do_scroll == <<Command(0, "read"), Command(1, "illegal")>>

capture == <<Command(0, "page"), Command(1, "page")>>

handle_dialog == <<Command(0, "page"), Command(1, "close")>>

execute_cdp_flow == <<Command(0, "read"), Command(1, "read"), Command(1, "script"), Command(1, "read")>>

navigate_and_snapshot ==
    <<Command(0, "page"), Command(1, "load"), Command(2, "read"), Command(1, "href"),
      Command(1, "read"), Command(1, "read")>>

collect_console == <<Command(0, "read"), Command(1, "read"), Command(2, "listen")>>

Script(tool) ==
    CASE tool = "snapshot" -> get_snapshot [] tool = "click" -> click_element
      [] tool = "type" -> type_text [] tool = "press" -> press_key
      [] tool = "scroll" -> do_scroll [] tool = "screenshot" -> capture
      [] tool = "dialog" -> handle_dialog [] tool = "execute_js" -> execute_cdp_flow
      [] tool = "navigate" -> navigate_and_snapshot [] tool = "console" -> collect_console

Effects == {"act", "key", "script", "load", "close"}

-----------------------------------------------------------------------------
NoCall == [tool |-> "none", step |-> 0, ref |-> 0, waiting |-> FALSE, queue |-> <<>>, inbound |-> <<>>,
           got |-> <<>>, acted |-> 0, missed |-> 0, result |-> "none"]

BrowserInit ==
    /\ page = [open |-> TRUE, loaded |-> 1, dialog |-> FALSE]
    /\ cdp = [c \in BrowserCalls |-> NoCall]

Now(c) == Script(cdp[c].tool)[cdp[c].step]

Running(c) == cdp[c].step > 0 /\ cdp[c].result = "none"

(* The connection is dropped when a call returns.                          *)
Returned(call, r) == [call EXCEPT !.result = r, !.waiting = FALSE, !.queue = <<>>, !.inbound = <<>>]

(* execute: the tabs are listed and the tab is found; the ref names an     *)
(* element of the page r.                                                  *)
Start(c, tool, r) ==
    /\ cdp[c] = NoCall /\ tool \in MayCall[c]
    /\ cdp' = [cdp EXCEPT ![c] =
                 IF page.open THEN [NoCall EXCEPT !.tool = tool, !.ref = r]
                 ELSE [NoCall EXCEPT !.tool = tool, !.result = "error"]]
    /\ UNCHANGED page

(* connect_cdp, without a deadline.                                        *)
connect_cdp(c) ==
    /\ cdp[c].tool # "none" /\ cdp[c].step = 0 /\ cdp[c].result = "none"
    /\ cdp' = [cdp EXCEPT ![c] = IF page.open THEN [@ EXCEPT !.step = 1] ELSE [@ EXCEPT !.result = "error"]]
    /\ UNCHANGED page

browser_snapshot(c) == Start(c, "snapshot", 0)
browser_click(c) == \E r \in 1..page.loaded : Start(c, "click", r)
browser_type(c) == \E r \in 1..page.loaded : Start(c, "type", r)
browser_press(c) == Start(c, "press", 0)
browser_scroll(c) == Start(c, "scroll", 0)
browser_screenshot(c) == Start(c, "screenshot", 0)
browser_dialog(c) == Start(c, "dialog", 0)
web_execute_js(c) == Start(c, "execute_js", 0)
browser_navigate(c) == Start(c, "navigate", 0)
browser_console(c) == Start(c, "console", 0)

(* cdp_send: the command goes out, and its deadline starts.                *)
Issue(c) ==
    /\ Running(c) /\ ~cdp[c].waiting /\ Now(c).what # "listen"
    /\ cdp' = [cdp EXCEPT ![c].waiting = TRUE,
                          ![c].queue = Append(@, [step |-> cdp[c].step, done |-> FALSE])]
    /\ UNCHANGED page

(* After the last command the result is put together.                      *)
Advanced(call, answer) ==
    LET next == [call EXCEPT !.step = @ + 1, !.waiting = FALSE, !.got = Append(@, answer)]
    IN  IF call.step = Len(Script(call.tool)) THEN Returned(next, "ok") ELSE next

(* Mutant: the next message is taken for the answer.                       *)
Matches_Any(c, m) == TRUE

Matches(c, m) == m.id = Now(c).id

(* Mutant: every command that failed is passed over.                       *)
Forgiven_All(c) == TRUE

(* The address of the page falls back to the one asked for.                *)
Forgiven(c) == Now(c).what = "href"

(* The command failed, or its deadline passed.                             *)
Failing(c, call) == IF Forgiven(c) THEN Advanced(call, call.step) ELSE Returned(call, "error")

(* Messages that are not the answer, events among them, are skipped.       *)
Recv(c) ==
    LET m == Head(cdp[c].inbound)
        rest == [cdp[c] EXCEPT !.inbound = Tail(@)]
    IN  /\ Running(c) /\ cdp[c].waiting /\ cdp[c].inbound # <<>>
        /\ cdp' = [cdp EXCEPT ![c] =
                     IF ~Matches(c, m) THEN rest
                     ELSE IF m.ok THEN Advanced(rest, m.step)
                     ELSE Failing(c, rest)]
        /\ UNCHANGED page

(* Mutant: without a deadline.                                             *)
Elapses_Never(c) == FALSE

Elapses(c) == cdp[c].waiting

TimesOut(c) ==
    /\ Running(c) /\ Elapses(c)
    /\ cdp' = [cdp EXCEPT ![c] = Failing(c, @)]
    /\ UNCHANGED page

(* collect_console: messages that came with the window open.               *)
EndWindow(c) ==
    /\ Running(c) /\ Now(c).what = "listen"
    /\ cdp' = [cdp EXCEPT ![c] = Advanced(@, @.step)]
    /\ UNCHANGED page

-----------------------------------------------------------------------------
(* Chrome.                                                                 *)
Response(call, q, ok) == [id |-> Script(call.tool)[q.step].id, step |-> q.step, ok |-> ok]

Blocked(what) == page.dialog /\ what \notin {"page", "close", "load"}

(* A node is known until its page is left.                                 *)
Accepted(c, what) ==
    CASE what \in {"resolve", "info", "act"} -> cdp[c].ref = page.loaded
      [] what = "close" -> page.dialog
      [] OTHER -> TRUE

(* What an evaluation throws is an error, except for a thrown value; what  *)
(* the function of a click or a typing throws, and why an address cannot   *)
(* be loaded, is in an answer that passes for success.                     *)
MayBe(what, how) ==
    CASE how = "quiet" -> what # "illegal"
      [] how = "dialog" -> what \in {"act", "key", "script"}
      [] how = "throws" -> what \in {"read", "href", "script", "illegal"}
      [] how = "unseen" -> what \in {"act", "load", "script"}

(* The first command of a connection is carried out; clicks, keys and      *)
(* scripts may open a dialog, which holds back their answer, and what runs *)
(* in the page may throw.                                                  *)
Perform(c, how) ==
    LET q == Head(cdp[c].queue)
        what == Script(cdp[c].tool)[q.step].what
        ok == Accepted(c, what) /\ how # "throws"
    IN  /\ cdp[c].queue # <<>> /\ ~q.done /\ page.open /\ ~Blocked(what)
        /\ MayBe(what, how) /\ (how \in {"dialog", "unseen"} => ok)
        /\ (what = "load") => page.loaded < MaxPages
        /\ page' = IF ~ok THEN page
                   ELSE CASE what = "load" -> [page EXCEPT !.loaded = @ + 1, !.dialog = FALSE]
                          [] what = "close" -> [page EXCEPT !.dialog = FALSE]
                          [] OTHER -> [page EXCEPT !.dialog = @ \/ how = "dialog"]
        /\ cdp' = [cdp EXCEPT ![c].acted = IF ok /\ what \in Effects /\ how # "unseen" THEN @ + 1 ELSE @,
                              ![c].missed = IF how = "unseen" THEN @ + 1 ELSE @,
                              ![c].inbound = IF ok THEN @ ELSE Append(@, Response(cdp[c], q, FALSE)),
                              ![c].queue = IF ok THEN [@ EXCEPT ![1].done = TRUE] ELSE Tail(@)]

Respond(c) ==
    LET q == Head(cdp[c].queue)
    IN  /\ cdp[c].queue # <<>> /\ q.done /\ page.open /\ ~Blocked(Script(cdp[c].tool)[q.step].what)
        /\ cdp' = [cdp EXCEPT ![c].queue = Tail(@), ![c].inbound = Append(@, Response(cdp[c], q, TRUE))]
        /\ UNCHANGED page

(* An event reaches every connection: a message without an id.             *)
PageEvent(c) ==
    /\ Running(c) /\ cdp[c].waiting /\ Len(cdp[c].inbound) < MaxConsole /\ page.open
    /\ cdp' = [cdp EXCEPT ![c].inbound = Append(@, [id |-> 9, step |-> 0, ok |-> TRUE])]
    /\ UNCHANGED page

(* The tab is closed, and the connections to it with it.                   *)
CloseTab ==
    /\ page.open /\ page' = [page EXCEPT !.open = FALSE]
    /\ cdp' = [c \in BrowserCalls |-> IF Running(c) THEN Returned(cdp[c], "error") ELSE cdp[c]]

(* The tasks run and their timers fire; Chrome owes nothing, not even a    *)
(* connection, and may send events without end.                            *)
BrowserFair == \E c \in BrowserCalls : Issue(c) \/ TimesOut(c) \/ EndWindow(c)

BrowserNext ==
    \/ BrowserFair
    \/ \E c \in BrowserCalls :
          \/ connect_cdp(c) \/ Recv(c)
          \/ browser_snapshot(c) \/ browser_click(c) \/ browser_type(c) \/ browser_press(c)
          \/ browser_scroll(c) \/ browser_screenshot(c) \/ browser_dialog(c) \/ web_execute_js(c)
          \/ browser_navigate(c) \/ browser_console(c)
          \/ (\E how \in {"quiet", "dialog", "throws", "unseen"} : Perform(c, how)) \/ Respond(c) \/ PageEvent(c)
    \/ CloseTab

BrowserSpec == BrowserInit /\ [][BrowserNext]_browserVars /\ WF_browserVars(BrowserFair)

-----------------------------------------------------------------------------
(* Type invariant.                                                         *)
BrowserTypeOK ==
    /\ page \in [open : BOOLEAN, loaded : 1..MaxPages, dialog : BOOLEAN]
    /\ \A c \in BrowserCalls : cdp[c].result \in {"none", "ok", "error"}

(* How often a tool is to change the page.                                 *)
Due(tool) == IF \E i \in DOMAIN Script(tool) : Script(tool)[i].what \in Effects THEN 1 ELSE 0

(* What a call that reports success was to do reached the page exactly     *)
(* once, and of one that reports an error not twice, whatever dialogs,     *)
(* navigations of other sessions and late answers come between its         *)
(* commands; only clicks, typing, scripts and navigations may have failed  *)
(* there without being told so.                                            *)
ActedOnce ==
    \A c \in BrowserCalls :
        /\ cdp[c].acted + cdp[c].missed <= 1
        /\ cdp[c].missed > 0 => cdp[c].tool \in {"click", "type", "execute_js", "navigate"}
        /\ cdp[c].result = "ok" => cdp[c].acted + cdp[c].missed = Due(cdp[c].tool)

(* Although the tools use their ids again on a connection, what a call     *)
(* reports as the page before and after its action is the answer to that   *)
(* command, and no event or earlier answer; browser_navigate is the        *)
(* exception.                                                              *)
AnswersInStep ==
    \A c \in BrowserCalls : cdp[c].tool # "navigate" =>
        \A i \in DOMAIN cdp[c].got : cdp[c].got[i] = i

(* cdp_send: "wait for the matching response", for every tool.             *)
MatchingResponse ==
    \A c \in BrowserCalls : \A i \in DOMAIN cdp[c].got : cdp[c].got[i] = i

(* Every call that got its connection ends, also while a dialog holds the  *)
(* page.                                                                   *)
BrowserCallsEnd == \A c \in BrowserCalls : []<>(cdp[c].step = 0 \/ cdp[c].result # "none")
=============================================================================
