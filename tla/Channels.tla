------------------------------ MODULE Channels ------------------------------
(***************************************************************************)
(* The bots of the channels crate: Telegram (telegram/mod.rs) and WeChat   *)
(* (wechat/bot.rs, wechat/types.rs) poll a service for messages, drop      *)
(* duplicates (dedup.rs) and what the configuration does not allow, push   *)
(* the rest into the pipe of palaces/kan_io, and persist a cursor once a   *)
(* batch is done.  The file watch of kan_io feeds the same pipe.  A        *)
(* message is its place in the feed of the service.  The last section is   *)
(* the login that gets a WeChat bot its credentials.                       *)
(***************************************************************************)
EXTENDS Naturals, Sequences, SequencesExt, FiniteSets, FiniteSetsExt

CONSTANTS
    MaxMessages,    \* bound: messages of the service
    MaxFaults,      \* bound: failed polls, crashes and expired sessions
    WatchedPaths    \* files of the file watch

ASSUME ChannelsAssumption == MaxMessages \in Nat /\ MaxFaults \in Nat

VARIABLES
    kind,       \* which of the two bots
    feed,       \* what the service was sent: [wanted, id], whether the bot is to
                \* take it and whether it carries an id
    forgotten,  \* the service no longer delivers messages up to this one
    bot,        \* the task of the bot, and its memory
    disk,       \* the persisted cursor, or "torn"
    pushed,     \* how often this process pushed each message, up to Often
    ever,       \* messages that some process pushed
    aged,       \* whether the window of 300 s let go of anything in this process
    faults,     \* faults so far
    watch       \* the file watch: what changed, is pending, and was reported

channelVars == <<kind, feed, forgotten, bot, disk, pushed, ever, aged, faults, watch>>

TORN == MaxMessages + 1     \* a file that does not parse
Often == 2                  \* bound: pushed twice or more

(* load_last_update_id and load_credentials: a file that does not parse    *)
(* is as good as none.                                                     *)
load_cursor(d) == IF d = TORN THEN 0 ELSE d

NewBot(cursor) == [at |-> "poll", cursor |-> cursor, batch |-> <<>>, next |-> 0, seen |-> {}]

ChannelsInit ==
    /\ kind \in {"telegram", "wechat"}
    /\ feed = <<>> /\ forgotten = 0
    /\ bot = NewBot(0) /\ disk = 0
    /\ pushed = [m \in 1..MaxMessages |-> 0] /\ ever = {} /\ aged = FALSE
    /\ faults = 0
    /\ watch = [changed |-> {}, pending |-> {}, told |-> {}]

botVars == <<bot, disk, pushed, ever, aged, faults>>

(* Someone writes.  A message is not wanted when it holds no text, or the  *)
(* allowlist or the policy keeps its sender out.  The msg_id of WeChat may *)
(* be absent or empty, an update_id is always there.                       *)
SendMessage ==
    /\ Len(feed) < MaxMessages
    /\ \E wanted, id \in BOOLEAN :
           /\ kind = "telegram" => id
           /\ feed' = Append(feed, [wanted |-> wanted, id |-> id])
    /\ UNCHANGED <<kind, forgotten, watch, botVars>>

(* The service answers a poll: messages after the cursor, in order, and,   *)
(* with WeChat, possibly one it delivered before.  What a cursor confirms  *)
(* is forgotten.                                                           *)
Answer ==
    LET from == IF bot.cursor > forgotten THEN bot.cursor ELSE forgotten
    IN  /\ bot.at = "poll"
        /\ forgotten' = from
        /\ \E upto \in (from + 1)..Len(feed) :
           \E repeated \in {<<>>} \cup (IF kind = "wechat" THEN {<<m>> : m \in 1..from} ELSE {}) :
               bot' = [bot EXCEPT !.at = "handle", !.next = upto,
                           !.batch = repeated \o [i \in 1..(upto - from) |-> from + i]]
        /\ UNCHANGED <<kind, feed, disk, pushed, ever, aged, faults, watch>>

(* A poll that times out, fails or does not parse: back off, poll again.   *)
PollFails ==
    /\ bot.at = "poll" /\ faults < MaxFaults
    /\ faults' = faults + 1
    /\ bot' = [bot EXCEPT !.at = "sleep"]
    /\ UNCHANGED <<kind, feed, forgotten, disk, pushed, ever, aged, watch>>

(* Mutant: an error ends the loop.                                         *)
Wake_Never == FALSE /\ UNCHANGED channelVars

Wake ==
    /\ bot.at = "sleep"
    /\ bot' = [bot EXCEPT !.at = "poll"]
    /\ UNCHANGED <<kind, feed, forgotten, disk, pushed, ever, aged, faults, watch>>

(* A credentials file that does not parse is never written again.          *)
save_sync_buf(cursor) == IF disk = TORN THEN TORN ELSE cursor

save_cursor(cursor) == IF kind = "telegram" THEN cursor ELSE save_sync_buf(cursor)

(* WeChat: the session of the cursor is over.                              *)
SessionExpired ==
    /\ kind = "wechat" /\ bot.at = "poll" /\ faults < MaxFaults
    /\ faults' = faults + 1
    /\ bot' = [bot EXCEPT !.at = "sleep", !.cursor = 0]
    /\ disk' = save_sync_buf(0)
    /\ UNCHANGED <<kind, feed, forgotten, pushed, ever, aged, watch>>

(* Mutant: an id is looked up and not recorded.                            *)
Remember_Not(seen, m) == seen

(* is_duplicate records the id; a message without one leaves the window    *)
(* alone.                                                                  *)
Remember(seen, m) == IF feed[m].id THEN seen \cup {m} ELSE seen

(* One message: seen before, not wanted, or pushed.                        *)
handle_message ==
    /\ bot.at = "handle" /\ bot.batch # <<>>
    /\ LET m == Head(bot.batch)
           push == m \notin bot.seen /\ feed[m].wanted
       IN  /\ bot' = [bot EXCEPT
                          !.batch = Tail(@), !.seen = Remember(@, m),
                          !.cursor = IF kind = "telegram" THEN Max({@, m}) ELSE @]
           /\ pushed' = IF push THEN [pushed EXCEPT ![m] = Min({@ + 1, Often})] ELSE pushed
           /\ ever' = IF push THEN ever \cup {m} ELSE ever
    /\ UNCHANGED <<kind, feed, forgotten, disk, aged, faults, watch>>

(* Mutant: the cursor is persisted before the batch is handled.            *)
SaveCursor_Early ==
    /\ bot.at = "handle"
    /\ disk' = save_cursor(bot.next)
    /\ bot' = [bot EXCEPT !.at = IF bot.batch = <<>> THEN "poll" ELSE "handle",
                          !.cursor = IF kind = "telegram" THEN @ ELSE bot.next]
    /\ UNCHANGED <<kind, feed, forgotten, pushed, ever, aged, faults, watch>>

(* The batch is done: the cursor moves and is persisted.  An answer of     *)
(* WeChat without a get_updates_buf leaves both where they are.            *)
SaveCursor ==
    /\ bot.at = "handle" /\ bot.batch = <<>>
    /\ \/ /\ disk' = save_cursor(bot.next)
          /\ bot' = [bot EXCEPT !.at = "poll",
                                !.cursor = IF kind = "telegram" THEN @ ELSE bot.next]
       \/ kind = "wechat" /\ bot' = [bot EXCEPT !.at = "poll"] /\ UNCHANGED disk
    /\ UNCHANGED <<kind, feed, forgotten, pushed, ever, aged, faults, watch>>

(* 300 s pass: the window lets go of what it saw.                          *)
Age ==
    /\ bot.seen # {}
    /\ bot' = [bot EXCEPT !.seen = {}] /\ aged' = TRUE
    /\ UNCHANGED <<kind, feed, forgotten, disk, pushed, ever, faults, watch>>

(* The process ends anywhere and starts again; a crash amid the write of   *)
(* the credentials leaves a torn file, Telegram's is renamed into place.   *)
(* What the file watch had gathered is gone with its task.                 *)
Crash ==
    /\ faults < MaxFaults
    /\ faults' = faults + 1
    /\ disk' \in {disk} \cup (IF kind = "wechat" /\ bot.at = "handle" /\ bot.batch = <<>>
                       THEN {TORN} ELSE {})
    /\ bot' = NewBot(load_cursor(disk'))
    /\ pushed' = [m \in 1..MaxMessages |-> 0] /\ aged' = FALSE
    /\ watch' = [watch EXCEPT !.changed = watch.told, !.pending = {}]
    /\ UNCHANGED <<kind, feed, forgotten, ever>>

-----------------------------------------------------------------------------
(* The file watch: events gather until 500 ms pass without one.            *)
FileEvent ==
    /\ \E p \in WatchedPaths \ watch.changed :
           watch' = [watch EXCEPT !.changed = @ \cup {p}, !.pending = @ \cup {p}]
    /\ UNCHANGED <<kind, feed, forgotten, botVars>>

FlushPending ==
    /\ watch.pending # {}
    /\ watch' = [watch EXCEPT !.told = @ \cup watch.pending, !.pending = {}]
    /\ UNCHANGED <<kind, feed, forgotten, botVars>>

(* What the task of the bot does of itself, and that of the file watch.    *)
ChannelsFair == Wake \/ handle_message \/ SaveCursor
WatchFair == FlushPending

ChannelsNext ==
    ChannelsFair \/ WatchFair \/ Answer \/ SendMessage \/ PollFails \/ SessionExpired \/ Age \/ Crash
    \/ FileEvent

ChannelsSpec ==
    /\ ChannelsInit /\ [][ChannelsNext]_channelVars
    /\ WF_channelVars(ChannelsFair) /\ WF_channelVars(WatchFair)

-----------------------------------------------------------------------------
(* Type invariant.                                                         *)
ChannelsTypeOK ==
    /\ feed \in UNION {[1..n -> [wanted : BOOLEAN, id : BOOLEAN]] : n \in 0..MaxMessages}
    /\ bot.at \in {"poll", "handle", "sleep"} /\ bot.cursor \in 0..MaxMessages
    /\ disk \in 0..TORN /\ ever \subseteq 1..MaxMessages

(* However the process crashes, what the persisted cursor or the service   *)
(* has passed was handed to the agents first: better twice than never.     *)
NothingSkipped ==
    \A m \in 1..Len(feed) :
        (feed[m].wanted /\ (m <= load_cursor(disk) \/ m <= forgotten)) => m \in ever

(* Inside one process and inside the window, a message that carries an id  *)
(* is pushed once, however often the service delivers it (dedup.rs         *)
(* is_duplicate, bot.rs handle_message); one without an id is pushed as    *)
(* often as it is delivered.                                               *)
OncePerWindow ==
    ~aged => \A m \in 1..Len(feed) : feed[m].id => pushed[m] <= 1

(* Nothing is asked of the service.  Whatever it answers and however polls *)
(* fail, the bot comes back to poll again and again; a message that the    *)
(* bot is to take reaches the agents unless the service stops delivering   *)
(* it; and a change of a watched file is reported unless the process ends  *)
(* before the half second of the watch is over.                            *)
MessagesArrive ==
    /\ []<>(bot.at = "poll")
    /\ \A m \in 1..MaxMessages :
          \/ []<>(m <= Len(feed) /\ feed[m].wanted => m \in ever)
          \/ <>[](m \notin ToSet(bot.batch))
    /\ \A p \in WatchedPaths : []<>(p \in watch.changed => p \in watch.told)
-----------------------------------------------------------------------------
(* qr_login, `jia wechat-setup`: show a QR code, poll what became of it,   *)
(* replace it when it expired, and save the credentials once the user      *)
(* confirmed it in WeChat.                                                 *)
VARIABLES
    login,      \* the command: where it is, the code it polls and the one it shows
    codes,      \* what the service knows of each code it gave out
    account     \* the credentials file: the code whose login it holds, 0 if none

loginVars == <<login, codes, account>>

MaxRefreshes == 3

LoginInit ==
    /\ login = [at |-> "fetch", code |-> 0, screen |-> 0, refreshes |-> 0, answer |-> "wait"]
    /\ codes = <<>> /\ account = 0

(* Mutant: the new code is shown and the first one polled.                 *)
Polled_First(new) == IF login.refreshes = 0 THEN new ELSE login.code

(* The code to poll from now on.                                           *)
Polled(new) == new

(* A request for a code fails, or names none; an empty one is refused only *)
(* the first time.  Code 0 is the empty one.                               *)
FetchQr ==
    /\ login.at = "fetch"
    /\ \E got \in {"error", "empty", "code"} :
          LET new == IF got = "code" THEN Len(codes) + 1 ELSE 0
          IN  IF got = "error" \/ (got = "empty" /\ login.refreshes = 0)
              THEN login' = [login EXCEPT !.at = "failed"] /\ UNCHANGED codes
              ELSE /\ login' = [login EXCEPT !.at = "poll", !.code = Polled(new), !.screen = new]
                   /\ codes' = IF got = "code" THEN Append(codes, "open") ELSE codes
    /\ UNCHANGED account

(* The user scans what is on the screen and confirms it, or it expires.    *)
AtService ==
    /\ \E c \in DOMAIN codes :
          \/ codes[c] = "open" /\ c = login.screen /\ codes' = [codes EXCEPT ![c] = "scaned"]
          \/ codes[c] = "scaned" /\ codes' = [codes EXCEPT ![c] = "confirmed"]
          \/ codes[c] \in {"open", "scaned"} /\ codes' = [codes EXCEPT ![c] = "expired"]
    /\ UNCHANGED <<login, account>>

(* An answer that is lost or does not parse, a status that is unknown:     *)
(* wait.  A confirmation may lack what a login needs.                      *)
Statuses(c) ==
    {"wait"} \cup
    IF c = 0 THEN {"expired"}
    ELSE IF codes[c] = "confirmed" THEN {"confirmed", "incomplete"}
    ELSE {codes[c]} \ {"open"}

PollStatus ==
    /\ login.at = "poll"
    /\ \E s \in Statuses(login.code) : login' = [login EXCEPT !.at = "told", !.answer = s]
    /\ UNCHANGED <<codes, account>>

(* Eight minutes have passed.                                              *)
LoginTimesOut ==
    /\ login.at = "poll" /\ login' = [login EXCEPT !.at = "timed out"]
    /\ UNCHANGED <<codes, account>>

QrExpired ==
    /\ login.at = "told" /\ login.answer = "expired"
    /\ login' = [login EXCEPT !.refreshes = @ + 1,
                     !.at = IF login.refreshes + 1 > MaxRefreshes THEN "expired" ELSE "fetch"]
    /\ UNCHANGED <<codes, account>>

(* A write that fails is not reported.                                     *)
QrConfirmed ==
    /\ login.at = "told" /\ login.answer \in {"confirmed", "incomplete"}
    /\ login' = [login EXCEPT !.at = IF login.answer = "confirmed" THEN "done" ELSE "failed"]
    /\ account' \in IF login.answer = "confirmed" THEN {login.code, account} ELSE {account}
    /\ UNCHANGED codes

QrPending ==
    /\ login.at = "told" /\ login.answer \in {"wait", "scaned"}
    /\ login' = [login EXCEPT !.at = "poll"]
    /\ UNCHANGED <<codes, account>>

LoginNext ==
    FetchQr \/ AtService \/ PollStatus \/ LoginTimesOut \/ QrExpired \/ QrConfirmed \/ QrPending

(* Whatever expires, is lost or is scanned in between, a login is given up *)
(* for expired codes only after four of them, none of which the user       *)
(* confirmed, and the credentials that are saved are those of a code that  *)
(* the user confirmed on the screen.                                       *)
LoginFollowsScreen ==
    /\ login.at = "expired" =>
          login.refreshes > MaxRefreshes /\ \A c \in DOMAIN codes : codes[c] # "confirmed"
    /\ account # 0 => codes[account] = "confirmed" /\ account = login.screen
=============================================================================
