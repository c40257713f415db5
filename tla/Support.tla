------------------------------ MODULE Support ------------------------------
(***************************************************************************)
(* The support dialogue of the bot: app/bot/handlers.py, with the bans of  *)
(* app/services/support_moderation.py and the limiter of one message a     *)
(* minute (Keys are the users).  Telegram delivers updates next to each    *)
(* other; a handler waits at every message it sends, and between two of    *)
(* those waits other handlers run.                                         *)
(*                                                                         *)
(* Of a message only its command and what it replies to are kept.  chat    *)
(* is what Telegram shows the administrator, outside of the program; bans  *)
(* and mutes are in the database; the rest is lost at a restart.  The      *)
(* promo codes, which the same handlers keep, are left to Subscriptions.   *)
(***************************************************************************)
EXTENDS RateLimit, FiniteSets

CONSTANTS
    Admin,      \* ADMIN_TG_ID, one of Keys
    Ids,        \* bound: ids of messages in the chat of the administrator
    Nobody,     \* no user
    NoMessage,  \* a message that is no reply
    MuteTime,   \* MUTE_DURATION in ticks
    Sessions    \* bound: updates handled at a time

ASSUME SupportAssumption ==
    /\ Admin \in Keys /\ Nobody \notin Keys
    /\ NoMessage \notin Ids
    /\ MuteTime \in Nat

VARIABLES
    active,     \* users in SupportStates.active
    banned, mutedUntil,
    target,     \* support_map
    chat,       \* per id the user it came from
    twin,       \* per id the other message of the pair
    task        \* per session the update and where its handler is

dialogVars == <<active, target>>
banVars == <<banned, mutedUntil>>
chatVars == <<chat, twin>>
supportVars == <<rateVars, dialogVars, banVars, chatVars, task>>

AdminCommands == {"close", "mute", "ban", "unban", "promo_create", "promo_list", "promo_off"}
Texts == {"start", "support", "cancel", "text"} \cup AdminCommands

Message == [from : Keys, text : Texts, to : Ids \cup {NoMessage}]
Idle == [at |-> "idle"]
Task ==
    [at : {"message", "send"}, user : Keys]
        \cup [at : {"copy"}, user : Keys, id : Ids]
        \cup [at : {"closing"}, user : Keys, to : Ids]
        \cup [at : {"answering"}, user : Keys, to : Ids, text : Texts]

IsAdmin(m) == m.from = Admin
IsAdminReply(m) == m.to # NoMessage /\ IsAdmin(m)

\* A user replies within his own chat, where no id means anything to the bot.
Update == {m \in Message : m.from = Admin \/ m.to = NoMessage}

\* The filters of a handler.
Passes(h, m) ==
    \/ h \in {"start", "support"} /\ m.text = h
    \/ h = "cancel" /\ m.text = h /\ m.from \in active
    \/ h \in AdminCommands /\ m.text = h /\ IsAdmin(m)
    \/ h = "reply" /\ IsAdminReply(m)
    \/ h = "message" /\ m.from \in active /\ ~IsAdminReply(m)

\* Slip: the handler of replies is registered before those of the commands.
RepliesFirst ==
    <<"start", "support", "cancel", "reply", "close", "mute", "ban", "unban",
      "promo_create", "promo_list", "promo_off", "message">>

\* In the order of their registration.
Handlers ==
    <<"start", "support", "cancel", "close", "mute", "ban", "unban",
      "promo_create", "promo_list", "promo_off", "reply", "message">>

\* The first handler all of whose filters pass takes the update.
Takes(h, m) ==
    /\ Passes(h, m)
    /\ \E i \in 1..Len(Handlers) :
        /\ Handlers[i] = h
        /\ \A j \in 1..(i - 1) : ~Passes(Handlers[j], m)

Muted(u) == mutedUntil[u] > now
Target(m) == IF m.to = NoMessage THEN Nobody ELSE target[m.to]
Unsent == {i \in Ids : chat[i] = Nobody}

SupportInit ==
    /\ RateInit
    /\ active = {} /\ banned = {}
    /\ mutedUntil = [u \in Keys |-> 0]
    /\ target = [i \in Ids |-> Nobody]
    /\ chat = [i \in Ids |-> Nobody]
    /\ twin = [i \in Ids |-> NoMessage]
    /\ task = [s \in Sessions |-> Idle]

Goes(s, t) == task' = [task EXCEPT ![s] = t]
Ends(s) == Goes(s, Idle)
At(s, h) == task[s].at = h

-----------------------------------------------------------------------------

\* A handler that takes an update runs up to its first wait: what it asks of the
\* database before that is one question or one commit.
Taken(s, m, h) ==
    /\ At(s, "idle")
    /\ Takes(h, m)

\* cmd_start() and the promo codes: nothing of the dialogue changes.
Inform(s, m) ==
    /\ \E h \in {"start", "promo_create", "promo_list", "promo_off"} : Taken(s, m, h)
    /\ UNCHANGED supportVars

CmdSupport(s, m) ==
    /\ Taken(s, m, "support")
    /\ active' = IF m.from \in banned \/ Muted(m.from) THEN active ELSE active \cup {m.from}
    /\ UNCHANGED <<rateVars, target, banVars, chatVars, task>>

CmdCancel(s, m) ==
    /\ Taken(s, m, "cancel")
    /\ active' = active \ {m.from}
    /\ UNCHANGED <<rateVars, target, banVars, chatVars, task>>

\* admin_close() tells the user before it clears his state, also when that fails.
AdminClose(s, m) ==
    /\ Taken(s, m, "close")
    /\ IF Target(m) = Nobody THEN UNCHANGED task
       ELSE Goes(s, [at |-> "closing", user |-> Target(m), to |-> m.to])
    /\ UNCHANGED <<rateVars, dialogVars, banVars, chatVars>>

Closed(s) ==
    /\ At(s, "closing")
    /\ active' = active \ {task[s].user}
    /\ Ends(s)
    /\ UNCHANGED <<rateVars, target, banVars, chatVars>>

AdminMute(s, m) ==
    /\ Taken(s, m, "mute")
    /\ mutedUntil' = [u \in Keys |-> IF u = Target(m) THEN now + MuteTime ELSE mutedUntil[u]]
    /\ UNCHANGED <<rateVars, dialogVars, banned, chatVars, task>>

\* Slip: admin_ban() without the question whether the reply leads to a user.
BanUnresolved(s, m) ==
    /\ Taken(s, m, "ban")
    /\ banned' = banned \cup {Target(m)}
    /\ UNCHANGED <<rateVars, dialogVars, mutedUntil, chatVars, task>>

AdminBan(s, m) ==
    /\ Taken(s, m, "ban")
    /\ banned' = banned \cup ({Target(m)} \ {Nobody})
    /\ UNCHANGED <<rateVars, dialogVars, mutedUntil, chatVars, task>>

AdminUnban(s, m) ==
    /\ Taken(s, m, "unban")
    /\ banned' = banned \ {Target(m)}
    /\ mutedUntil' = [u \in Keys |-> IF u = Target(m) THEN 0 ELSE mutedUntil[u]]
    /\ UNCHANGED <<rateVars, dialogVars, chatVars, task>>

\* Without a text (a photo without caption) the reply goes nowhere.
AdminReply(s, m) ==
    /\ Taken(s, m, "reply")
    /\ IF Target(m) = Nobody THEN UNCHANGED task
       ELSE \/ UNCHANGED task
            \/ Goes(s, [at |-> "answering", user |-> Target(m), to |-> m.to, text |-> m.text])
    /\ UNCHANGED <<rateVars, dialogVars, banVars, chatVars>>

Answered(s) ==
    /\ At(s, "answering")
    /\ Ends(s)
    /\ UNCHANGED <<rateVars, dialogVars, banVars, chatVars>>

\* The state filter is asked before the ban.
MessageTaken(s, m) ==
    /\ Taken(s, m, "message")
    /\ Goes(s, [at |-> "message", user |-> m.from])
    /\ UNCHANGED <<rateVars, dialogVars, banVars, chatVars>>

\* support_message() up to its first message to the administrator.  An attempt that
\* is refused counts for nothing, one that is admitted counts even if sending fails.
SupportMessage(s) ==
    LET u == task[s].user
    IN  /\ At(s, "message")
        /\ IF u \in banned \/ Muted(u) THEN Ends(s) /\ UNCHANGED rateVars
           ELSE /\ Hits(u)
                /\ IF u \in refused' THEN Ends(s) ELSE Goes(s, [task[s] EXCEPT !.at = "send"])
        /\ UNCHANGED <<dialogVars, banVars, chatVars>>

SendContext(s, i) ==
    /\ At(s, "send")
    /\ i \in Unsent
    /\ chat' = [chat EXCEPT ![i] = task[s].user]
    /\ Goes(s, [at |-> "copy", user |-> task[s].user, id |-> i])
    /\ UNCHANGED <<rateVars, dialogVars, banVars, twin>>

\* Slips: only the copy is entered; both under whoever spoke to the bot last.
MappedCopy(s, i) == [target EXCEPT ![i] = task[s].user]
MappedLatest(s, i) ==
    LET t == CHOOSE t \in Sessions : t # s
    IN  [j \in Ids |-> IF j \notin {i, task[s].id} THEN target[j]
                       ELSE IF At(t, "idle") THEN task[s].user ELSE task[t].user]

\* The context line and the copy are entered together, when both are there.
Mapped(s, i) == [j \in Ids |-> IF j \in {i, task[s].id} THEN task[s].user ELSE target[j]]

Copy(s, i) ==
    LET c == task[s].id
    IN  /\ At(s, "copy")
        /\ i \in Unsent
        /\ chat' = [chat EXCEPT ![i] = task[s].user]
        /\ twin' = [twin EXCEPT ![i] = c, ![c] = i]
        /\ target' = Mapped(s, i)
        /\ Ends(s)
        /\ UNCHANGED <<rateVars, active, banVars>>

\* Telegram or the database fails; what was done before stays.
Fails(s) ==
    /\ ~At(s, "idle") /\ ~At(s, "closing")
    /\ Ends(s)
    /\ UNCHANGED <<rateVars, dialogVars, banVars, chatVars>>

Tick == Elapse /\ UNCHANGED <<dialogVars, banVars, chatVars, task>>

\* The process is restarted: MemoryStorage, support_map and the limiter are empty.
Restart ==
    /\ Reset
    /\ active' = {}
    /\ target' = [i \in Ids |-> Nobody]
    /\ task' = [s \in Sessions |-> Idle]
    /\ UNCHANGED <<banVars, chatVars>>

SupportNext ==
    \/ \E s \in Sessions :
          \/ \E m \in Update :
                \/ Inform(s, m)
                \/ CmdSupport(s, m)
                \/ CmdCancel(s, m)
                \/ AdminClose(s, m)
                \/ AdminMute(s, m)
                \/ AdminBan(s, m)
                \/ AdminUnban(s, m)
                \/ AdminReply(s, m)
                \/ MessageTaken(s, m)
          \/ Closed(s)
          \/ Answered(s)
          \/ SupportMessage(s)
          \/ \E i \in Ids : SendContext(s, i) \/ Copy(s, i)
          \/ Fails(s)
    \/ Tick
    \/ Restart

SupportSpec == SupportInit /\ [][SupportNext]_supportVars

-----------------------------------------------------------------------------

SupportTypeOK ==
    /\ active \subseteq Keys /\ banned \subseteq Keys
    /\ mutedUntil \in [Keys -> Nat]
    /\ target \in [Ids -> Keys \cup {Nobody}]
    /\ chat \in [Ids -> Keys \cup {Nobody}]
    /\ twin \in [Ids -> Ids \cup {NoMessage}]
    /\ task \in [Sessions -> Task \cup {Idle}]

\* Whatever the administrator replies to, the answer, the ban or the end of the
\* chat is meant for the author of that message, and the context line and the copy
\* do alike (handlers.py:18-25); also with several messages being forwarded at a
\* time, failures between the two and a restart.
RepliesReachAuthors ==
    /\ \A i \in Ids : target[i] # Nobody => target[i] = chat[i]
    /\ \A i \in Ids : twin[i] # NoMessage => target[i] = target[twin[i]]
    /\ \A s \in Sessions :
          task[s].at \in {"closing", "answering"} => task[s].user = chat[task[s].to]

\* A command of the administrator is never sent to the user as an answer
\* (handlers.py:39-45).
CommandsStayPrivate ==
    \A s \in Sessions : At(s, "answering") => task[s].text \notin AdminCommands
=============================================================================
