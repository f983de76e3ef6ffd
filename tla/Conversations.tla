---------------------------- MODULE Conversations ----------------------------
(***************************************************************************)
(* Direct conversations of business matching: opening, messages, blocks,   *)
(* the read mark and the sockets of one server process.                    *)
(*                                                                         *)
(* A handler checks, commits and then broadcasts; requests interleave      *)
(* between these steps.  created_at is PostgreSQL's now(), the start of    *)
(* the sender's transaction, so a read mark covers every message whose     *)
(* request has begun: `read' holds those messages instead of a clock.      *)
(***************************************************************************)
CONSTANTS Participants,   \* the two participants who talk
          Readers,        \* those of them whose inbox is followed
          Conversations,  \* identifiers of conversation rows
          Messages,       \* identifiers of message rows
          Sockets,        \* WebSocket connections of clients
          ChatRequests    \* handlers under way

VARIABLES conv,    \* conversation: absent or active
          msg,     \* the messages table
          block,   \* participant_blocks, as pairs <<blocker, blocked>>
          read,    \* messages each reader's last_read_at covers
          hidden,  \* archived memberships, as pairs <<participant, conversation>>
          sock,    \* sockets: the conversation, and what the client shows
          chat     \* handlers: the step they are at and what they read
chatVars == <<conv, msg, block, read, hidden, sock, chat>>

NoMessage == [st |-> "absent"]
MessageRow(c, p, kind) ==
  [st |-> "visible", conv |-> c, by |-> p, kind |-> kind, edited |-> FALSE]
Idle == [step |-> "idle"]
NoSocket == [on |-> FALSE]

Blocked == block # {}
Committed(m) == msg[m].st # "absent"
Visible(c) == {m \in Messages : msg[m].st = "visible" /\ msg[m].conv = c}
InFlight == {chat[q].m : q \in {r \in ChatRequests : chat[r].step = "send"}}
Begun == {m \in Messages : Committed(m)} \cup InFlight
Fresh == Messages \ Begun

Become(q, state) == chat' = [chat EXCEPT ![q] = state]

-----------------------------------------------------------------------------
(***************************************************************************)
(* Opening                                                                 *)
(***************************************************************************)
\* No conversation of the pair is found; a block refuses.
OpenLook(q, p) ==
  /\ chat[q].step = "idle" /\ ~Blocked
  /\ \A c \in Conversations : conv[c] = "absent"
  /\ Become(q, [step |-> "open", who |-> p])
  /\ UNCHANGED <<conv, msg, block, read, hidden, sock>>

\* The new conversation, with an initial message or without, is not broadcast.
OpenCommit(q) ==
  /\ chat[q].step = "open"
  /\ \E c \in Conversations :
       /\ conv[c] = "absent"
       /\ conv' = [conv EXCEPT ![c] = "active"]
       /\ \/ msg' = msg
          \/ \E m \in Fresh : msg' = [msg EXCEPT ![m] = MessageRow(c, chat[q].who, "text")]
  /\ Become(q, Idle)
  /\ UNCHANGED <<block, read, hidden, sock>>

\* An existing conversation is used again and shown again to the opener.
Reopen(p, c) ==
  /\ conv[c] = "active" /\ ~Blocked
  /\ <<p, c>> \in hidden
  /\ hidden' = hidden \ {<<p, c>>}
  /\ UNCHANGED <<conv, msg, block, read, sock, chat>>

-----------------------------------------------------------------------------
(***************************************************************************)
(* Messages                                                                *)
(***************************************************************************)
\* send_message up to its commit; the row's created_at is of this moment.
SendCheck(q, p, c) ==
  /\ chat[q].step = "idle" /\ ~Blocked
  /\ conv[c] = "active"
  /\ \E m \in Fresh : Become(q, [step |-> "send", m |-> m, row |-> MessageRow(c, p, "text")])
  /\ UNCHANGED <<conv, msg, block, read, hidden, sock>>

\* A meeting of the pair writes into its conversation, blocked or not.
SystemCheck(q, p, c) ==
  /\ chat[q].step = "idle"
  /\ conv[c] = "active"
  /\ \E m \in Fresh : Become(q, [step |-> "send", m |-> m, row |-> MessageRow(c, p, "system")])
  /\ UNCHANGED <<conv, msg, block, read, hidden, sock>>

Tell(m, what) == [step |-> "tell", m |-> m, what |-> what]

SendCommit(q) ==
  /\ chat[q].step = "send"
  /\ msg' = [msg EXCEPT ![chat[q].m] = chat[q].row]
  /\ Become(q, Tell(chat[q].m, "new_message"))
  /\ UNCHANGED <<conv, block, read, hidden, sock>>

\* edit_message and delete_message read a text of their own, not deleted.
ChangeCheck(q, m) ==
  /\ chat[q].step = "idle"
  /\ msg[m].st = "visible" /\ msg[m].kind = "text"
  /\ \E what \in {"edit", "delete"} : Become(q, [step |-> what, m |-> m, row |-> msg[m]])
  /\ UNCHANGED <<conv, msg, block, read, hidden, sock>>

\* A slip: the row is written as it was read.
EditedWholeRow(cur, seen) == [seen EXCEPT !.edited = TRUE]

\* UPDATE names body and edited_at only.
EditedRow(cur, seen) == [cur EXCEPT !.edited = TRUE]

EditCommit(q) ==
  /\ chat[q].step = "edit"
  /\ msg' = [msg EXCEPT ![chat[q].m] = EditedRow(@, chat[q].row)]
  /\ Become(q, Tell(chat[q].m, "message_updated"))
  /\ UNCHANGED <<conv, block, read, hidden, sock>>

DeleteCommit(q) ==
  /\ chat[q].step = "delete"
  /\ msg' = [msg EXCEPT ![chat[q].m].st = "deleted"]
  /\ Become(q, Tell(chat[q].m, "message_deleted"))
  /\ UNCHANGED <<conv, block, read, hidden, sock>>

\* The hub copies the sockets of the conversation when the broadcast starts.
Audience(c) == {s \in Sockets : sock[s].on /\ sock[s].conv = c}

\* A slip: a meeting's status event does not carry its message.
ShownTextsOnly(shows, m, what) ==
  CASE what = "new_message" /\ msg[m].kind = "text" -> shows \cup {m}
    [] what = "message_deleted" -> shows \ {m}
    [] OTHER                    -> shows

Shown(shows, m, what) ==
  CASE what = "new_message"     -> shows \cup {m}
    [] what = "message_deleted" -> shows \ {m}
    [] OTHER                    -> shows

Broadcast(q) ==
  /\ chat[q].step = "tell"
  /\ LET m == chat[q].m
         audience == Audience(msg[m].conv)
     IN sock' = [s \in Sockets |->
                   IF s \in audience
                   THEN [sock[s] EXCEPT !.shows = Shown(@, m, chat[q].what)] ELSE sock[s]]
  /\ Become(q, Idle)
  /\ UNCHANGED <<conv, msg, block, read, hidden>>

-----------------------------------------------------------------------------
(***************************************************************************)
(* Memberships, blocks, sockets                                            *)
(***************************************************************************)
MarkRead(p) ==
  /\ read' = [read EXCEPT ![p] = Begun]
  /\ UNCHANGED <<conv, msg, block, hidden, sock, chat>>

Archive(p, c) ==
  /\ conv[c] = "active"
  /\ \/ hidden' = hidden \cup {<<p, c>>}
     \/ hidden' = hidden \ {<<p, c>>}
  /\ UNCHANGED <<conv, msg, block, read, sock, chat>>

\* Answers success without a row of its own when the pair is blocked already.
Block(p, o) ==
  /\ p # o
  /\ block' = IF Blocked THEN block ELSE block \cup {<<p, o>>}
  /\ UNCHANGED <<conv, msg, read, hidden, sock, chat>>

Unblock(p, o) ==
  /\ <<p, o>> \in block
  /\ block' = block \ {<<p, o>>}
  /\ UNCHANGED <<conv, msg, read, hidden, sock, chat>>

Connect(s, c) ==
  /\ ~sock[s].on
  /\ conv[c] = "active"
  /\ sock' = [sock EXCEPT ![s] = [on |-> TRUE, conv |-> c, loaded |-> FALSE, shows |-> {}]]
  /\ UNCHANGED <<conv, msg, block, read, hidden, chat>>

\* The client fetches the messages once it is connected.
LoadMessages(s) ==
  /\ sock[s].on /\ ~sock[s].loaded
  /\ sock' = [sock EXCEPT ![s].loaded = TRUE, ![s].shows = @ \cup Visible(sock[s].conv)]
  /\ UNCHANGED <<conv, msg, block, read, hidden, chat>>

Disconnect(s) ==
  /\ sock[s].on
  /\ sock' = [sock EXCEPT ![s] = NoSocket]
  /\ UNCHANGED <<conv, msg, block, read, hidden, chat>>

-----------------------------------------------------------------------------
ChatInit ==
  /\ conv = [c \in Conversations |-> "absent"]
  /\ msg = [m \in Messages |-> NoMessage]
  /\ block = {} /\ hidden = {}
  /\ read = [p \in Readers |-> {}]
  /\ sock = [s \in Sockets |-> NoSocket]
  /\ chat = [q \in ChatRequests |-> Idle]

ChatNext ==
  \/ \E q \in ChatRequests :
       \/ OpenCommit(q) \/ SendCommit(q) \/ EditCommit(q) \/ DeleteCommit(q) \/ Broadcast(q)
       \/ \E m \in Messages : ChangeCheck(q, m)
       \/ \E p \in Participants :
            \/ OpenLook(q, p)
            \/ \E c \in Conversations : SendCheck(q, p, c) \/ SystemCheck(q, p, c)
  \/ \E p \in Readers :
       \/ MarkRead(p)
       \/ \E c \in Conversations : Reopen(p, c) \/ Archive(p, c)
  \/ \E p, o \in Participants : Block(p, o) \/ Unblock(p, o)
  \/ \E s \in Sockets :
       \/ LoadMessages(s) \/ Disconnect(s)
       \/ \E c \in Conversations : Connect(s, c)

ChatSpec == ChatInit /\ [][ChatNext]_chatVars

-----------------------------------------------------------------------------
(***************************************************************************)
(* Claims                                                                  *)
(***************************************************************************)
Announced(m) == \A q \in ChatRequests : chat[q].step = "tell" => chat[q].m # m

\* A client that connects and then loads misses no message of the conversation:
\* each visible one whose broadcast is not still to come is on its screen.
ViewIsComplete ==
  \A s \in Sockets : sock[s].on /\ sock[s].loaded =>
    {m \in Visible(sock[s].conv) : Announced(m)} \subseteq sock[s].shows

\* A deleted message stays deleted, also when an edit that read it before the
\* deletion commits afterwards.
DeletedStaysDeleted ==
  [][\A m \in Messages : msg[m].st = "deleted" => msg'[m].st = "deleted"]_chatVars
=============================================================================
