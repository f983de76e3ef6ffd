---------------------------- MODULE ServiceProofs -----------------------------
(***************************************************************************)
(* Row locks, e-mail notifications, webhook capture, password resets and   *)
(* admission for any number of handlers, rows and requests.                *)
(*                                                                         *)
(* Most of these services claim that two requests must have been under way *)
(* together for something to happen twice. None of the claims is           *)
(* inductive: a request carries what it has read, so each invariant says   *)
(* of every request under way what its commit will find, and of every two  *)
(* of them which has seen the other.                                       *)
(***************************************************************************)
EXTENDS RowLocks, EmailDelivery, WebhookInbox, Accounts, Admission,
        FiniteSetTheorems, TLAPS

-----------------------------------------------------------------------------
(***************************************************************************)
(* Row locks. Handlers that lock in one order cannot wait in a circle,     *)
(* however many run at once; the handlers that take the order before the   *)
(* payment do.                                                             *)
(***************************************************************************)

(* Every script of the jobs takes its locks by increasing rank, and locks  *)
(* that conflict have one rank.                                            *)
Ranked(rank) ==
  /\ \A j \in Jobs : \A i \in 1 .. Len(Script[j]) : rank[Script[j][i]] \in 0 .. 4
  /\ \A j \in Jobs : \A h, i \in 1 .. Len(Script[j]) :
       h < i => rank[Script[j][h]] < rank[Script[j][i]]
  /\ \A j, k \in Jobs : \A h \in 1 .. Len(Script[j]), i \in 1 .. Len(Script[k]) :
       /\ Script[j][h].row = Script[k][i].row
       /\ Conflict(Script[j][h].mode, Script[k][i].mode)
       => rank[Script[j][h]] = rank[Script[k][i]]

(* The handlers that lock the order before its payments, with the legacy   *)
(* checkout, whose lock on the user lets notifications through.            *)
OrderBeforePayment ==
  {"DokuWebhook", "UserCancel", "UserContinue", "ManualProof", "ManualConfirm",
   "LegacyCheckout", "CheckoutAnswer", "RegistrationCommand"}

AllLocks == [row : {"user", "order", "payment", "registration"}, mode : Modes]

OrderRank ==
  [l \in AllLocks |->
     CASE l.row = "order" -> 1
       [] l.row = "payment" -> 2
       [] l.row = "registration" -> 3
       [] OTHER -> IF l.mode = "share" THEN 4 ELSE 0]

-----------------------------------------------------------------------------
(* Every job has a script, and none is called none.                        *)
LEMMA ScriptLengths ==
  ASSUME NEW j \in Jobs
  PROVE  Len(Script[j]) \in Nat /\ j # "none"
BY JobsAreScripts DEF Script, DokuWebhook, RowFirstWebhook, AdminStatus, AdminDelete,
   UserCancel, UserContinue, ManualProof, ManualConfirm, Offline, LegacyCheckout,
   CheckoutAnswer, MidtransCheckout, StoreCheckout, RegistrationCommand

(* No request runs at first.                                               *)
LEMMA LocksInit == Init => TypeOK
BY DEF Init, TypeOK, Running

(* Requests stay within their scripts.                                     *)
LEMMA LocksNext == TypeOK /\ [Next]_vars => TypeOK'
<1> SUFFICES ASSUME TypeOK, [Next]_vars PROVE TypeOK'
  OBVIOUS
<1>1. CASE UNCHANGED vars
  BY <1>1 DEF TypeOK, vars, Running
<1>2. ASSUME NEW w \in Workers, NEW j \in Jobs, Begin(w, j) PROVE TypeOK'
  <2>1. step[w] = 0 /\ Len(Script[j]) \in Nat /\ j # "none"
    BY <1>2, ScriptLengths DEF TypeOK, Begin, Running
  <2>2. job' = [job EXCEPT ![w] = j] /\ step' = step
    BY <1>2 DEF Begin
  <2>3. job' \in [Workers -> Jobs \cup {"none"}] /\ step' \in [Workers -> Nat]
    BY <2>2 DEF TypeOK
  <2>4. ASSUME NEW v \in Workers
        PROVE  step'[v] <= (IF Running(v)' THEN Len(Script[job'[v]]) ELSE 0)
    <3>1. CASE v = w
      BY <2>1, <2>2, <3>1 DEF TypeOK, Running
    <3>2. CASE v # w
      <4>1. job'[v] = job[v] /\ step'[v] = step[v]
        BY <2>2, <3>2 DEF TypeOK
      <4> QED BY <4>1 DEF TypeOK, Running
    <3> QED BY <3>1, <3>2
  <2> QED BY <2>3, <2>4 DEF TypeOK
<1>3. ASSUME NEW w \in Workers, Acquire(w) PROVE TypeOK'
  <2>1. job[w] \in Jobs /\ step[w] < Len(Script[job[w]]) /\ Len(Script[job[w]]) \in Nat
    BY <1>3, ScriptLengths DEF TypeOK, Acquire, Wants, Running
  <2>2. job' = job /\ step' = [step EXCEPT ![w] = @ + 1]
    BY <1>3 DEF Acquire
  <2>3. step' \in [Workers -> Nat]
    BY <2>2 DEF TypeOK
  <2>4. \A v \in Workers : v # w => step'[v] = step[v]
    BY <2>2 DEF TypeOK
  <2>5. step'[w] = step[w] + 1 /\ step[w] \in Nat /\ Running(w)
    BY <1>3, <2>2 DEF TypeOK, Acquire, Wants
  <2> QED BY <2>1, <2>2, <2>3, <2>4, <2>5 DEF TypeOK, Running
<1>4. ASSUME NEW w \in Workers, End(w) PROVE TypeOK'
  BY <1>4 DEF TypeOK, End, Running
<1> QED BY <1>1, <1>2, <1>3, <1>4 DEF Next, Commit, Rollback

(* A worker holds a prefix of its handler's script.                        *)
THEOREM LocksTyped == Spec => []TypeOK
BY LocksInit, LocksNext, PTL DEF Spec

-----------------------------------------------------------------------------
(* Who blocks another and waits itself, waits for a higher lock.           *)
LEMMA BlockersAreHigher ==
  ASSUME TypeOK, NEW rank, Ranked(rank), NEW v \in Workers, NEW w \in Workers,
         Blocks(v, w), Wants(v)
  PROVE  /\ rank[Wanted(w)] \in 0 .. 4 /\ rank[Wanted(v)] \in 0 .. 4
         /\ rank[Wanted(w)] < rank[Wanted(v)]
<1> DEFINE jv == job[v]
           jw == job[w]
           iv == step[v] + 1
           iw == step[w] + 1
<1>1. /\ jv \in Jobs /\ jw \in Jobs
      /\ Len(Script[jv]) \in Nat /\ Len(Script[jw]) \in Nat
      /\ step[v] \in Nat /\ step[w] \in Nat
      /\ step[v] < Len(Script[jv]) /\ step[w] < Len(Script[jw])
  BY ScriptLengths DEF TypeOK, Blocks, Wants, Running
<1>2. iv \in 1 .. Len(Script[jv]) /\ iw \in 1 .. Len(Script[jw])
  BY <1>1
<1>3. Wanted(v) = Script[jv][iv] /\ Wanted(w) = Script[jw][iw]
  BY DEF Wanted
<1>4. PICK h \in 1 .. step[v] :
        Script[jv][h].row = Wanted(w).row /\ Conflict(Script[jv][h].mode, Wanted(w).mode)
  BY DEF Blocks, Held
<1>5. h \in 1 .. Len(Script[jv]) /\ h < iv
  BY <1>1, <1>4
<1> HIDE DEF jv, jw, iv, iw
<1>6. rank[Script[jv][h]] = rank[Script[jw][iw]]
  BY <1>1, <1>2, <1>3, <1>4, <1>5 DEF Ranked
<1>7. rank[Script[jv][h]] < rank[Script[jv][iv]]
  BY <1>1, <1>2, <1>5 DEF Ranked
<1>8. rank[Script[jv][iv]] \in 0 .. 4 /\ rank[Script[jw][iw]] \in 0 .. 4
  BY <1>1, <1>2 DEF Ranked
<1> QED BY <1>3, <1>6, <1>7, <1>8

(* Of workers that wait in a circle none could wait for the highest lock.  *)
LEMMA NoCircle ==
  ASSUME TypeOK, NEW rank, Ranked(rank)
  PROVE  NoDeadlock
<1> SUFFICES ASSUME NEW S \in SUBSET Workers, Deadlocked(S) PROVE FALSE
  BY DEF NoDeadlock
<1>1. \A w \in S : Wants(w) /\ \E v \in S : Blocks(v, w)
  BY DEF Deadlocked, Blocks
<1>2. \A w \in S : \E v \in S :
        /\ rank[Wanted(w)] \in 0 .. 4 /\ rank[Wanted(v)] \in 0 .. 4
        /\ rank[Wanted(w)] < rank[Wanted(v)]
  BY <1>1, BlockersAreHigher
<1>3. \A w \in S : rank[Wanted(w)] \in 0 .. 4
  BY <1>2
<1>4. \A w \in S : rank[Wanted(w)] # 4
  BY <1>2, <1>3
<1>5. \A w \in S : rank[Wanted(w)] # 3
  BY <1>2, <1>3, <1>4
<1>6. \A w \in S : rank[Wanted(w)] # 2
  BY <1>2, <1>3, <1>4, <1>5
<1>7. \A w \in S : rank[Wanted(w)] # 1
  BY <1>2, <1>3, <1>4, <1>5, <1>6
<1>8. \A w \in S : rank[Wanted(w)] # 0
  BY <1>2, <1>3, <1>4, <1>5, <1>6, <1>7
<1> QED BY <1>3, <1>4, <1>5, <1>6, <1>7, <1>8 DEF Deadlocked

(* Handlers whose scripts follow one ranking of the locks never deadlock.  *)
THEOREM RankedLocksAreSafe ==
  ASSUME NEW rank, Ranked(rank)
  PROVE  Spec => []NoDeadlock
<1>1. TypeOK => NoDeadlock
  BY NoCircle
<1> QED BY <1>1, LocksTyped, PTL

-----------------------------------------------------------------------------
(* OrderRank ranks the locks of OrderBeforePayment.                        *)
Allowed ==
  {Lock("order", "update"), Lock("payment", "update"), Lock("registration", "update"),
   Lock("user", "share"), Lock("user", "nokey")}

(* Conflicting locks of a row have one rank.                               *)
LEMMA AllowedRanks ==
  /\ \A l \in Allowed : OrderRank[l] \in 0 .. 4
  /\ \A l, m \in Allowed :
       l.row = m.row /\ Conflict(l.mode, m.mode) => OrderRank[l] = OrderRank[m]
  /\ OrderRank[Lock("user", "nokey")] = 0
  /\ OrderRank[Lock("order", "update")] = 1
  /\ OrderRank[Lock("payment", "update")] = 2
  /\ OrderRank[Lock("registration", "update")] = 3
  /\ OrderRank[Lock("user", "share")] = 4
<1>1. /\ Lock("user", "nokey") \in AllLocks /\ Lock("order", "update") \in AllLocks
      /\ Lock("payment", "update") \in AllLocks /\ Lock("registration", "update") \in AllLocks
      /\ Lock("user", "share") \in AllLocks
  BY DEF Lock, AllLocks, Modes
<1>2. /\ OrderRank[Lock("user", "nokey")] = 0
      /\ OrderRank[Lock("order", "update")] = 1
      /\ OrderRank[Lock("payment", "update")] = 2
      /\ OrderRank[Lock("registration", "update")] = 3
      /\ OrderRank[Lock("user", "share")] = 4
  BY <1>1 DEF OrderRank, Lock
<1>3. \A l, m \in Allowed :
        l.row = m.row /\ Conflict(l.mode, m.mode) => l = m
  BY DEF Allowed, Lock, Conflict
<1> QED BY <1>2, <1>3 DEF Allowed

(* The eight handlers take their locks in the order of rank.               *)
LEMMA ScriptsFollow ==
  ASSUME NEW j \in OrderBeforePayment
  PROVE  /\ \A i \in 1 .. Len(Script[j]) : Script[j][i] \in Allowed
         /\ \A h, i \in 1 .. Len(Script[j]) :
              h < i => OrderRank[Script[j][h]] < OrderRank[Script[j][i]]
<1>1. CASE j = "DokuWebhook"
  BY <1>1, AllowedRanks DEF Script, DokuWebhook, Allowed
<1>2. CASE j = "UserCancel"
  BY <1>2, AllowedRanks DEF Script, UserCancel, Allowed
<1>3. CASE j = "UserContinue"
  BY <1>3, AllowedRanks DEF Script, UserContinue, Allowed
<1>4. CASE j = "ManualProof"
  BY <1>4, AllowedRanks DEF Script, ManualProof, Allowed
<1>5. CASE j = "ManualConfirm"
  BY <1>5, AllowedRanks DEF Script, ManualConfirm, Allowed
<1>6. CASE j = "LegacyCheckout"
  BY <1>6, AllowedRanks DEF Script, LegacyCheckout, Allowed
<1>7. CASE j = "CheckoutAnswer"
  BY <1>7, AllowedRanks DEF Script, CheckoutAnswer, Allowed
<1>8. CASE j = "RegistrationCommand"
  BY <1>8, AllowedRanks DEF Script, RegistrationCommand, Allowed
<1> QED BY <1>1, <1>2, <1>3, <1>4, <1>5, <1>6, <1>7, <1>8 DEF OrderBeforePayment

(* The hosted webhook, cancel, continue, manual payment, the legacy        *)
(* checkout and the registration commands never deadlock, however many run *)
(* at once: "Webhooks acquire order then payment locks, matching           *)
(* resume/cancel operations" (docs/DOKU_CHECKOUT_HARDENING.md).            *)
THEOREM OrderFirstIsSafe ==
  ASSUME Jobs \subseteq OrderBeforePayment
  PROVE  Spec => []NoDeadlock
<1>1. /\ \A j \in Jobs : \A i \in 1 .. Len(Script[j]) : Script[j][i] \in Allowed
      /\ \A j \in Jobs : \A h, i \in 1 .. Len(Script[j]) :
           h < i => OrderRank[Script[j][h]] < OrderRank[Script[j][i]]
  BY ScriptsFollow
<1>2. Ranked(OrderRank)
  BY <1>1, AllowedRanks DEF Ranked
<1> QED BY <1>2, RankedLocksAreSafe

-----------------------------------------------------------------------------
(***************************************************************************)
(* E-mail notifications. A log row says whom its task overlapped with; the *)
(* row of a mail sent twice is found only by a task that started before.   *)
(***************************************************************************)

LogRow == [st : {"pending", "sent", "failed"}, mail : Mails \cup {TestMail}, loc : Locales,
           want : Locales, accepted : BOOLEAN, rivals : SUBSET MailLogs]

MailTypes ==
  /\ tmpl \in [Locales -> TemplateStates]
  /\ elog \in [MailLogs -> LogRow \cup {NoLog}]
  /\ task = [t \in MailTasks |-> task[t]]
  /\ \A t \in MailTasks :
       /\ task[t].step \in {"asleep", "started", "addressed", "prepared", "sending", "recording"}
       /\ task[t].step \in {"started", "addressed", "prepared"} =>
            task[t].mail \in Mails \cup {TestMail}
       /\ task[t].step \in {"addressed", "prepared"} => task[t].want \in Locales
       /\ task[t].step \in {"sending", "recording"} => task[t].log \in MailLogs

(* Tasks that have written their row.                                      *)
Claimed == {t \in MailTasks : task[t].step \in {"sending", "recording"}}

(* A row is pending while its task is at work, and it alone decides it.    *)
TasksHold ==
  /\ \A t \in Claimed : elog[task[t].log].st = "pending"
  /\ \A t, u \in Claimed : task[t].log = task[u].log => t = u
  /\ \A t \in Claimed : task[t].step = "recording" =>
       (task[t].raised <=> ~elog[task[t].log].accepted)

(* A row tells what the server has done.                                   *)
RowsTell ==
  \A l \in MailLogs : /\ elog[l].st = "sent" => elog[l].accepted
                      /\ elog[l].st = "failed" => ~elog[l].accepted

(* Two rows of a subject were under way together, or one of them failed.   *)
RowsMeet ==
  \A l, k \in MailLogs :
    l # k /\ Written(l) /\ Written(k) /\ elog[l].mail = elog[k].mail /\ elog[l].mail # TestMail =>
      \/ l \in elog[k].rivals \/ k \in elog[l].rivals
      \/ elog[l].st = "failed" \/ elog[k].st = "failed"

MailInv ==
  /\ MailTypes
  /\ TasksHold
  /\ RowsTell
  /\ RowsMeet

-----------------------------------------------------------------------------
(* A task takes a step.                                                    *)
LEMMA AdvanceOne ==
  ASSUME MailTypes, NEW t \in MailTasks, NEW s, Advance(t, s)
  PROVE  /\ task'[t] = s /\ \A u \in MailTasks \ {t} : task'[u] = task[u]
         /\ task' = [u \in MailTasks |-> task'[u]]
BY DEF MailTypes, Advance

(* Steps that write no row, after which the task holds none.               *)
LEMMA TaskRests ==
  ASSUME MailInv, NEW t \in MailTasks, NEW s, Advance(t, s), elog' = elog,
         tmpl' \in [Locales -> TemplateStates],
         s.step \in {"asleep", "started", "addressed", "prepared"},
         s.step # "asleep" => s.mail \in Mails \cup {TestMail},
         s.step \in {"addressed", "prepared"} => s.want \in Locales
  PROVE  MailInv'
<1>1. MailTypes /\ TasksHold /\ RowsTell /\ RowsMeet
  BY DEF MailInv
<1>2. /\ task'[t] = s /\ \A u \in MailTasks \ {t} : task'[u] = task[u]
      /\ task' = [u \in MailTasks |-> task'[u]]
  BY <1>1, AdvanceOne
<1>3. Claimed' \subseteq Claimed \ {t} /\ \A u \in Claimed' : task'[u] = task[u]
  BY <1>2 DEF Claimed
<1>4. MailTypes'
  BY <1>1, <1>2 DEF MailTypes
<1>5. TasksHold'
  BY <1>1, <1>3 DEF TasksHold
<1>6. RowsTell' /\ RowsMeet'
  BY <1>1 DEF RowsTell, RowsMeet, Written
<1> QED BY <1>4, <1>5, <1>6 DEF MailInv

(* A task claims a row unless its subject has been sent.                   *)
LEMMA ClaimKeeps ==
  ASSUME MailInv, NEW t \in MailTasks, Claim(t)
  PROVE  MailInv'
<1> DEFINE s == task[t].mail
           chosen == SelectTemplate(task[t].want)
<1>1. /\ MailTypes /\ TasksHold /\ RowsTell /\ RowsMeet
      /\ elog \in [MailLogs -> LogRow \cup {NoLog}] /\ tmpl \in [Locales -> TemplateStates]
      /\ task[t].step = "prepared" /\ s \in Mails \cup {TestMail} /\ task[t].want \in Locales
      /\ tmpl' = tmpl
  BY DEF MailInv, MailTypes, Claim
<1>2. CASE Advance(t, Asleep) /\ elog' = elog
  BY <1>1, <1>2, TaskRests DEF Asleep
<1>3. ASSUME NEW l \in MailLogs, chosen # NoTemplate, ~AlreadySent(s), ~Written(l),
             elog' = [elog EXCEPT ![l] = [st |-> "pending", mail |-> s, loc |-> chosen,
                                          want |-> task[t].want, accepted |-> FALSE,
                                          rivals |-> Pending(s)]],
             Advance(t, [step |-> "sending", log |-> l])
      PROVE  MailInv'
  <2> DEFINE row == [st |-> "pending", mail |-> s, loc |-> chosen, want |-> task[t].want,
                     accepted |-> FALSE, rivals |-> Pending(s)]
  <2>1. chosen \in Locales
    BY <1>1, <1>3 DEF SelectTemplate, Locales
  <2>2. Pending(s) \subseteq MailLogs
    BY DEF Pending, LogsOf
  <2>3. /\ row \in LogRow /\ row.st = "pending" /\ row.mail = s /\ ~row.accepted
        /\ row.rivals = Pending(s)
    BY <1>1, <2>1, <2>2 DEF LogRow
  <2> HIDE DEF row
  <2>4. elog' = [elog EXCEPT ![l] = row]
    BY <1>3 DEF row
  <2>5. elog'[l] = row /\ \A k \in MailLogs \ {l} : elog'[k] = elog[k]
    BY <1>1, <2>4
  <2>6. /\ task'[t].step = "sending" /\ task'[t].log = l
        /\ \A u \in MailTasks \ {t} : task'[u] = task[u]
        /\ task' = [u \in MailTasks |-> task'[u]]
    BY <1>1, <1>3, AdvanceOne
  <2>7. Claimed' = Claimed \cup {t} /\ t \notin Claimed
    BY <1>1, <2>6 DEF Claimed
  <2>8. \A u \in Claimed : u \in MailTasks /\ task'[u] = task[u] /\ task[u].log \in MailLogs \ {l}
    <3>1. elog[l].st # "pending"
      BY <1>3 DEF Written
    <3> QED BY <3>1, <1>1, <2>6, <2>7 DEF Claimed, TasksHold, MailTypes
  <2>9. MailTypes'
    <3>1. elog' \in [MailLogs -> LogRow \cup {NoLog}]
      BY <1>1, <2>3, <2>4
    <3> QED BY <3>1, <1>1, <2>6 DEF MailTypes
  <2>10. TasksHold'
    BY <1>1, <2>3, <2>5, <2>6, <2>7, <2>8 DEF TasksHold
  <2>11. RowsTell'
    BY <1>1, <2>3, <2>5 DEF RowsTell
  <2>12. ASSUME NEW k \in MailLogs, k # l, Written(k), elog[k].mail = s, s # TestMail
         PROVE  k \in row.rivals \/ elog'[k].st = "failed"
    <3>1. k \in LogsOf(s)
      BY <2>12 DEF LogsOf
    <3>2. elog[k].st # "sent"
      BY <3>1, <1>3, <2>12 DEF AlreadySent
    <3>3. elog[k] \in LogRow
      BY <1>1, <2>12 DEF Written, NoLog
    <3>4. elog[k].st \in {"pending", "failed"}
      BY <3>2, <3>3 DEF LogRow
    <3> QED BY <3>1, <3>4, <2>3, <2>5, <2>12 DEF Pending
  <2>13. RowsMeet'
    BY <1>1, <2>3, <2>5, <2>12 DEF RowsMeet, Written
  <2> QED BY <2>9, <2>10, <2>11, <2>13 DEF MailInv
<1> QED BY <1>2, <1>3 DEF Claim

(* The server takes the message or not, and the task records that.         *)
LEMMA DeliveryKeeps ==
  ASSUME MailInv, NEW t \in MailTasks, HandOver(t) \/ Record(t)
  PROVE  MailInv'
<1> DEFINE l == task[t].log
<1>1. /\ MailTypes /\ TasksHold /\ RowsTell /\ RowsMeet
      /\ elog \in [MailLogs -> LogRow \cup {NoLog}] /\ tmpl' = tmpl
      /\ t \in Claimed /\ l \in MailLogs /\ elog[l].st = "pending"
  BY DEF MailInv, MailTypes, HandOver, Record, Claimed, TasksHold
<1>2. elog[l] \in LogRow /\ Written(l)
  BY <1>1 DEF NoLog, Written
<1> DEFINE Moves(s, row) ==
      /\ Advance(t, s) /\ elog' = [elog EXCEPT ![l] = row]
      /\ row.mail = elog[l].mail /\ row.rivals = elog[l].rivals
      /\ \/ /\ s.step = "recording" /\ s.log = l /\ row.st = "pending"
            /\ s.raised <=> ~row.accepted
         \/ /\ s.step = "asleep" /\ row.st \in {"sent", "failed"}
            /\ row.st = "sent" <=> row.accepted
<1>3. PICK s : \E row \in LogRow : Moves(s, row)
  <2>1. CASE HandOver(t)
    <3>1. PICK accepted \in BOOLEAN :
            /\ elog' = [elog EXCEPT ![l].accepted = accepted]
            /\ Advance(t, [step |-> "recording", log |-> l, raised |-> ~accepted])
      BY <2>1 DEF HandOver
    <3> DEFINE row == [elog[l] EXCEPT !.accepted = accepted]
               s == [step |-> "recording", log |-> l, raised |-> ~accepted]
    <3>2. /\ row \in LogRow /\ row.st = "pending" /\ row.accepted = accepted
          /\ row.mail = elog[l].mail /\ row.rivals = elog[l].rivals
      BY <1>1, <1>2 DEF LogRow
    <3>3. elog' = [elog EXCEPT ![l] = row] /\ Advance(t, s)
      BY <1>1, <3>1
    <3>4. s.step = "recording" /\ s.log = l /\ s.raised = ~accepted
      OBVIOUS
    <3> HIDE DEF row, s
    <3>5. Moves(s, row)
      BY <3>2, <3>3, <3>4
    <3> QED BY <3>2, <3>5
  <2>2. CASE Record(t)
    <3> DEFINE row == [elog[l] EXCEPT !.st = Outcome(task[t].raised)]
    <3>1. task[t].raised <=> ~elog[l].accepted
      BY <1>1, <2>2 DEF Record, TasksHold
    <3>2. /\ row \in LogRow /\ row.st = Outcome(task[t].raised)
          /\ row.accepted = elog[l].accepted
          /\ row.mail = elog[l].mail /\ row.rivals = elog[l].rivals
      BY <1>2 DEF LogRow, Outcome
    <3>3. elog' = [elog EXCEPT ![l] = row] /\ Advance(t, Asleep)
      BY <1>1, <2>2 DEF Record
    <3>4. Asleep.step = "asleep"
      BY DEF Asleep
    <3> HIDE DEF row
    <3>5. Moves(Asleep, row)
      BY <3>1, <3>2, <3>3, <3>4 DEF Outcome
    <3> HIDE DEF Moves
    <3> QED BY <3>2, <3>5
  <2> QED BY <2>1, <2>2
<1> PICK row \in LogRow : Moves(s, row)
  BY <1>3
<1>4. elog'[l] = row /\ \A k \in MailLogs \ {l} : elog'[k] = elog[k]
  BY <1>1, <1>3
<1>5. /\ task'[t] = s /\ \A u \in MailTasks \ {t} : task'[u] = task[u]
      /\ task' = [u \in MailTasks |-> task'[u]]
  BY <1>1, <1>3, AdvanceOne
<1>6. /\ Claimed' \subseteq Claimed
      /\ \A u \in Claimed \ {t} : /\ u \in MailTasks /\ task'[u] = task[u]
                                  /\ task[u].log \in MailLogs \ {l}
  BY <1>1, <1>3, <1>5 DEF Claimed, TasksHold, MailTypes
<1>7. MailTypes'
  <2>1. elog' \in [MailLogs -> LogRow \cup {NoLog}]
    BY <1>1, <1>3
  <2> QED BY <2>1, <1>1, <1>3, <1>5 DEF MailTypes
<1>8. TasksHold'
  <2>1. t \in Claimed' => /\ s.step = "recording" /\ s.log = l /\ row.st = "pending"
                          /\ s.raised <=> ~row.accepted
    BY <1>3, <1>5 DEF Claimed
  <2>2. \A u \in Claimed' \ {t} : /\ u \in Claimed \ {t} /\ task'[u] = task[u]
                                  /\ task[u].log \in MailLogs \ {l}
    BY <1>6
  <2> QED BY <1>1, <1>4, <1>5, <2>1, <2>2 DEF TasksHold
<1>9. RowsTell'
  BY <1>1, <1>3, <1>4 DEF RowsTell
<1>10. RowsMeet'
  <2>1. \A k \in MailLogs : /\ Written(k)' <=> Written(k)
                            /\ elog'[k].mail = elog[k].mail /\ elog'[k].rivals = elog[k].rivals
                            /\ elog[k].st = "failed" => elog'[k].st = "failed"
    BY <1>1, <1>2, <1>3, <1>4 DEF Written
  <2> QED BY <1>1, <2>1 DEF RowsMeet
<1> QED BY <1>7, <1>8, <1>9, <1>10 DEF MailInv

(* Every step of the deliveries and of the organizer keeps it.             *)
LEMMA MailNextInv == MailInv /\ [MailNext]_mailVars => MailInv'
<1> SUFFICES ASSUME MailInv, [MailNext]_mailVars PROVE MailInv'
  OBVIOUS
<1>1. MailTypes /\ TasksHold /\ RowsTell /\ RowsMeet /\ tmpl \in [Locales -> TemplateStates]
  BY DEF MailInv, MailTypes
<1>2. ASSUME NEW t \in MailTasks, NEW s \in Mails, Start(t, s)
      PROVE  MailInv'
  BY <1>1, <1>2, TaskRests DEF Start
<1>3. ASSUME NEW t \in MailTasks, ReadAccount(t)
      PROVE  MailInv'
  <2>1. /\ task[t].mail \in Mails \cup {TestMail} /\ tmpl' = tmpl /\ elog' = elog
    BY <1>1, <1>3 DEF ReadAccount, MailTypes
  <2>2. CASE Advance(t, Asleep)
    BY <1>1, <2>1, <2>2, TaskRests DEF Asleep
  <2>3. ASSUME NEW l \in Locales,
               Advance(t, [step |-> "addressed", mail |-> task[t].mail, want |-> l])
        PROVE  MailInv'
    BY <1>1, <2>1, <2>3, TaskRests
  <2> QED BY <1>3, <2>2, <2>3 DEF ReadAccount
<1>4. ASSUME NEW t \in MailTasks, EnsureTemplate(t)
      PROVE  MailInv'
  <2>1. /\ task[t].step = "addressed" /\ task[t].mail \in Mails \cup {TestMail}
        /\ task[t].want \in Locales
        /\ elog' = elog /\ Advance(t, [task[t] EXCEPT !.step = "prepared"])
    BY <1>1, <1>4 DEF EnsureTemplate, MailTypes
  <2> DEFINE s == [task[t] EXCEPT !.step = "prepared"]
  <2>2. tmpl' \in [Locales -> TemplateStates]
    BY <1>1, <1>4, <2>1 DEF EnsureTemplate, TemplateStates
  <2>3. s.step = "prepared" /\ s.mail = task[t].mail /\ s.want = task[t].want
    BY <2>1
  <2> HIDE DEF s
  <2> QED BY <2>1, <2>2, <2>3, TaskRests DEF s
<1>5. ASSUME NEW t \in MailTasks, TestSend(t)
      PROVE  MailInv'
  BY <1>1, <1>5, TaskRests DEF TestSend
<1>6. CASE ProcessStops
  <2>1. task' = [t \in MailTasks |-> Asleep] /\ tmpl' = tmpl /\ elog' = elog
    BY <1>6 DEF ProcessStops
  <2>2. \A t \in MailTasks : task'[t].step = "asleep"
    BY <2>1 DEF Asleep
  <2>3. Claimed' = {}
    BY <2>2 DEF Claimed
  <2>4. MailTypes'
    BY <1>1, <2>1, <2>2 DEF MailTypes
  <2> QED BY <1>1, <2>1, <2>3, <2>4 DEF MailInv, TasksHold, RowsTell, RowsMeet, Written
<1>7. CASE UNCHANGED <<elog, task>> /\ tmpl' \in [Locales -> TemplateStates]
  BY <1>1, <1>7 DEF MailInv, MailTypes, TasksHold, RowsTell, RowsMeet, Written, Claimed
<1>8. ASSUME NEW l \in Locales, UpdateTemplate(l) \/ UpdatePreference(l)
      PROVE  MailInv'
  <2>1. tmpl' \in [Locales -> TemplateStates]
    BY <1>1, <1>8 DEF UpdateTemplate, UpdatePreference, TemplateStates
  <2> QED BY <1>7, <1>8, <2>1 DEF UpdateTemplate, UpdatePreference
<1>9. CASE UNCHANGED mailVars
  BY <1>1, <1>7, <1>9 DEF mailVars
<1> QED BY <1>2, <1>3, <1>4, <1>5, <1>6, <1>8, <1>9, ClaimKeeps, DeliveryKeeps DEF MailNext

(* A recipient is sent two messages about one subject only by deliveries   *)
(* that were under way together (deliver_to_user and _send_logged_email).  *)
THEOREM RepetitionsOverlap == MailSpec => []RepetitionNeedsOverlap
<1>1. MailInit => MailInv
  <2> SUFFICES ASSUME MailInit PROVE MailInv
    OBVIOUS
  <2>1. /\ \A l \in MailLogs : elog[l] = NoLog
        /\ \A t \in MailTasks : task[t].step = "asleep"
    BY DEF MailInit, Asleep
  <2>2. Claimed = {} /\ \A l \in MailLogs : ~Written(l) /\ elog[l].st = "absent"
    BY <2>1 DEF Claimed, Written, NoLog
  <2>3. MailTypes
    BY <2>1 DEF MailInit, MailTypes, TemplateStates, Asleep
  <2> QED BY <2>2, <2>3 DEF MailInv, TasksHold, RowsTell, RowsMeet
<1>2. MailInv => RepetitionNeedsOverlap
  BY DEF MailInv, RowsTell, RowsMeet, RepetitionNeedsOverlap
<1> QED BY <1>1, <1>2, MailNextInv, PTL DEF MailSpec

-----------------------------------------------------------------------------
(***************************************************************************)
(* Webhook capture. The table of events holds what some capture applied.   *)
(***************************************************************************)

CaptureRow ==
  [st : {"absent", "received", "processed", "failed"},
   at : {"idle", "captured", "parsed", "handled", "failing"},
   by : Providers, ev : Events \cup {NoEvent}, applied : BOOLEAN]

(* The table of events holds what some capture has applied, and no two     *)
(* captures have applied the same.                                         *)
InboxInv ==
  /\ cap \in [Captures -> CaptureRow]
  /\ \A c \in Captures : cap[c].at # "idle" \/ cap[c].applied => cap[c].st # "absent"
  /\ \A e \in Events :
       e \in seen <=> \E c \in Captures : cap[c].ev = e /\ cap[c].applied
  /\ \A c, d \in Captures :
       /\ cap[c].applied /\ cap[d].applied
       /\ cap[c].ev = cap[d].ev /\ cap[c].ev \in Events
       => c = d

(* Steps that neither apply an event nor reuse a row.                      *)
LEMMA InboxQuiet ==
  ASSUME InboxInv, seen' = seen, cap' \in [Captures -> CaptureRow],
         \A c \in Captures : /\ cap'[c].applied = cap[c].applied
                             /\ cap'[c].applied => cap'[c].ev = cap[c].ev
                             /\ cap'[c].at # "idle" \/ cap'[c].applied => cap'[c].st # "absent"
  PROVE  InboxInv'
BY DEF InboxInv

(* The steps of a request, the crash, and the one that applies an event.   *)
LEMMA InboxNextInv == InboxInv /\ [InboxNext]_inboxVars => InboxInv'
<1> SUFFICES ASSUME InboxInv, [InboxNext]_inboxVars PROVE InboxInv'
  OBVIOUS
<1>1. /\ cap \in [Captures -> CaptureRow]
      /\ \A c \in Captures : cap[c].at # "idle" \/ cap[c].applied => cap[c].st # "absent"
  BY DEF InboxInv
<1>2. ASSUME NEW c \in Captures, NEW row \in CaptureRow, cap' = [cap EXCEPT ![c] = row],
             seen' = seen, row.applied = cap[c].applied, row.applied => row.ev = cap[c].ev,
             row.st # "absent"
      PROVE  InboxInv'
  <2>1. cap'[c] = row /\ \A d \in Captures \ {c} : cap'[d] = cap[d]
    BY <1>1, <1>2
  <2>2. cap' \in [Captures -> CaptureRow]
    BY <1>1, <1>2
  <2>3. \A d \in Captures : /\ cap'[d].applied = cap[d].applied
                            /\ cap'[d].applied => cap'[d].ev = cap[d].ev
                            /\ cap'[d].at # "idle" \/ cap'[d].applied => cap'[d].st # "absent"
    BY <1>1, <1>2, <2>1
  <2> QED BY <1>2, <2>2, <2>3, InboxQuiet
<1>3. ASSUME NEW c \in Captures, Capture(c)
      PROVE  InboxInv'
  <2>1. PICK by \in Providers, e \in Events \cup {NoEvent} :
          cap' = [cap EXCEPT ![c] = [st |-> "received", at |-> "captured", by |-> by, ev |-> e,
                                     applied |-> FALSE]]
    BY <1>3 DEF Capture
  <2> DEFINE row == [st |-> "received", at |-> "captured", by |-> by, ev |-> e, applied |-> FALSE]
  <2>2. row \in CaptureRow /\ row.st = "received" /\ row.applied = FALSE
    BY DEF CaptureRow
  <2>3. cap[c].applied = FALSE /\ seen' = seen
    BY <1>1, <1>3 DEF Capture, CaptureRow
  <2> HIDE DEF row
  <2> QED BY <2>2, <2>3, <1>2, <2>1 DEF row
<1>4. ASSUME NEW c \in Captures, NEW at \in {"parsed", "handled", "failing", "idle"},
             NEW st \in {"processed", "failed", cap[c].st},
             cap[c].at # "idle", seen' = seen,
             cap' = [cap EXCEPT ![c] = [cap[c] EXCEPT !.st = st, !.at = at]]
      PROVE  InboxInv'
  <2> DEFINE row == [cap[c] EXCEPT !.st = st, !.at = at]
  <2>1. cap[c] \in CaptureRow /\ cap[c].st # "absent"
    BY <1>1, <1>4
  <2>2. /\ row \in CaptureRow /\ row.st # "absent"
        /\ row.applied = cap[c].applied /\ row.ev = cap[c].ev
    BY <2>1 DEF CaptureRow
  <2> HIDE DEF row
  <2> QED BY <2>2, <1>2, <1>4 DEF row
<1>5. ASSUME NEW c \in Captures,
             \/ Parse(c) \/ Skip(c) \/ Recurring(c) \/ AccountLinking(c) \/ Refuse(c)
             \/ Mark(c) \/ Fail(c)
      PROVE  InboxInv'
  <2>1. cap[c] \in CaptureRow
    BY <1>1
  <2>2. \E at \in {"parsed", "handled", "failing", "idle"} :
          \E st \in {"processed", "failed", cap[c].st} :
            cap' = [cap EXCEPT ![c] = [cap[c] EXCEPT !.st = st, !.at = at]]
    <3>1. /\ \A at : [cap EXCEPT ![c].at = at]
                     = [cap EXCEPT ![c] = [cap[c] EXCEPT !.st = cap[c].st, !.at = at]]
          /\ \A st : [cap EXCEPT ![c].st = st, ![c].at = "idle"]
                     = [cap EXCEPT ![c] = [cap[c] EXCEPT !.st = st, !.at = "idle"]]
      BY <1>1, <2>1 DEF CaptureRow
    <3>2. CASE Parse(c)
      BY <3>1, <3>2 DEF Parse
    <3>3. CASE Skip(c)
      BY <3>1, <3>3 DEF Skip
    <3>4. CASE Recurring(c) \/ AccountLinking(c)
      BY <3>1, <3>4 DEF Recurring, AccountLinking, Acknowledge
    <3>5. CASE Refuse(c)
      BY <3>1, <3>5 DEF Refuse
    <3>6. CASE Mark(c)
      BY <3>1, <3>6 DEF Mark
    <3>7. CASE Fail(c)
      BY <3>1, <3>7 DEF Fail
    <3> QED BY <1>5, <3>2, <3>3, <3>4, <3>5, <3>6, <3>7
  <2>3. cap[c].at # "idle" /\ seen' = seen
    BY <1>5 DEF Parse, Skip, Recurring, AccountLinking, Acknowledge, Refuse, Mark, Fail
  <2> QED BY <2>2, <2>3, <1>4
<1>6. ASSUME NEW c \in Captures, Handle(c)
      PROVE  InboxInv'
  <2>1. /\ cap[c].at = "parsed" /\ cap[c].ev \notin seen
        /\ seen' = seen \cup {cap[c].ev}
        /\ cap' = [cap EXCEPT ![c].at = "handled", ![c].applied = TRUE]
    BY <1>6 DEF Handle, Repeated
  <2>2. /\ cap'[c].applied /\ cap'[c].ev = cap[c].ev /\ cap'[c].st = cap[c].st
        /\ cap'[c] \in CaptureRow
        /\ \A d \in Captures \ {c} : cap'[d] = cap[d]
    BY <1>1, <2>1 DEF CaptureRow
  <2>3. cap' \in [Captures -> CaptureRow]
    BY <1>1, <2>1, <2>2
  <2>4. \A d \in Captures : cap[d].applied /\ cap[d].ev = cap[c].ev => cap[c].ev \notin Events
    BY <2>1 DEF InboxInv
  <2>5. \A d \in Captures : cap'[d].at # "idle" \/ cap'[d].applied => cap'[d].st # "absent"
    BY <1>1, <2>1, <2>2
  <2>6. ASSUME NEW e \in Events
        PROVE  e \in seen' <=> \E d \in Captures : cap'[d].ev = e /\ cap'[d].applied
    <3>1. CASE e = cap[c].ev
      BY <3>1, <2>1, <2>2
    <3>2. CASE e # cap[c].ev
      <4>1. \A d \in Captures : cap'[d].ev = e /\ cap'[d].applied <=>
                                cap[d].ev = e /\ cap[d].applied
        BY <3>2, <2>2
      <4> QED BY <3>2, <4>1, <2>1 DEF InboxInv
    <3> QED BY <3>1, <3>2
  <2>7. \A x, y \in Captures :
          /\ cap'[x].applied /\ cap'[y].applied
          /\ cap'[x].ev = cap'[y].ev /\ cap'[x].ev \in Events
          => x = y
    BY <2>2, <2>4 DEF InboxInv
  <2> QED BY <2>3, <2>5, <2>6, <2>7 DEF InboxInv
<1>7. CASE InboxStops
  <2>1. cap' = [c \in Captures |-> [cap[c] EXCEPT !.at = "idle"]] /\ seen' = seen
    BY <1>7 DEF InboxStops
  <2>2. \A c \in Captures : /\ cap'[c] \in CaptureRow
                            /\ cap'[c].applied = cap[c].applied /\ cap'[c].ev = cap[c].ev
                            /\ cap'[c].at = "idle" /\ cap'[c].st = cap[c].st
    BY <1>1, <2>1 DEF CaptureRow
  <2>3. cap' \in [Captures -> CaptureRow]
    BY <2>1, <2>2
  <2> QED BY <1>1, <2>1, <2>2, <2>3, InboxQuiet
<1>8. CASE UNCHANGED inboxVars
  BY <1>8 DEF inboxVars, InboxInv
<1> QED BY <1>3, <1>5, <1>6, <1>7, <1>8 DEF InboxNext

(* A set with exactly one element, and one with none.                      *)
LEMMA AppliedCount ==
  ASSUME InboxInv, NEW e \in Events
  PROVE  Cardinality({c \in Captures : cap[c].ev = e /\ cap[c].applied})
           = IF e \in seen THEN 1 ELSE 0
<1> DEFINE S == {c \in Captures : cap[c].ev = e /\ cap[c].applied}
<1>1. CASE e \in seen
  <2>1. PICK c \in Captures : cap[c].ev = e /\ cap[c].applied
    BY <1>1 DEF InboxInv
  <2>2. S = {c}
    BY <2>1 DEF InboxInv
  <2> QED BY <1>1, <2>2, FS_Singleton
<1>2. CASE e \notin seen
  <2>1. S = {}
    BY <1>2 DEF InboxInv
  <2> QED BY <1>2, <2>1, FS_EmptySet
<1> QED BY <1>1, <1>2

(* An event of Midtrans changes the ledger once, through any number of     *)
(* repetitions, refusals and crashes (_process_captured_webhook).          *)
THEOREM EventsApplyOnce == InboxSpec => []EventAppliedOnce
<1>1. InboxInit => InboxInv
  <2> SUFFICES ASSUME InboxInit PROVE InboxInv
    OBVIOUS
  <2>1. \A c \in Captures : cap[c] = NoCapture
    BY DEF InboxInit
  <2>2. NoCapture \in CaptureRow /\ NoCapture.applied = FALSE /\ NoCapture.at = "idle"
    BY DEF NoCapture, CaptureRow, Providers
  <2> QED BY <2>1, <2>2 DEF InboxInit, InboxInv
<1>2. InboxInv => EventAppliedOnce
  BY AppliedCount DEF EventAppliedOnce
<1> QED BY <1>1, <1>2, InboxNextInv, PTL DEF InboxSpec

-----------------------------------------------------------------------------
(***************************************************************************)
(* Accounts. Before a token is inserted the others are revoked, or seen; a *)
(* reset holds its token, and those it revokes, unused until it commits.   *)
(***************************************************************************)

TokenRow == [st : {"absent", "unused", "used"}, lapsed : BOOLEAN, rivals : SUBSET Tokens]

Resets == {q \in AccountRequests : handler[q].step \in {"revoke", "commit"}}

AccountTypes ==
  /\ token \in [Tokens -> TokenRow]
  /\ handler = [q \in AccountRequests |-> handler[q]]
  /\ \A q \in AccountRequests :
       /\ handler[q].step \in {"resting", "register", "change", "insert", "lock", "revoke", "commit"}
       /\ handler[q].step = "insert" =>
            handler[q].token \in Tokens /\ handler[q].rivals \subseteq Tokens
       /\ handler[q].step \in {"lock", "revoke", "commit"} => handler[q].token \in Tokens

(* A reset holds its token, unused, until it commits.                      *)
ResetsHold ==
  /\ \A q \in Resets : token[handler[q].token].st = "unused"
  /\ \A q, r \in Resets : handler[q].token = handler[r].token => q = r
  /\ \A q \in Resets : handler[q].step = "commit" => handler[q].token \in handler[q].old

(* A request for a token inserts a row of its own, ...                     *)
InsertsApart ==
  /\ \A q \in Requesting : token[handler[q].token].st = "absent"
  /\ \A q, r \in Requesting : q = r \/ handler[q].token # handler[r].token

(* ... and has seen every other token, or overlaps with its request.       *)
Overlaps ==
  /\ \A q \in Requesting : \A u \in UnusedTokens :
       \/ u \in handler[q].old \cup handler[q].rivals
       \/ handler[q].token \in token[u].rivals
  /\ \A q, r \in Requesting :
       \/ q = r \/ handler[q].token \in handler[r].rivals
       \/ handler[r].token \in handler[q].rivals

TokenInv ==
  /\ AccountTypes
  /\ ResetsHold
  /\ InsertsApart
  /\ Overlaps
  /\ TokensOverlap

AccountRow == [pw : {Nobody, "registration", "change"} \cup Tokens, verified : BOOLEAN]

AccountInv == TokenInv /\ account \in AccountRow

-----------------------------------------------------------------------------
(* A handler takes a step, and the others stay where they are.             *)
LEMMA TurnOne ==
  ASSUME AccountTypes, NEW q \in AccountRequests, NEW s, Turn(q, s)
  PROVE  /\ handler'[q] = s /\ \A r \in AccountRequests \ {q} : handler'[r] = handler[r]
         /\ handler' = [r \in AccountRequests |-> handler'[r]]
BY DEF AccountTypes, Turn

(* Steps at which a handler holds nothing afterwards and no token changes. *)
LEMMA HandlerRests ==
  ASSUME TokenInv, NEW q \in AccountRequests, NEW s, Turn(q, s), token' = token,
         s.step \in {"resting", "register", "change", "lock"},
         s.step = "lock" => s.token \in Tokens
  PROVE  TokenInv'
<1>1. /\ AccountTypes /\ ResetsHold /\ InsertsApart /\ Overlaps /\ TokensOverlap
      /\ token \in [Tokens -> TokenRow]
  BY DEF TokenInv, AccountTypes
<1>2. /\ handler'[q] = s /\ \A r \in AccountRequests \ {q} : handler'[r] = handler[r]
      /\ handler' = [r \in AccountRequests |-> handler'[r]]
  BY <1>1, TurnOne
<1>3. /\ Requesting' \subseteq Requesting \ {q} /\ Resets' \subseteq Resets \ {q}
      /\ UnusedTokens' = UnusedTokens
  BY <1>2 DEF Requesting, Resets, UnusedTokens
<1>4. \A r \in Requesting' \cup Resets' : r \in AccountRequests /\ handler'[r] = handler[r]
  BY <1>2, <1>3 DEF Requesting, Resets
<1>5. AccountTypes'
  BY <1>1, <1>2 DEF AccountTypes
<1>6. ResetsHold'
  BY <1>1, <1>3, <1>4 DEF ResetsHold
<1>7. InsertsApart'
  BY <1>1, <1>3, <1>4 DEF InsertsApart
<1>8. Overlaps'
  BY <1>1, <1>3, <1>4 DEF Overlaps
<1>9. TokensOverlap'
  BY <1>1, <1>3 DEF TokensOverlap
<1> QED BY <1>5, <1>6, <1>7, <1>8, <1>9 DEF TokenInv

(* A reset locks its token when it is unused and nobody else has it, and   *)
(* sees it among those it revokes.                                         *)
LEMMA ResetHolds ==
  ASSUME TokenInv, NEW q \in AccountRequests, ResetLock(q) \/ ResetUpdate(q)
  PROVE  TokenInv'
<1>1. /\ AccountTypes /\ ResetsHold /\ InsertsApart /\ Overlaps /\ TokensOverlap
      /\ token \in [Tokens -> TokenRow] /\ token' = token
  BY DEF TokenInv, AccountTypes, ResetLock, ResetUpdate
<1> DEFINE t == handler[q].token
<1>2. PICK s : /\ Turn(q, s) /\ s.token = t
               /\ \/ s.step = "revoke"
                  \/ s.step = "commit" /\ s.old = UnusedTokens
  BY DEF ResetLock, ResetUpdate
<1>3. /\ handler'[q] = s /\ \A r \in AccountRequests \ {q} : handler'[r] = handler[r]
      /\ handler' = [r \in AccountRequests |-> handler'[r]]
  BY <1>1, <1>2, TurnOne
<1>4. /\ t \in Tokens /\ token[t].st = "unused"
      /\ \A r \in Resets \ {q} : handler[r].token # t
  <2>1. CASE ResetLock(q)
    BY <2>1, <1>1 DEF ResetLock, LockToken, Locked, Resets, AccountTypes
  <2>2. CASE ResetUpdate(q)
    <3>1. q \in Resets
      BY <2>2 DEF ResetUpdate, Resets
    <3> QED BY <3>1, <1>1 DEF ResetsHold, AccountTypes, Resets
  <2> QED BY <2>1, <2>2
<1>5. /\ Requesting' \subseteq Requesting \ {q} /\ Resets' \subseteq Resets \cup {q}
      /\ UnusedTokens' = UnusedTokens
  BY <1>1, <1>2, <1>3 DEF Requesting, Resets, UnusedTokens
<1>6. \A r \in Requesting' \cup (Resets' \ {q}) : r \in AccountRequests /\ handler'[r] = handler[r]
  BY <1>3, <1>5 DEF Requesting, Resets
<1>7. AccountTypes'
  BY <1>1, <1>2, <1>3, <1>4 DEF AccountTypes
<1>8. ResetsHold'
  <2>1. \A r \in Resets' : token'[handler'[r].token].st = "unused"
    BY <1>1, <1>2, <1>3, <1>4, <1>5, <1>6 DEF ResetsHold
  <2>2. \A r, x \in Resets' : handler'[r].token = handler'[x].token => r = x
    BY <1>1, <1>2, <1>3, <1>4, <1>5, <1>6 DEF ResetsHold
  <2>3. t \in UnusedTokens
    BY <1>4 DEF UnusedTokens
  <2>4. \A r \in Resets' : handler'[r].step = "commit" => handler'[r].token \in handler'[r].old
    BY <1>1, <1>2, <1>3, <1>5, <1>6, <2>3 DEF ResetsHold
  <2> QED BY <2>1, <2>2, <2>4 DEF ResetsHold
<1>9. InsertsApart'
  BY <1>1, <1>5, <1>6 DEF InsertsApart
<1>10. Overlaps'
  BY <1>1, <1>5, <1>6 DEF Overlaps
<1>11. TokensOverlap'
  BY <1>1, <1>5 DEF TokensOverlap
<1> QED BY <1>7, <1>8, <1>9, <1>10, <1>11 DEF TokenInv

(* A request takes a token nobody inserts, and sees all that is unused.    *)
LEMMA ForgotUpdateKeeps ==
  ASSUME TokenInv, NEW q \in AccountRequests, ForgotUpdate(q)
  PROVE  TokenInv'
<1>1. /\ AccountTypes /\ ResetsHold /\ InsertsApart /\ Overlaps /\ TokensOverlap
      /\ token' = token /\ handler[q].step = "resting"
  BY DEF TokenInv, ForgotUpdate, Resting
<1>2. PICK t \in Tokens \ Inserting :
        /\ token[t].st = "absent"
        /\ Turn(q, [step |-> "insert", token |-> t, old |-> UnusedTokens, rivals |-> Inserting])
  BY DEF ForgotUpdate
<1>3. /\ handler'[q].step = "insert" /\ handler'[q].token = t
      /\ handler'[q].old = UnusedTokens /\ handler'[q].rivals = Inserting
      /\ \A r \in AccountRequests \ {q} : handler'[r] = handler[r]
      /\ handler' = [r \in AccountRequests |-> handler'[r]]
  BY <1>1, <1>2, TurnOne
<1>4. /\ Requesting' = Requesting \cup {q} /\ Resets' = Resets
      /\ q \notin Requesting /\ q \notin Resets
      /\ UnusedTokens' = UnusedTokens
  BY <1>1, <1>3 DEF Requesting, Resets, UnusedTokens
<1>5. \A r \in Requesting \cup Resets : r \in AccountRequests /\ handler'[r] = handler[r]
  BY <1>3, <1>4 DEF Requesting, Resets
<1>6. \A r \in Requesting : handler[r].token \in Inserting /\ handler[r].token # t
  BY <1>2 DEF Inserting
<1>7. AccountTypes'
  <2>1. Inserting \subseteq Tokens
    BY <1>1 DEF Inserting, Requesting, AccountTypes
  <2> QED BY <1>1, <1>3, <2>1 DEF AccountTypes
<1>8. ResetsHold'
  BY <1>1, <1>4, <1>5 DEF ResetsHold
<1>9. InsertsApart'
  BY <1>1, <1>2, <1>3, <1>4, <1>5, <1>6 DEF InsertsApart
<1>10. Overlaps'
  <2>1. ASSUME NEW r \in Requesting', NEW u \in UnusedTokens'
        PROVE  \/ u \in handler'[r].old \cup handler'[r].rivals
               \/ handler'[r].token \in token'[u].rivals
    BY <1>1, <1>3, <1>4, <1>5 DEF Overlaps
  <2>2. ASSUME NEW r \in Requesting', NEW x \in Requesting', r # x
        PROVE  \/ handler'[r].token \in handler'[x].rivals
               \/ handler'[x].token \in handler'[r].rivals
    BY <2>2, <1>1, <1>3, <1>4, <1>5, <1>6 DEF Overlaps
  <2> QED BY <2>1, <2>2 DEF Overlaps
<1>11. TokensOverlap'
  BY <1>1, <1>4 DEF TokensOverlap
<1> QED BY <1>7, <1>8, <1>9, <1>10, <1>11 DEF TokenInv

(* It inserts its token, and revokes those it has seen.                    *)
LEMMA ForgotCommitKeeps ==
  ASSUME TokenInv, NEW q \in AccountRequests, ForgotCommit(q)
  PROVE  TokenInv'
<1> DEFINE t == handler[q].token
           row == [st |-> "unused", lapsed |-> FALSE, rivals |-> handler[q].rivals]
<1>1. /\ AccountTypes /\ ResetsHold /\ InsertsApart /\ Overlaps /\ TokensOverlap
      /\ token \in [Tokens -> TokenRow]
      /\ handler[q].step = "insert" /\ t \in Tokens /\ handler[q].rivals \subseteq Tokens
  BY DEF TokenInv, ForgotCommit, AccountTypes
<1>2. /\ token' = AfterForgot(token, handler[q].old, t, row)
      /\ handler[q].old \cap Locked(q) = {} /\ Turn(q, Resting)
  BY DEF ForgotCommit
<1>3. /\ handler'[q].step = "resting"
      /\ \A r \in AccountRequests \ {q} : handler'[r] = handler[r]
      /\ handler' = [r \in AccountRequests |-> handler'[r]]
  BY <1>1, <1>2, TurnOne DEF Resting
<1>4. q \in Requesting /\ Requesting' = Requesting \ {q} /\ Resets' = Resets /\ q \notin Resets
  BY <1>1, <1>3 DEF Requesting, Resets
<1>5. \A r \in Requesting' \cup Resets' : r \in AccountRequests \ {q} /\ handler'[r] = handler[r]
  BY <1>3, <1>4 DEF Requesting, Resets
<1>6. row \in TokenRow /\ row.st = "unused" /\ row.rivals = handler[q].rivals
  BY <1>1 DEF TokenRow
<1> HIDE DEF row
<1>7. /\ token'[t] = row
      /\ \A u \in Tokens \ {t} :
           /\ token'[u].rivals = token[u].rivals /\ token'[u] \in TokenRow
           /\ token'[u].st = Revoke(u, token, handler[q].old)
  BY <1>1, <1>2 DEF AfterForgot, TokenRow, Revoke
<1>8. token' \in [Tokens -> TokenRow]
  <2>1. token' = [u \in Tokens |-> token'[u]]
    BY <1>2 DEF AfterForgot
  <2> QED BY <2>1, <1>6, <1>7
<1>9. \A u \in UnusedTokens' : u \in Tokens /\ (u = t \/ u \in UnusedTokens \ handler[q].old)
  BY <1>7 DEF UnusedTokens, Revoke
<1>10. AccountTypes'
  BY <1>1, <1>3, <1>8 DEF AccountTypes
<1>11. ResetsHold'
  <2>1. \A r \in Resets : handler[r].token \in Locked(q)
    BY <1>4 DEF Locked, Resets
  <2>2. \A r \in Resets : /\ handler[r].token \in Tokens /\ token[handler[r].token].st = "unused"
                          /\ handler[r].token \notin handler[q].old
    BY <1>1, <1>2, <2>1 DEF ResetsHold, Resets, AccountTypes
  <2>3. token[t].st = "absent"
    BY <1>1, <1>4 DEF InsertsApart
  <2>4. \A r \in Resets : token'[handler[r].token].st = "unused"
    BY <1>7, <2>2, <2>3 DEF Revoke
  <2> QED BY <1>1, <1>4, <1>5, <2>4 DEF ResetsHold
<1>12. InsertsApart'
  <2>1. \A r \in Requesting' : /\ handler[r].token \in Tokens \ {t}
                               /\ token[handler[r].token].st = "absent"
    BY <1>1, <1>4 DEF InsertsApart, Requesting, AccountTypes
  <2>2. \A r \in Requesting' : token'[handler'[r].token].st = "absent"
    BY <1>5, <1>7, <2>1 DEF Revoke
  <2> QED BY <1>1, <1>4, <1>5, <2>2 DEF InsertsApart
<1>13. Overlaps'
  <2>1. ASSUME NEW r \in Requesting', NEW u \in UnusedTokens'
        PROVE  \/ u \in handler'[r].old \cup handler'[r].rivals
               \/ handler'[r].token \in token'[u].rivals
    <3>1. CASE u = t
      BY <3>1, <1>1, <1>4, <1>5, <1>6, <1>7 DEF Overlaps
    <3>2. CASE u # t
      BY <3>2, <1>1, <1>4, <1>5, <1>7, <1>9 DEF Overlaps
    <3> QED BY <3>1, <3>2
  <2>2. \A r, x \in Requesting' :
          \/ r = x \/ handler'[r].token \in handler'[x].rivals
          \/ handler'[x].token \in handler'[r].rivals
    BY <1>1, <1>4, <1>5 DEF Overlaps
  <2> QED BY <2>1, <2>2 DEF Overlaps
<1>14. TokensOverlap'
  <2>1. ASSUME NEW u \in UnusedTokens', u # t
        PROVE  u \in token'[t].rivals \/ t \in token'[u].rivals
    BY <2>1, <1>1, <1>4, <1>6, <1>7, <1>9 DEF Overlaps
  <2>2. ASSUME NEW u \in UnusedTokens', NEW v \in UnusedTokens', u # t, v # t, u # v
        PROVE  u \in token'[v].rivals \/ v \in token'[u].rivals
    BY <2>2, <1>1, <1>7, <1>9 DEF TokensOverlap
  <2> QED BY <2>1, <2>2 DEF TokensOverlap
<1> QED BY <1>10, <1>11, <1>12, <1>13, <1>14 DEF TokenInv

(* A reset uses its token up, and revokes those it has seen.               *)
LEMMA ResetCommitKeeps ==
  ASSUME TokenInv, NEW q \in AccountRequests, ResetCommit(q)
  PROVE  TokenInv'
<1> DEFINE t == handler[q].token
<1>1. /\ AccountTypes /\ ResetsHold /\ InsertsApart /\ Overlaps /\ TokensOverlap
      /\ token \in [Tokens -> TokenRow]
      /\ handler[q].step = "commit" /\ t \in Tokens
  BY DEF TokenInv, ResetCommit, AccountTypes
<1>2. /\ token' = [u \in Tokens |-> [token[u] EXCEPT !.st = Revoke(u, token, handler[q].old)]]
      /\ handler[q].old \cap Locked(q) \subseteq {t} /\ Turn(q, Resting)
  BY DEF ResetCommit
<1>3. /\ handler'[q].step = "resting"
      /\ \A r \in AccountRequests \ {q} : handler'[r] = handler[r]
      /\ handler' = [r \in AccountRequests |-> handler'[r]]
  BY <1>1, <1>2, TurnOne DEF Resting
<1>4. q \in Resets /\ Requesting' = Requesting /\ Resets' = Resets \ {q} /\ q \notin Requesting
  BY <1>1, <1>3 DEF Requesting, Resets
<1>5. \A r \in Requesting' \cup Resets' : r \in AccountRequests \ {q} /\ handler'[r] = handler[r]
  BY <1>3, <1>4 DEF Requesting, Resets
<1>6. \A u \in Tokens :
        /\ token'[u].rivals = token[u].rivals /\ token'[u] \in TokenRow
        /\ token'[u].st = Revoke(u, token, handler[q].old)
  BY <1>1, <1>2 DEF TokenRow, Revoke
<1>7. token' \in [Tokens -> TokenRow]
  BY <1>2, <1>6
<1>8. UnusedTokens' \subseteq UnusedTokens
  BY <1>6 DEF UnusedTokens, Revoke
<1>9. AccountTypes'
  BY <1>1, <1>3, <1>7 DEF AccountTypes
<1>10. ResetsHold'
  <2>1. \A r \in Resets \ {q} : handler[r].token \in Locked(q)
    BY DEF Locked, Resets
  <2>2. \A r \in Resets \ {q} :
          /\ handler[r].token \in Tokens /\ token[handler[r].token].st = "unused"
          /\ handler[r].token \notin handler[q].old
    BY <1>1, <1>2, <1>4, <2>1 DEF ResetsHold, Resets, AccountTypes
  <2>3. \A r \in Resets' : token'[handler'[r].token].st = "unused"
    BY <1>4, <1>5, <1>6, <2>2 DEF Revoke
  <2> QED BY <1>1, <1>4, <1>5, <2>3 DEF ResetsHold
<1>11. InsertsApart'
  <2>1. \A r \in Requesting : handler[r].token \in Tokens /\ token[handler[r].token].st = "absent"
    BY <1>1 DEF InsertsApart, Requesting, AccountTypes
  <2>2. \A r \in Requesting : token'[handler[r].token].st = "absent"
    BY <1>6, <2>1 DEF Revoke
  <2> QED BY <1>1, <1>4, <1>5, <2>2 DEF InsertsApart
<1>12. \A u \in UnusedTokens' : token'[u].rivals = token[u].rivals
  BY <1>6 DEF UnusedTokens
<1>13. Overlaps'
  BY <1>1, <1>4, <1>5, <1>8, <1>12 DEF Overlaps
<1>14. TokensOverlap'
  BY <1>1, <1>8, <1>12 DEF TokensOverlap
<1> QED BY <1>9, <1>10, <1>11, <1>13, <1>14 DEF TokenInv

(* A token that lapses is as unused as before.                             *)
LEMMA LapseKeeps ==
  ASSUME TokenInv, NEW t \in Tokens, TokenLapses(t)
  PROVE  TokenInv'
<1>1. /\ AccountTypes /\ ResetsHold /\ InsertsApart /\ Overlaps /\ TokensOverlap
      /\ token \in [Tokens -> TokenRow] /\ handler' = handler
      /\ token' = [token EXCEPT ![t].lapsed = TRUE]
  BY DEF TokenInv, AccountTypes, TokenLapses
<1>2. /\ token' \in [Tokens -> TokenRow]
      /\ \A u \in Tokens : token'[u].st = token[u].st /\ token'[u].rivals = token[u].rivals
  <2>1. token' = [token EXCEPT ![t] = [token[t] EXCEPT !.lapsed = TRUE]]
    BY <1>1
  <2>2. /\ [token[t] EXCEPT !.lapsed = TRUE] \in TokenRow
        /\ [token[t] EXCEPT !.lapsed = TRUE].st = token[t].st
        /\ [token[t] EXCEPT !.lapsed = TRUE].rivals = token[t].rivals
    BY <1>1 DEF TokenRow
  <2> QED BY <1>1, <2>1, <2>2
<1>3. /\ Requesting' = Requesting /\ Resets' = Resets /\ UnusedTokens' = UnusedTokens
      /\ \A u \in UnusedTokens : u \in Tokens
      /\ \A q \in Requesting \cup Resets : handler[q].token \in Tokens
  BY <1>1, <1>2 DEF Requesting, Resets, UnusedTokens, AccountTypes
<1>4. AccountTypes'
  BY <1>1, <1>2 DEF AccountTypes
<1>5. ResetsHold' /\ InsertsApart'
  BY <1>1, <1>2, <1>3 DEF ResetsHold, InsertsApart
<1>6. Overlaps' /\ TokensOverlap'
  BY <1>1, <1>2, <1>3 DEF Overlaps, TokensOverlap
<1> QED BY <1>4, <1>5, <1>6 DEF TokenInv

(* No token has been asked for yet.                                        *)
LEMMA TokenInitInv == AccountInit => TokenInv
<1> SUFFICES ASSUME AccountInit PROVE TokenInv
  OBVIOUS
<1>1. token = [t \in Tokens |-> NoToken] /\ handler = [q \in AccountRequests |-> Resting]
  BY DEF AccountInit
<1>2. NoToken \in TokenRow /\ NoToken.st = "absent" /\ Resting.step = "resting"
  BY DEF NoToken, TokenRow, Resting
<1>3. UnusedTokens = {} /\ Requesting = {} /\ Resets = {}
  BY <1>1, <1>2 DEF UnusedTokens, Requesting, Resets
<1>4. AccountTypes
  BY <1>1, <1>2 DEF AccountTypes
<1> QED BY <1>3, <1>4 DEF TokenInv, ResetsHold, InsertsApart, Overlaps, TokensOverlap

(* Every step of the account keeps it.                                     *)
LEMMA TokenNextInv == TokenInv /\ [AccountNext]_accountVars => TokenInv'
<1> SUFFICES ASSUME TokenInv, [AccountNext]_accountVars PROVE TokenInv'
  OBVIOUS
<1>1. CASE UNCHANGED <<token, handler>>
  BY <1>1 DEF TokenInv, AccountTypes, ResetsHold, InsertsApart, Overlaps, TokensOverlap,
              Requesting, Resets, UnusedTokens
<1>2. ASSUME NEW q \in AccountRequests,
             \/ RegisterLook(q) \/ RegisterCommit(q) \/ ChangeLook(q) \/ ChangeCommit(q)
             \/ GiveUpAccount(q)
             \/ \E t \in Tokens : ResetBegin(q, t)
      PROVE  TokenInv'
  <2>1. ASSUME NEW s, Turn(q, s), token' = token, s.step \in {"resting", "register", "change"}
        PROVE  TokenInv'
    BY <2>1, HandlerRests
  <2>2. CASE RegisterLook(q) \/ RegisterCommit(q) \/ ChangeLook(q) \/ ChangeCommit(q)
    BY <2>1, <2>2 DEF RegisterLook, RegisterCommit, ChangeLook, ChangeCommit, Resting
  <2>3. CASE GiveUpAccount(q)
    BY <2>1, <2>3 DEF GiveUpAccount, Resting
  <2>4. ASSUME NEW t \in Tokens, ResetBegin(q, t)
        PROVE  TokenInv'
    BY <2>4, HandlerRests DEF ResetBegin
  <2> QED BY <1>2, <2>2, <2>3, <2>4
<1>3. ASSUME NEW q \in AccountRequests,
             ResetLock(q) \/ ResetUpdate(q) \/ ResetCommit(q) \/ ForgotUpdate(q) \/ ForgotCommit(q)
      PROVE  TokenInv'
  BY <1>3, ResetHolds, ResetCommitKeeps, ForgotUpdateKeeps, ForgotCommitKeeps
<1>4. ASSUME NEW t \in Tokens, TokenLapses(t)
      PROVE  TokenInv'
  BY <1>4, LapseKeeps
<1>5. CASE VerifyEmail \/ UNCHANGED accountVars
  BY <1>1, <1>5 DEF VerifyEmail, accountVars
<1> QED BY <1>2, <1>3, <1>4, <1>5 DEF AccountNext


(* What the password is set to, and by what.                               *)
LEMMA PasswordStep ==
  ASSUME AccountInv, [AccountNext]_accountVars
  PROVE  /\ account' \in AccountRow
         /\ account'.pw # account.pw =>
              /\ account'.pw = "registration" => account.pw = Nobody
              /\ account'.pw \in Tokens => /\ token[account'.pw].st = "unused"
                                           /\ token'[account'.pw].st = "used"
<1>1. TokenInv /\ account \in AccountRow
  BY DEF AccountInv
<1>2. ASSUME NEW q \in AccountRequests, RegisterCommit(q)
      PROVE  /\ account' \in AccountRow
             /\ account'.pw # account.pw => account'.pw = "registration" /\ account.pw = Nobody
  BY <1>1, <1>2 DEF RegisterCommit, AccountRow
<1>3. ASSUME NEW q \in AccountRequests, ChangeCommit(q)
      PROVE  account' \in AccountRow /\ account'.pw = "change"
  BY <1>1, <1>3 DEF ChangeCommit, AccountRow
<1>4. ASSUME NEW q \in AccountRequests, ResetCommit(q)
      PROVE  /\ account' \in AccountRow /\ account'.pw \in Tokens
             /\ token[account'.pw].st = "unused" /\ token'[account'.pw].st = "used"
  <2> DEFINE t == handler[q].token
  <2>1. handler[q].step = "commit" /\ q \in Resets
    BY <1>4 DEF ResetCommit, Resets
  <2>2. t \in Tokens /\ token[t].st = "unused" /\ t \in handler[q].old
    BY <1>1, <2>1 DEF TokenInv, AccountTypes, ResetsHold
  <2>3. account' \in AccountRow /\ account'.pw = t
    BY <1>1, <1>4, <2>2 DEF ResetCommit, AccountRow
  <2>4. token \in [Tokens -> TokenRow]
    BY <1>1 DEF TokenInv, AccountTypes
  <2>5. token'[t].st = "used"
    BY <1>4, <2>2, <2>4 DEF ResetCommit, Revoke, TokenRow
  <2> QED BY <2>2, <2>3, <2>5
<1>5. CASE VerifyEmail
  BY <1>1, <1>5 DEF VerifyEmail, AccountRow
<1>6. CASE account' = account
  BY <1>1, <1>6
<1>7. ASSUME NEW q \in AccountRequests,
             \/ RegisterLook(q) \/ ChangeLook(q) \/ ForgotUpdate(q) \/ ForgotCommit(q)
             \/ ResetLock(q) \/ ResetUpdate(q) \/ GiveUpAccount(q)
             \/ \E t \in Tokens : ResetBegin(q, t)
      PROVE  account' = account
  BY <1>7 DEF RegisterLook, ChangeLook, ForgotUpdate, ForgotCommit, ResetLock, ResetUpdate,
              GiveUpAccount, ResetBegin
<1>8. ASSUME NEW t \in Tokens, TokenLapses(t)
      PROVE  account' = account
  BY <1>8 DEF TokenLapses
<1>9. "change" \notin Tokens /\ "registration" \notin Tokens
  BY PasswordsDiffer
<1>10. CASE AccountNext
  BY <1>2, <1>3, <1>4, <1>5, <1>6, <1>7, <1>8, <1>9, <1>10 DEF AccountNext
<1> QED BY <1>6, <1>10 DEF accountVars

(* AccountInv holds in every reachable state.                              *)
THEOREM AccountInvariant == AccountSpec => []AccountInv
<1>1. AccountInit => AccountInv
  BY TokenInitInv DEF AccountInit, AccountInv, AccountRow
<1>2. AccountInv /\ [AccountNext]_accountVars => AccountInv'
  BY TokenNextInv, PasswordStep DEF AccountInv
<1> QED BY <1>1, <1>2, PTL DEF AccountSpec

(* Two tokens of an account are usable at once only when the requests for  *)
(* them overlapped (request_password_reset).                               *)
THEOREM NewTokensRevoke == AccountSpec => []TokensOverlap
<1>1. AccountInv => TokensOverlap
  BY DEF AccountInv, TokenInv
<1> QED BY <1>1, AccountInvariant, PTL

(* A token sets a password at most once, and only while nothing has used   *)
(* or revoked it (reset_password).                                         *)
THEOREM TokensSetOnce == AccountSpec => ResetNeedsUnusedToken
<1>1. AccountInv /\ [AccountNext]_accountVars =>
        [account'.pw # account.pw =>
           /\ account'.pw = "registration" => account.pw = Nobody
           /\ account'.pw \in Tokens => /\ token[account'.pw].st = "unused"
                                        /\ token'[account'.pw].st = "used"]_accountVars
  BY PasswordStep
<1> QED BY <1>1, AccountInvariant, PTL DEF AccountSpec, ResetNeedsUnusedToken

-----------------------------------------------------------------------------
(***************************************************************************)
(* Tickets and check-ins. A scan has seen the entries of its guest, or     *)
(* they have seen it.                                                      *)
(***************************************************************************)

EntryRow == [st : {"success"}, guest : Guests, rivals : SUBSET CheckIns]

Scanning == {q \in Gates : gate[q].step = "scan"}

AdmissionTypes ==
  /\ guest \in [Guests -> [paid : BOOLEAN, cancelled : BOOLEAN]]
  /\ pass \in [Guests -> [st : {"absent", "issued", "revoked"}, codes : Nat]]
  /\ entry \in [CheckIns -> EntryRow \cup {NoEntry}]
  /\ gate = [q \in Gates |-> gate[q]]
  /\ \A q \in Gates :
       /\ gate[q].step \in {"waiting", "ticket", "code", "scan", "answer"}
       /\ gate[q].step \in {"ticket", "code", "scan", "answer"} => gate[q].guest \in Guests
       /\ gate[q].step = "scan" => gate[q].id \in CheckIns /\ gate[q].rivals \subseteq CheckIns

(* A gate inserts a row of its own, ...                                    *)
ScansApart ==
  /\ \A q \in Scanning : entry[gate[q].id].st = "absent"
  /\ \A q, r \in Scanning : q = r \/ gate[q].id # gate[r].id

(* ... and looked for others of the ticket while it overlapped with them.  *)
ScansOverlap ==
  /\ \A q \in Scanning : \A i \in Entered(gate[q].guest) :
       i \in gate[q].rivals \/ gate[q].id \in entry[i].rivals
  /\ \A q, r \in Scanning :
       q = r \/ gate[q].id \in gate[r].rivals \/ gate[r].id \in gate[q].rivals

AdmissionInv ==
  /\ AdmissionTypes
  /\ ScansApart
  /\ ScansOverlap
  /\ EntriesOverlap

-----------------------------------------------------------------------------
(* A gate takes a step, and the others stay where they are.                *)
LEMMA PassOne ==
  ASSUME AdmissionTypes, NEW q \in Gates, NEW s, Pass(q, s)
  PROVE  /\ gate'[q] = s /\ \A r \in Gates \ {q} : gate'[r] = gate[r]
         /\ gate' = [r \in Gates |-> gate'[r]]
BY DEF AdmissionTypes, Pass

(* Steps that insert no check-in, and after which the gate has none to     *)
(* insert.                                                                 *)
LEMMA GateRests ==
  ASSUME AdmissionInv, NEW q \in Gates, NEW s, Pass(q, s),
         guest' = guest, entry' = entry,
         pass' \in [Guests -> [st : {"absent", "issued", "revoked"}, codes : Nat]],
         s.step \in {"waiting", "ticket", "code", "answer"},
         s.step # "waiting" => s.guest \in Guests
  PROVE  AdmissionInv'
<1>1. AdmissionTypes /\ ScansApart /\ ScansOverlap /\ EntriesOverlap
  BY DEF AdmissionInv
<1>2. /\ gate'[q] = s /\ \A r \in Gates \ {q} : gate'[r] = gate[r]
      /\ gate' = [r \in Gates |-> gate'[r]]
  BY <1>1, PassOne
<1>3. Scanning' \subseteq Scanning /\ \A r \in Scanning' : gate'[r] = gate[r]
  BY <1>2 DEF Scanning
<1>4. AdmissionTypes'
  BY <1>1, <1>2 DEF AdmissionTypes
<1>5. ScansApart'
  BY <1>1, <1>3 DEF ScansApart
<1>6. \A h : Entered(h)' = Entered(h)
  BY DEF Entered
<1>7. EntriesOverlap'
  BY <1>1, <1>6 DEF EntriesOverlap
<1>8. ScansOverlap'
  <2>1. \A r \in Scanning' : Entered(gate[r].guest)' = Entered(gate[r].guest)
    BY <1>3 DEF Entered
  <2> QED BY <1>1, <1>3, <2>1 DEF ScansOverlap
<1> QED BY <1>4, <1>5, <1>7, <1>8 DEF AdmissionInv

(* A gate that finds no check-in of the ticket takes a row nobody inserts. *)
LEMMA ScanLookKeeps ==
  ASSUME AdmissionInv, NEW q \in Gates, NEW g \in Guests, ScanLook(q, g)
  PROVE  AdmissionInv'
<1>1. /\ AdmissionTypes /\ ScansApart /\ ScansOverlap /\ EntriesOverlap
      /\ entry' = entry /\ guest' = guest /\ pass' = pass
      /\ gate[q].step = "waiting" /\ Entered(g) = {}
  BY DEF AdmissionInv, ScanLook, Waiting, NotEntered
<1>2. PICK way \in {"qr", "attendance", "manual"}, i \in CheckIns \ Entering :
        /\ entry[i] = NoEntry
        /\ Pass(q, [step |-> "scan", guest |-> g, way |-> way, id |-> i, rivals |-> Entering])
  BY DEF ScanLook
<1>3. /\ gate'[q].step = "scan" /\ gate'[q].guest = g
      /\ gate'[q].id = i /\ gate'[q].rivals = Entering
      /\ \A r \in Gates \ {q} : gate'[r] = gate[r]
      /\ gate' = [r \in Gates |-> gate'[r]]
  BY <1>1, <1>2, PassOne
<1>4. /\ Scanning' = Scanning \cup {q} /\ q \notin Scanning
      /\ \A r \in Scanning : gate'[r] = gate[r]
  BY <1>1, <1>3 DEF Scanning
<1>5. \A r \in Scanning : gate[r].id \in Entering /\ gate[r].id # i
  BY <1>2 DEF Entering, Scanning
<1>6. AdmissionTypes'
  <2>1. Entering \subseteq CheckIns
    BY <1>1 DEF Entering, AdmissionTypes
  <2> QED BY <1>1, <1>2, <1>3, <2>1 DEF AdmissionTypes
<1>7. ScansApart'
  BY <1>1, <1>2, <1>3, <1>4, <1>5 DEF ScansApart, NoEntry
<1>8. ScansOverlap'
  <2>1. Entered(g)' = {} /\ \A n : Entered(n)' = Entered(n)
    BY <1>1 DEF Entered
  <2>2. \A r \in Scanning' : \A k \in Entered(gate'[r].guest) :
          k \in gate'[r].rivals \/ gate'[r].id \in entry[k].rivals
    BY <1>1, <1>3, <1>4 DEF ScansOverlap
  <2>3. \A r, n \in Scanning' :
          r = n \/ gate'[r].id \in gate'[n].rivals \/ gate'[n].id \in gate'[r].rivals
    BY <1>1, <1>3, <1>4, <1>5 DEF ScansOverlap
  <2> QED BY <1>1, <2>2, <2>3 DEF ScansOverlap, Entered
<1>9. EntriesOverlap'
  BY <1>1 DEF EntriesOverlap, Entered
<1> QED BY <1>6, <1>7, <1>8, <1>9 DEF AdmissionInv

(* It inserts the row.                                                     *)
LEMMA ScanCommitKeeps ==
  ASSUME AdmissionInv, NEW q \in Gates, ScanCommit(q)
  PROVE  AdmissionInv'
<1> DEFINE i == gate[q].id
           g == gate[q].guest
           row == [st |-> "success", guest |-> g, rivals |-> gate[q].rivals]
<1>1. /\ AdmissionTypes /\ ScansApart /\ ScansOverlap /\ EntriesOverlap
      /\ guest' = guest /\ pass' = pass /\ q \in Scanning
      /\ i \in CheckIns /\ g \in Guests /\ gate[q].rivals \subseteq CheckIns
      /\ entry \in [CheckIns -> EntryRow \cup {NoEntry}] /\ entry[i].st = "absent"
  BY DEF AdmissionInv, AdmissionTypes, ScanCommit, Scanning, ScansApart
<1>2. /\ entry' = [entry EXCEPT ![i] = row]
      /\ Pass(q, [step |-> "answer", guest |-> g, way |-> gate[q].way])
  BY DEF ScanCommit
<1>3. /\ gate'[q].step = "answer" /\ gate'[q].guest = g
      /\ \A r \in Gates \ {q} : gate'[r] = gate[r]
      /\ gate' = [r \in Gates |-> gate'[r]]
  BY <1>1, <1>2, PassOne
<1>4. /\ Scanning' = Scanning \ {q}
      /\ \A r \in Scanning' : gate'[r] = gate[r]
  BY <1>1, <1>3 DEF Scanning
<1>5. row \in EntryRow /\ row.st = "success" /\ row.guest = g /\ row.rivals = gate[q].rivals
  BY <1>1 DEF EntryRow
<1> HIDE DEF row
<1>6. entry'[i] = row /\ \A k \in CheckIns \ {i} : entry'[k] = entry[k]
  BY <1>1, <1>2
<1>7. \A h : Entered(h)' = IF h = g THEN Entered(h) \cup {i} ELSE Entered(h)
  BY <1>1, <1>5, <1>6 DEF Entered
<1>8. \A h : Entered(h) \subseteq CheckIns \ {i}
  BY <1>1 DEF Entered
<1>9. AdmissionTypes'
  <2>1. entry' \in [CheckIns -> EntryRow \cup {NoEntry}]
    BY <1>1, <1>2, <1>5
  <2> QED BY <1>1, <1>3, <2>1 DEF AdmissionTypes
<1>10. ScansApart'
  <2>1. \A r \in Scanning' : gate[r].id \in CheckIns \ {i}
    BY <1>1, <1>4 DEF ScansApart, AdmissionTypes, Scanning
  <2> QED BY <1>1, <1>4, <1>6, <2>1 DEF ScansApart
<1>11. ScansOverlap'
  <2>1. ASSUME NEW r \in Scanning', NEW k \in Entered(gate[r].guest)'
        PROVE  k \in gate'[r].rivals \/ gate'[r].id \in entry'[k].rivals
    <3>1. CASE k = i
      BY <3>1, <1>1, <1>4, <1>5, <1>6 DEF ScansOverlap
    <3>2. CASE k # i
      <4>1. k \in Entered(gate[r].guest)
        BY <2>1, <3>2, <1>4, <1>6 DEF Entered
      <4>2. entry'[k] = entry[k]
        BY <4>1, <1>6, <1>8
      <4> QED BY <4>1, <4>2, <1>1, <1>4 DEF ScansOverlap
    <3> QED BY <3>1, <3>2
  <2>2. \A r, n \in Scanning' :
          r = n \/ gate'[r].id \in gate'[n].rivals \/ gate'[n].id \in gate'[r].rivals
    BY <1>1, <1>4 DEF ScansOverlap
  <2> QED BY <2>1, <2>2 DEF ScansOverlap
<1>12. EntriesOverlap'
  <2>1. ASSUME NEW h \in Guests, NEW k \in Entered(h), NEW n \in Entered(h), k # n
        PROVE  k \in entry'[n].rivals \/ n \in entry'[k].rivals
    BY <2>1, <1>1, <1>6, <1>8 DEF EntriesOverlap
  <2>2. ASSUME NEW k \in Entered(g)
        PROVE  k \in entry'[i].rivals \/ i \in entry'[k].rivals
    <3>1. k \in gate[q].rivals \/ i \in entry[k].rivals
      BY <1>1 DEF ScansOverlap
    <3> QED BY <3>1, <1>5, <1>6, <1>8
  <2> QED BY <2>1, <2>2, <1>7 DEF EntriesOverlap
<1> QED BY <1>9, <1>10, <1>11, <1>12 DEF AdmissionInv

(* Nobody has entered yet.                                                 *)
LEMMA AdmissionInitInv == AdmissionInit => AdmissionInv
<1> SUFFICES ASSUME AdmissionInit PROVE AdmissionInv
  OBVIOUS
<1>1. /\ guest = [g \in Guests |-> [paid |-> FALSE, cancelled |-> FALSE]]
      /\ pass = [g \in Guests |-> NoPass]
      /\ entry = [i \in CheckIns |-> NoEntry]
      /\ gate = [q \in Gates |-> Waiting]
  BY DEF AdmissionInit
<1>2. Scanning = {} /\ \A g : Entered(g) = {}
  BY <1>1 DEF Scanning, Entered, Waiting, NoEntry
<1>3. AdmissionTypes
  <2>1. pass \in [Guests -> [st : {"absent", "issued", "revoked"}, codes : Nat]]
    BY <1>1 DEF NoPass
  <2>2. guest \in [Guests -> [paid : BOOLEAN, cancelled : BOOLEAN]]
    BY <1>1
  <2> QED BY <1>1, <2>1, <2>2 DEF AdmissionTypes, Waiting
<1> QED BY <1>2, <1>3 DEF AdmissionInv, ScansApart, ScansOverlap, EntriesOverlap

(* Every step of the gates keeps it.                                       *)
LEMMA AdmissionNextInv == AdmissionInv /\ [AdmissionNext]_admissionVars => AdmissionInv'
<1> SUFFICES ASSUME AdmissionInv, [AdmissionNext]_admissionVars PROVE AdmissionInv'
  OBVIOUS
<1> DEFINE PassRow == [st : {"absent", "issued", "revoked"}, codes : Nat]
<1>1. /\ AdmissionTypes /\ pass \in [Guests -> PassRow]
      /\ guest \in [Guests -> [paid : BOOLEAN, cancelled : BOOLEAN]]
  BY DEF AdmissionInv, AdmissionTypes
<1>2. ASSUME entry' = entry, gate' = gate, pass' \in [Guests -> PassRow],
             guest' \in [Guests -> [paid : BOOLEAN, cancelled : BOOLEAN]]
      PROVE  AdmissionInv'
  BY <1>2 DEF AdmissionInv, AdmissionTypes, ScansApart, ScansOverlap, EntriesOverlap,
              Scanning, Entered
<1>3. ASSUME NEW g \in Guests, OrderChanges(g) \/ RegistrationChanges(g) \/ Reissue(g)
      PROVE  AdmissionInv'
  <2>1. CASE Reissue(g)
    <3>1. pass' = [pass EXCEPT ![g] = [pass[g] EXCEPT !.st = "revoked"]]
      BY <2>1 DEF Reissue
    <3>2. [pass[g] EXCEPT !.st = "revoked"] \in PassRow
      BY <1>1
    <3>3. pass' \in [Guests -> PassRow]
      BY <1>1, <3>1, <3>2
    <3> QED BY <1>1, <1>2, <2>1, <3>3 DEF Reissue
  <2>2. CASE OrderChanges(g) \/ RegistrationChanges(g)
    <3>1. guest' \in [Guests -> [paid : BOOLEAN, cancelled : BOOLEAN]]
      BY <1>1, <2>2 DEF OrderChanges, RegistrationChanges
    <3> QED BY <1>1, <1>2, <2>2, <3>1 DEF OrderChanges, RegistrationChanges
  <2> QED BY <1>3, <2>1, <2>2
<1>4. ASSUME NEW q \in Gates, NEW g \in Guests, IssueLook(q, g)
      PROVE  AdmissionInv'
  BY <1>1, <1>4, GateRests DEF IssueLook
<1>5. ASSUME NEW q \in Gates, IssueTicket(q)
      PROVE  AdmissionInv'
  <2>1. gate[q].guest \in Guests
    BY <1>1, <1>5 DEF IssueTicket, AdmissionTypes
  <2>2. pass' = [pass EXCEPT ![gate[q].guest] = [pass[gate[q].guest] EXCEPT !.st = "issued"]]
    BY <1>5 DEF IssueTicket
  <2>3. [pass[gate[q].guest] EXCEPT !.st = "issued"] \in PassRow
    BY <1>1, <2>1
  <2>4. pass' \in [Guests -> PassRow]
    BY <1>1, <2>1, <2>2, <2>3
  <2> QED BY <1>5, <2>1, <2>4, GateRests DEF IssueTicket
<1>6. ASSUME NEW q \in Gates, IssueCode(q)
      PROVE  AdmissionInv'
  <2> DEFINE g == gate[q].guest
  <2>1. g \in Guests
    BY <1>1, <1>6 DEF IssueCode, AdmissionTypes
  <2>2. pass' = [pass EXCEPT ![g] = [pass[g] EXCEPT !.codes = pass[g].codes + 1]]
    BY <1>6 DEF IssueCode
  <2>3. [pass[g] EXCEPT !.codes = pass[g].codes + 1] \in PassRow
    BY <1>1, <2>1
  <2>4. pass' \in [Guests -> PassRow]
    BY <1>1, <2>1, <2>2, <2>3
  <2> QED BY <1>6, <2>1, <2>4, GateRests DEF IssueCode, Waiting
<1>7. ASSUME NEW q \in Gates, ScanAnswer(q) \/ Abandon(q)
      PROVE  AdmissionInv'
  BY <1>1, <1>7, GateRests DEF ScanAnswer, Abandon, Waiting
<1>8. CASE UNCHANGED admissionVars
  BY <1>1, <1>2, <1>8 DEF admissionVars
<1> QED BY <1>3, <1>4, <1>5, <1>6, <1>7, <1>8, ScanLookKeeps, ScanCommitKeeps DEF AdmissionNext

(* Rows, and which gate inserts which.                                     *)
THEOREM AdmissionInvariant == AdmissionSpec => []AdmissionInv
<1> QED BY AdmissionInitInv, AdmissionNextInv, PTL DEF AdmissionSpec

(* A ticket is checked in twice only by gates that overlapped.             *)
THEOREM EntriesNeedOverlap == AdmissionSpec => []EntriesOverlap
<1>1. AdmissionInv => EntriesOverlap
  BY DEF AdmissionInv
<1> QED BY AdmissionInvariant, <1>1, PTL

(* One line for each member of a set.                                      *)
LEMMA LinePerMember ==
  ASSUME NEW S, IsFiniteSet(S), NEW f
  PROVE  Cardinality({<<g, f[g]>> : g \in S}) = Cardinality(S)
<1> DEFINE T == {<<g, f[g]>> : g \in S}
           line == [g \in S |-> <<g, f[g]>>]
<1>1. line \in [S -> T]
  OBVIOUS
<1>2. line \in Injection(S, T)
  <2>1. \A a, b \in S : line[a] = line[b] => a = b
    OBVIOUS
  <2> QED BY <1>1, <2>1 DEF Injection, IsInjective
<1>3. line \in Surjection(S, T)
  BY <1>1 DEF Surjection
<1>4. line \in Bijection(S, T)
  BY <1>2, <1>3 DEF Bijection
<1> QED BY <1>4, FS_Bijection DEF ExistsBijection

(* The report counts every registration once when none has two check-ins.  *)
LEMMA ReportCounts == ReportCountsGuests
<1> DEFINE present == {g \in Guests : ~guest[g].cancelled}
           came == {g \in present : Entered(g) # {}}
           first == [g \in Guests |-> IF Entered(g) = {} THEN "absent"
                                      ELSE CHOOSE i \in Entered(g) : TRUE]
<1> SUFFICES ASSUME \A g \in present : Cardinality(Entered(g)) <= 1
             PROVE  /\ TotalRegistered = Cardinality(present)
                    /\ TotalCheckedIn = Cardinality(came)
  BY DEF ReportCountsGuests
<1>1. IsFiniteSet(present) /\ IsFiniteSet(came)
  <2>1. present \in SUBSET Guests /\ came \in SUBSET Guests
    OBVIOUS
  <2> QED BY <2>1, AdmissionRows, FS_Subset
<1>2. ASSUME NEW g \in present, Entered(g) # {}
      PROVE  Entered(g) = {first[g]} /\ first[g] # "absent"
  <2>1. Entered(g) \in SUBSET CheckIns
    BY DEF Entered
  <2>2. IsFiniteSet(Entered(g)) /\ Cardinality(Entered(g)) \in Nat
    BY <2>1, AdmissionRows, FS_Subset, FS_CardinalityType
  <2>3. Cardinality(Entered(g)) = 1
    BY <1>2, <2>2, FS_EmptySet
  <2>4. PICK i : Entered(g) = {i}
    BY <2>2, <2>3, FS_Singleton
  <2>5. first[g] = i
    BY <2>4
  <2> QED BY <2>1, <2>4, <2>5, AdmissionRows
<1>3. \A g \in present : Lines(g) = {<<g, first[g]>>}
  <2>1. ASSUME NEW g \in present, Entered(g) = {}
        PROVE  Lines(g) = {<<g, first[g]>>}
    BY <2>1 DEF Lines
  <2>2. ASSUME NEW g \in present, Entered(g) # {}
        PROVE  Lines(g) = {<<g, first[g]>>}
    BY <2>2, <1>2 DEF Lines
  <2> QED BY <2>1, <2>2
<1>4. \A g \in present \ came : first[g] = "absent"
  OBVIOUS
<1>5. \A g \in came : first[g] # "absent"
  BY <1>2
<1> HIDE DEF first
<1>6. Attendees = {<<g, first[g]>> : g \in present}
  BY <1>3 DEF Attendees
<1>7. {line \in Attendees : line[2] # "absent"} = {<<g, first[g]>> : g \in came}
  BY <1>4, <1>5, <1>6
<1>8. TotalRegistered = Cardinality(present)
  BY <1>1, <1>6, LinePerMember DEF TotalRegistered
<1>9. TotalCheckedIn = Cardinality(came)
  BY <1>1, <1>7, LinePerMember DEF TotalCheckedIn
<1> QED BY <1>8, <1>9

(* The report is right in every state.                                     *)
THEOREM ReportIsRight == AdmissionSpec => []ReportCountsGuests
<1> QED BY ReportCounts, PTL
=============================================================================
