---------------------------- MODULE EmailDelivery ----------------------------
(***************************************************************************)
(* Notification e-mails: tasks that run after a request has committed, in  *)
(* the memory of the server process.  A task reads the account, makes sure *)
(* that the template exists, writes a pending log row, hands the message   *)
(* to the SMTP server and records the outcome; each is a transaction or a  *)
(* call of its own, and a crash loses the task between any two of them.    *)
(***************************************************************************)
CONSTANTS Mails,     \* one trigger about one entity for one recipient
          MailLogs,  \* rows of email_notification_logs
          MailTasks  \* delivery tasks of the process

VARIABLES tmpl,    \* templates of the trigger by locale
          pref,    \* what the organizer's override lets through, `on' without one
          elog,    \* email_notification_logs
          task     \* delivery tasks
mailVars == <<tmpl, pref, elog, task>>

Locales == {"en", "zh-CN"}
\* At most one row for each locale; a row is never deleted.
TemplateStates == {"absent", "enabled", "disabled"}
NoTemplate == "no template"
Asleep == [step |-> "asleep"]
TestMail == "test"

NoLog == [st |-> "absent"]
Written(l) == elog[l].st # "absent"
LogsOf(s) == {l \in MailLogs : Written(l) /\ elog[l].mail = s}

Advance(t, state) == task' = [task EXCEPT ![t] = state]

\* The template of the locale decides, also when it is disabled; English is
\* used only for a locale that has no template.
SelectTemplate(l) ==
  IF tmpl[l] # "absent" THEN (IF tmpl[l] = "enabled" THEN l ELSE NoTemplate)
  ELSE IF tmpl["en"] = "enabled" THEN "en" ELSE NoTemplate

\* A slip: earlier messages are not looked up.
AlreadyAccepted(s) == FALSE

\* A test message has no entity and is never a repetition.
AlreadySent(s) == s # TestMail /\ \E l \in LogsOf(s) : elog[l].st = "sent"

-----------------------------------------------------------------------------
(***************************************************************************)
(* A delivery                                                              *)
(***************************************************************************)
\* A request that has committed leaves a task.
Start(t, s) ==
  /\ task[t].step = "asleep"
  /\ Advance(t, [step |-> "started", mail |-> s])
  /\ UNCHANGED <<tmpl, pref, elog>>

\* deliver_to_user reads the override and the locale of the account, which
\* its owner may have changed to any.
ReadAccount(t) ==
  /\ task[t].step = "started"
  /\ IF pref = "off" THEN Advance(t, Asleep)
     ELSE \E l \in Locales :
            Advance(t, [step |-> "addressed", mail |-> task[t].mail, want |-> l])
  /\ UNCHANGED <<tmpl, pref, elog>>

\* A concurrent insertion of the same template fails and is rolled back.
EnsureTemplate(t) ==
  /\ task[t].step = "addressed"
  /\ tmpl' = [tmpl EXCEPT ![task[t].want] = IF @ = "absent" THEN "enabled" ELSE @]
  /\ Advance(t, [task[t] EXCEPT !.step = "prepared"])
  /\ UNCHANGED <<pref, elog>>

Pending(s) == {l \in LogsOf(s) : elog[l].st = "pending"}

Claim(t) ==
  /\ task[t].step = "prepared"
  /\ LET s == task[t].mail
         chosen == SelectTemplate(task[t].want)
     IN \/ /\ chosen = NoTemplate \/ AlreadySent(s)
           /\ Advance(t, Asleep)
           /\ UNCHANGED elog
        \/ /\ chosen # NoTemplate /\ ~AlreadySent(s)
           /\ \E l \in MailLogs :
                /\ ~Written(l)
                /\ elog' = [elog EXCEPT ![l] = [st |-> "pending", mail |-> s, loc |-> chosen,
                                                want |-> task[t].want, accepted |-> FALSE,
                                                rivals |-> Pending(s)]]
                /\ Advance(t, [step |-> "sending", log |-> l])
  /\ UNCHANGED <<tmpl, pref>>

\* The SMTP server takes the message, or the call fails.
HandOver(t) ==
  /\ task[t].step = "sending"
  /\ \E accepted \in BOOLEAN :
       /\ elog' = [elog EXCEPT ![task[t].log].accepted = accepted]
       /\ Advance(t, [step |-> "recording", log |-> task[t].log, raised |-> ~accepted])
  /\ UNCHANGED <<tmpl, pref>>

Outcome(raised) == IF raised THEN "failed" ELSE "sent"

Record(t) ==
  /\ task[t].step = "recording"
  /\ elog' = [elog EXCEPT ![task[t].log].st = Outcome(task[t].raised)]
  /\ Advance(t, Asleep)
  /\ UNCHANGED <<tmpl, pref>>

\* The process stops; the database and the SMTP server keep what they have.
ProcessStops ==
  /\ \E t \in MailTasks : task[t] # Asleep
  /\ task' = [t \in MailTasks |-> Asleep]
  /\ UNCHANGED <<tmpl, pref, elog>>

-----------------------------------------------------------------------------
(***************************************************************************)
(* The organizer and the account                                           *)
(***************************************************************************)
\* Reading the templates, too, creates those of the locale that are missing.
UpdateTemplate(l) ==
  /\ \E st \in TemplateStates \ {"absent", tmpl[l]} : tmpl' = [tmpl EXCEPT ![l] = st]
  /\ UNCHANGED <<pref, elog, task>>

\* NULL removes the override.  The template of the answer's locale is created.
UpdatePreference(l) ==
  /\ pref' \in {"on", "off"} \ {pref}
  /\ tmpl' = [tmpl EXCEPT ![l] = IF @ = "absent" THEN "enabled" ELSE @]
  /\ UNCHANGED <<elog, task>>

\* POST /{trigger}/test-send delivers without an account.
TestSend(t) ==
  /\ task[t].step = "asleep"
  /\ \E l \in Locales : Advance(t, [step |-> "addressed", mail |-> TestMail, want |-> l])
  /\ UNCHANGED <<tmpl, pref, elog>>

-----------------------------------------------------------------------------
MailInit ==
  /\ tmpl \in [Locales -> {"absent", "enabled"}]
  /\ pref = "on"
  /\ elog = [l \in MailLogs |-> NoLog]
  /\ task = [t \in MailTasks |-> Asleep]

MailNext ==
  \/ \E t \in MailTasks :
       \/ \E s \in Mails : Start(t, s)
       \/ ReadAccount(t) \/ EnsureTemplate(t) \/ Claim(t) \/ HandOver(t) \/ Record(t)
       \/ TestSend(t)
  \/ ProcessStops
  \/ \E l \in Locales : UpdateTemplate(l) \/ UpdatePreference(l)

MailSpec == MailInit /\ [][MailNext]_mailVars

-----------------------------------------------------------------------------
(***************************************************************************)
(* Claims                                                                  *)
(***************************************************************************)
\* The SMTP server takes two messages of one subject only when one was begun
\* while the other's row said pending, because it was on its way or its process
\* had stopped; a row says sent only of a message that was taken.
RepetitionNeedsOverlap ==
  /\ \A l, k \in MailLogs :
       l # k /\ Written(l) /\ Written(k) /\ elog[l].mail = elog[k].mail /\ elog[l].mail # TestMail
         /\ elog[l].accepted /\ elog[k].accepted
         => l \in elog[k].rivals \/ k \in elog[l].rivals
  /\ \A l \in MailLogs : elog[l].st = "sent" => elog[l].accepted
=============================================================================
