------------------------------ MODULE Admission ------------------------------
(***************************************************************************)
(* Tickets, QR tokens, check-ins and the attendance report of one event.   *)
(*                                                                         *)
(* Issuing is two transactions: the ticket, then its token.  A check-in    *)
(* looks for an earlier one and inserts, with other requests in between.   *)
(* A ticket is unique for its registration and is named by it.             *)
(***************************************************************************)
EXTENDS Naturals, FiniteSets

CONSTANTS Guests,    \* registrations of the event
          CheckIns,  \* identifiers of check-in rows
          Gates      \* requests under way

\* Rows of tables; a line without a check-in shows no identifier.
ASSUME AdmissionRows == IsFiniteSet(Guests) /\ IsFiniteSet(CheckIns) /\ "absent" \notin CheckIns

VARIABLES guest,   \* registration: cancelled or not, delegate order paid or not
          pass,    \* its ticket, and the number of active QR tokens of it
          entry,   \* check_ins
          gate     \* requests: their step and what they have read
admissionVars == <<guest, pass, entry, gate>>

NoPass == [st |-> "absent", codes |-> 0]
NoEntry == [st |-> "absent"]
Waiting == [step |-> "waiting"]

Entered(g) == {i \in CheckIns : entry[i].st = "success" /\ entry[i].guest = g}
\* Check-ins that have been looked for and are not inserted yet.
Entering == {gate[q].id : q \in {r \in Gates : gate[r].step = "scan"}}

Pass(q, state) == gate' = [gate EXCEPT ![q] = state]

-----------------------------------------------------------------------------
(***************************************************************************)
(* Registrations and payments, as far as tickets depend on them            *)
(***************************************************************************)
OrderChanges(g) ==
  /\ guest' = [guest EXCEPT ![g].paid = ~@]
  /\ UNCHANGED <<pass, entry, gate>>

RegistrationChanges(g) ==
  /\ guest' = [guest EXCEPT ![g].cancelled = ~@]
  /\ UNCHANGED <<pass, entry, gate>>

-----------------------------------------------------------------------------
(***************************************************************************)
(* Tickets                                                                 *)
(***************************************************************************)
IssueLook(q, g) ==
  /\ gate[q] = Waiting
  /\ guest[g].paid
  /\ pass[g].st = "absent"
  /\ Pass(q, [step |-> "ticket", guest |-> g])
  /\ UNCHANGED <<guest, pass, entry>>

\* The unique column refuses a ticket inserted since the look.
TicketIndex(g) == pass[g].st = "absent"

IssueTicket(q) ==
  /\ gate[q].step = "ticket"
  /\ TicketIndex(gate[q].guest)
  /\ pass' = [pass EXCEPT ![gate[q].guest].st = "issued"]
  /\ Pass(q, [step |-> "code", guest |-> gate[q].guest])
  /\ UNCHANGED <<guest, entry>>

IssueCode(q) ==
  /\ gate[q].step = "code"
  /\ pass' = [pass EXCEPT ![gate[q].guest].codes = @ + 1]
  /\ Pass(q, Waiting)
  /\ UNCHANGED <<guest, entry>>

\* The revocation is committed; issuing then finds the revoked ticket, or an
\* unpaid order, and refuses.
Reissue(g) ==
  /\ pass[g].st # "absent"
  /\ pass' = [pass EXCEPT ![g].st = "revoked"]
  /\ UNCHANGED <<guest, entry, gate>>

-----------------------------------------------------------------------------
(***************************************************************************)
(* Check-in: by a token, at any gate or at the attendance desk, or by the  *)
(* number of the ticket.  None asks for the status of the ticket.          *)
(***************************************************************************)
Readable(g, way) == IF way = "manual" THEN pass[g].st # "absent" ELSE pass[g].codes > 0

\* A slip: earlier check-ins are not looked up.
NeverEntered(g) == TRUE

\* One earlier check-in is a duplicate, and several are an error.
NotEntered(g) == Entered(g) = {}

ScanLook(q, g) ==
  /\ gate[q] = Waiting
  /\ \E way \in {"qr", "attendance", "manual"}, i \in CheckIns \ Entering :
       /\ Readable(g, way)
       /\ NotEntered(g)
       /\ entry[i] = NoEntry
       /\ Pass(q, [step |-> "scan", guest |-> g, way |-> way, id |-> i, rivals |-> Entering])
  /\ UNCHANGED <<guest, pass, entry>>

ScanCommit(q) ==
  /\ gate[q].step = "scan"
  /\ entry' = [entry EXCEPT ![gate[q].id] = [st |-> "success", guest |-> gate[q].guest,
                                             rivals |-> gate[q].rivals]]
  /\ Pass(q, [step |-> "answer", guest |-> gate[q].guest, way |-> gate[q].way])
  /\ UNCHANGED <<guest, pass>>

\* The desk answers with the line of the roster; a cancelled registration has
\* none, and the request fails after its check-in has been committed.
ScanAnswer(q) ==
  /\ gate[q].step = "answer"
  /\ Pass(q, Waiting)
  /\ UNCHANGED <<guest, pass, entry>>

\* Refused by a constraint, or the process stops.
Abandon(q) ==
  /\ gate[q] # Waiting
  /\ Pass(q, Waiting)
  /\ UNCHANGED <<guest, pass, entry>>

-----------------------------------------------------------------------------
(***************************************************************************)
(* The report: one line for each registration that is not cancelled, and   *)
(* each check-in of its ticket; a line without a check-in is absent.       *)
(***************************************************************************)
\* A slip: an inner join drops guests who have not come.
InnerLines(g) == {<<g, i>> : i \in Entered(g)}

Lines(g) == IF Entered(g) = {} THEN {<<g, "absent">>} ELSE {<<g, i>> : i \in Entered(g)}

Attendees == UNION {Lines(g) : g \in {h \in Guests : ~guest[h].cancelled}}
TotalRegistered == Cardinality(Attendees)
TotalCheckedIn == Cardinality({line \in Attendees : line[2] # "absent"})

-----------------------------------------------------------------------------
AdmissionInit ==
  /\ guest = [g \in Guests |-> [paid |-> FALSE, cancelled |-> FALSE]]
  /\ pass = [g \in Guests |-> NoPass]
  /\ entry = [i \in CheckIns |-> NoEntry]
  /\ gate = [q \in Gates |-> Waiting]

AdmissionNext ==
  \/ \E g \in Guests : \/ OrderChanges(g) \/ RegistrationChanges(g) \/ Reissue(g)
                       \/ \E q \in Gates : IssueLook(q, g) \/ ScanLook(q, g)
  \/ \E q \in Gates : \/ IssueTicket(q) \/ IssueCode(q) \/ ScanCommit(q) \/ ScanAnswer(q)
                      \/ Abandon(q)

AdmissionSpec == AdmissionInit /\ [][AdmissionNext]_admissionVars

-----------------------------------------------------------------------------
(***************************************************************************)
(* Claims                                                                  *)
(***************************************************************************)
\* A ticket is checked in twice only by gates that looked for an earlier
\* check-in at the same time.
EntriesOverlap ==
  \A g \in Guests : \A i, j \in Entered(g) :
    i = j \/ i \in entry[j].rivals \/ j \in entry[i].rivals

\* Unless a ticket was checked in twice, the report counts every registration
\* that is not cancelled once, and as present exactly those that have entered.
ReportCountsGuests ==
  LET present == {g \in Guests : ~guest[g].cancelled}
  IN (\A g \in present : Cardinality(Entered(g)) <= 1) =>
       /\ TotalRegistered = Cardinality(present)
       /\ TotalCheckedIn = Cardinality({g \in present : Entered(g) # {}})
=============================================================================
