------------------------------ MODULE Meetings ------------------------------
(***************************************************************************)
(* Business meetings: requests of participants, the organizer's            *)
(* recommendations and the booking of a slot and a resource.               *)
(*                                                                         *)
(* A participant's command reads the meeting to find whom to write to and  *)
(* only then locks it; the locked query finds the row in the session, and  *)
(* SQLAlchemy keeps the values it has.  So the command decides on the row  *)
(* it read before the lock, and writes only the columns it changed against *)
(* that row: Look, then Command.  The organizer's command and the answers  *)
(* to recommendations lock first and are one action.  A confirmation holds *)
(* the lock of its slot from before the conflict query to its commit, so   *)
(* two confirmations of a slot never overlap.                              *)
(***************************************************************************)
EXTENDS Naturals, FiniteSets

CONSTANTS Meetings,     \* identifiers of meeting rows
          Recommended,  \* those that a recommendation would create
          Requester,    \* participant who asked, of each meeting
          Recipient,    \* participant who is asked
          Slots, Resources,
          Requests,     \* commands of participants under way
          Setups,       \* settings an event may be given
          None          \* SQL NULL

ASSUME MeetingConstants ==
  /\ Recommended \subseteq Meetings
  /\ None \notin Slots \cup Resources \cup Meetings
  /\ \A m \in Meetings : Requester[m] # Recipient[m]
  /\ Setups \subseteq [assisted : BOOLEAN, auto : BOOLEAN, override : BOOLEAN]

VARIABLES mtg,   \* the meetings table
          rec,   \* recommendations, one for each recommended meeting
          req,   \* a participant's request: the row it has read
       setup  \* the event's settings
meetingVars == <<mtg, rec, req, setup>>

(***************************************************************************)
(* Rows                                                                    *)
(***************************************************************************)
MeetingStatuses == {"requested", "accepted", "scheduling", "confirmed", "completed",
                    "declined", "cancelled", "reschedule_requested", "no_show"}
Responses == {"pending", "interested", "not_interested"}
RecommendationStatuses == {"awaiting_responses", "mutually_interested", "declined", "expired",
                           "converted_to_meeting"}

Meeting == [st : MeetingStatuses \cup {"absent"}, slot : Slots \cup {None},
            res : Resources \cup {None}]
Recommendation == [st : RecommendationStatuses \cup {"absent"}, a : Responses, b : Responses]

NewMeeting(st) == [st |-> st, slot |-> None, res |-> None]
(* Without a row of settings every feature is on. *)
Unset == [assisted |-> TRUE, auto |-> TRUE, override |-> TRUE]

NoRequest == [m |-> None, seen |-> NewMeeting("absent")]

Parties(m) == {Requester[m], Recipient[m]}

\* A slip: only the requester's other meetings are compared.
ConflictRequesterOnly(m, slot, res) ==
  \E n \in Meetings \ {m} :
    /\ mtg[n].st = "confirmed"
    /\ mtg[n].slot = slot
    /\ mtg[n].res = res \/ Requester[n] = Requester[m]

\* Another confirmed meeting of the slot has the resource or a participant.
Conflict(m, slot, res) ==
  \E n \in Meetings \ {m} :
    /\ mtg[n].st = "confirmed"
    /\ mtg[n].slot = slot
    /\ mtg[n].res = res \/ Parties(n) \cap Parties(m) # {}

\* The unique index on resource and slot, which knows nothing of the status.
IndexAllows(m, row) ==
  row.slot # None /\ row.res # None =>
    \A n \in Meetings \ {m} : <<mtg[n].slot, mtg[n].res>> # <<row.slot, row.res>>

-----------------------------------------------------------------------------
(***************************************************************************)
(* Participants                                                            *)
(***************************************************************************)
\* POST /events/{id}/meetings
CreateMeeting(m) ==
  /\ m \notin Recommended
  /\ mtg[m].st = "absent"
  /\ mtg' = [mtg EXCEPT ![m] = NewMeeting("requested")]
  /\ UNCHANGED <<rec, req, setup>>

\* The route reads the meeting without a lock.
Look(q, m) ==
  /\ req[q] = NoRequest
  /\ mtg[m].st # "absent"
  /\ req' = [req EXCEPT ![q] = [m |-> m, seen |-> mtg[m]]]
  /\ UNCHANGED <<mtg, rec, setup>>

\* The states a command is allowed in and the state it leads to.
Transition(who, m, from, to) ==
  \/ from = "requested" /\ to \in {"accepted", "declined"} /\ who = Recipient[m]
  \/ from = "confirmed" /\ to \in {"reschedule_requested", "completed"}
  \/ from \in {"accepted", "scheduling", "confirmed", "reschedule_requested"} /\ to = "cancelled"

Confirmable == {"accepted", "scheduling", "reschedule_requested"}

\* UPDATE names the columns that differ from the row the session has read.
Update(cur, seen, new) ==
  [c \in DOMAIN cur |-> IF new[c] # seen[c] THEN new[c] ELSE cur[c]]

ConfirmedRow(slot, res) == [st |-> "confirmed", slot |-> slot, res |-> res]

\* accept, decline, request-reschedule, cancel, complete
Command(q) ==
  LET m == req[q].m
      seen == req[q].seen
  IN /\ req[q] # NoRequest
     /\ \E who \in Parties(m), to \in MeetingStatuses :
          /\ Transition(who, m, seen.st, to)
          /\ mtg' = [mtg EXCEPT ![m] = Update(@, seen, [seen EXCEPT !.st = to])]
     /\ req' = [req EXCEPT ![q] = NoRequest]
     /\ UNCHANGED <<rec, setup>>

\* confirm: the conflict query runs under the lock of the slot.
Confirm(q) ==
  LET m == req[q].m
      seen == req[q].seen
  IN /\ req[q] # NoRequest
     /\ seen.st \in Confirmable
     /\ \E slot \in Slots, res \in Resources :
          LET row == Update(mtg[m], seen, ConfirmedRow(slot, res))
          IN /\ ~Conflict(m, slot, res)
             /\ IndexAllows(m, row)
             /\ mtg' = [mtg EXCEPT ![m] = row]
     /\ req' = [req EXCEPT ![q] = NoRequest]
     /\ UNCHANGED <<rec, setup>>

\* A refusal of any kind, or the client is gone: nothing is written.
GiveUp(q) ==
  /\ req[q] # NoRequest
  /\ req' = [req EXCEPT ![q] = NoRequest]
  /\ UNCHANGED <<mtg, rec, setup>>

-----------------------------------------------------------------------------
(***************************************************************************)
(* The organizer                                                           *)
(***************************************************************************)
OrganizerConfirm(m) ==
  /\ setup.override
  /\ mtg[m].st \in Confirmable \cup {"requested"}
  /\ \E slot \in Slots, res \in Resources :
       /\ ~Conflict(m, slot, res)
       /\ IndexAllows(m, ConfirmedRow(slot, res))
       /\ mtg' = [mtg EXCEPT ![m] = ConfirmedRow(slot, res)]
  /\ UNCHANGED <<rec, req, setup>>

\* A slip: closing a meeting frees its place but keeps its status.
OrganizerCloseClears(m) ==
  /\ mtg[m].st \in {"accepted", "confirmed"}
  /\ mtg' = [mtg EXCEPT ![m].slot = None, ![m].res = None]
  /\ UNCHANGED <<rec, req, setup>>

\* cancel; complete and no_show of a confirmed meeting
OrganizerClose(m) ==
  /\ setup.override
  /\ \E to \in {"cancelled", "completed", "no_show"} :
       /\ IF to = "cancelled"
          THEN mtg[m].st \notin {"absent", "cancelled", "completed", "declined", "no_show"}
          ELSE mtg[m].st = "confirmed"
       /\ mtg' = [mtg EXCEPT ![m].st = to]
  /\ UNCHANGED <<rec, req, setup>>

Recommend(m) ==
  /\ setup.assisted
  /\ m \in Recommended
  /\ rec[m].st = "absent"
  /\ rec' = [rec EXCEPT ![m] = [st |-> "awaiting_responses", a |-> "pending", b |-> "pending"]]
  /\ UNCHANGED <<mtg, req, setup>>

\* A slip: one side's interest is enough.
StatusAfterAnyInterest(r, auto) ==
  IF "interested" \in {r.a, r.b} /\ auto THEN "converted_to_meeting" ELSE r.st

\* An answer: `auto' is the event's setting auto_create_meeting.
StatusAfterAnswer(r, auto) ==
  CASE "not_interested" \in {r.a, r.b} -> "declined"
    [] {r.a, r.b} = {"interested"}     -> IF auto THEN "converted_to_meeting"
                                          ELSE "mutually_interested"
    [] OTHER                           -> r.st

Respond(m) ==
  /\ m \in Recommended
  /\ rec[m].st = "awaiting_responses"
  /\ \E side \in {"a", "b"}, answer \in Responses :
       LET answered == [rec[m] EXCEPT ![side] = answer]
           after == StatusAfterAnswer(answered, setup.auto)
       IN /\ rec' = [rec EXCEPT ![m] = [answered EXCEPT !.st = after]]
          /\ mtg' = IF after = "converted_to_meeting"
                    THEN [mtg EXCEPT ![m] = NewMeeting("scheduling")] ELSE mtg
  /\ UNCHANGED <<req, setup>>

\* An answer after expires_at: the expiry is committed, the answer refused.
RespondLate(m) ==
  /\ m \in Recommended
  /\ rec[m].st = "awaiting_responses"
  /\ rec' = [rec EXCEPT ![m].st = "expired"]
  /\ UNCHANGED <<mtg, req, setup>>

\* Also the first GET of the settings, which inserts the defaults.
UpdateSettings ==
  /\ setup' \in Setups
  /\ UNCHANGED <<mtg, rec, req>>

-----------------------------------------------------------------------------
MeetingInit ==
  /\ mtg = [m \in Meetings |-> NewMeeting("absent")]
  /\ rec = [m \in Recommended |-> [st |-> "absent", a |-> "pending", b |-> "pending"]]
  /\ req = [q \in Requests |-> NoRequest]
  /\ setup = Unset

MeetingNext ==
  \/ \E m \in Meetings : \/ CreateMeeting(m)
                         \/ OrganizerConfirm(m)
                         \/ OrganizerClose(m)
                         \/ Recommend(m)
                         \/ Respond(m)
                         \/ RespondLate(m)
                         \/ \E q \in Requests : Look(q, m)
  \/ \E q \in Requests : Command(q) \/ Confirm(q) \/ GiveUp(q)
  \/ UpdateSettings

MeetingSpec == MeetingInit /\ [][MeetingNext]_meetingVars

-----------------------------------------------------------------------------
(***************************************************************************)
(* Claims                                                                  *)
(***************************************************************************)
\* Rows, recommendations and requests have the columns of the tables.
MeetingTypeOK ==
  /\ mtg \in [Meetings -> Meeting]
  /\ rec \in [Recommended -> Recommendation]
  /\ req \in [Requests -> [m : Meetings \cup {None}, seen : Meeting]]
  /\ setup \in Setups \cup {Unset}

\* A confirmed meeting has a slot and a resource, also when the row it was
\* confirmed on was read long before and only part of the row is written.
ConfirmedIsPlaced ==
  \A m \in Meetings : mtg[m].st = "confirmed" => mtg[m].slot # None /\ mtg[m].res # None

\* A meeting the organizer recommended exists only after both participants
\* said they are interested, and neither answer changes afterwards.
ConsentBeforeMeeting ==
  \A m \in Recommended :
    /\ mtg[m].st # "absent" <=> rec[m].st = "converted_to_meeting"
    /\ rec[m].st = "converted_to_meeting" => rec[m].a = "interested" /\ rec[m].b = "interested"

Clash(m) ==
  \E n \in Meetings \ {m} : /\ mtg[m].st = "confirmed" /\ mtg[n].st = "confirmed"
                            /\ mtg[m].slot = mtg[n].slot
                            /\ Parties(m) \cap Parties(n) # {}

\* A confirmation gives a participant a second meeting in a slot only when the
\* row it was decided on has changed since it was read; the organizer never does.
FreshConfirmIsFree ==
  [][\A m \in Meetings :
       ~Clash(m) /\ Clash(m)' =>
         \E q \in Requests, n \in Meetings : /\ req[q].m = n /\ req[q].seen # mtg[n]
                                             /\ req'[q] = NoRequest]_meetingVars

\* No participant has two confirmed meetings in one slot.
NoDoubleBooking == \A m \in Meetings : ~Clash(m)
=============================================================================
