----------------------------- MODULE PeopleProofs -----------------------------
(***************************************************************************)
(* Business meetings, conversations, discovery, registration drafts and    *)
(* editorial content for any number of participants and requests.          *)
(*                                                                         *)
(* A request reads, decides and commits later, and writes the columns that *)
(* differ from what it has read. Each invariant relates what requests      *)
(* under way have read to the rows as they are; where two requests can     *)
(* meet, only until they do.                                               *)
(***************************************************************************)
EXTENDS Meetings, Conversations, Networking, Drafts, Content, TLAPS

-----------------------------------------------------------------------------
(***************************************************************************)
(* Meetings. A confirmed meeting has a place, a recommended one has two    *)
(* willing participants, and a second booking of a participant needs a     *)
(* decision on a row that has changed since it was read.                   *)
(*                                                                         *)
(* ConfirmedIsPlaced is not inductive: an UPDATE leaves out the columns    *)
(* that equal what was read, so a confirmation that read a slot relies on  *)
(* the slot still being there. A slot and a resource, once written, are    *)
(* never cleared (ReadStays), and a meeting that exists is not created     *)
(* again by an answer to its recommendation (ConsentBeforeMeeting).        *)
(***************************************************************************)

\* What a request has read of a place is still in the row, changed or not.
ReadStays ==
  \A q \in Requests : req[q] # NoRequest =>
    LET m == req[q].m
        seen == req[q].seen
    IN /\ m \in Meetings /\ mtg[m].st # "absent" /\ seen.st # "absent"
       /\ seen.slot # None => mtg[m].slot # None
       /\ seen.res # None => mtg[m].res # None

MeetingInv ==
  /\ MeetingTypeOK
  /\ ReadStays
  /\ ConfirmedIsPlaced
  /\ ConsentBeforeMeeting

-----------------------------------------------------------------------------
(* The columns an UPDATE leaves in a row.                                  *)
LEMMA UpdatedRow ==
  ASSUME NEW cur \in Meeting, NEW seen \in Meeting, NEW new \in Meeting
  PROVE  /\ Update(cur, seen, new) \in Meeting
         /\ Update(cur, seen, new).st = IF new.st # seen.st THEN new.st ELSE cur.st
         /\ Update(cur, seen, new).slot = IF new.slot # seen.slot THEN new.slot ELSE cur.slot
         /\ Update(cur, seen, new).res = IF new.res # seen.res THEN new.res ELSE cur.res
         /\ cur = seen => Update(cur, seen, new) = new
<1> DEFINE row == [st   |-> IF new.st # seen.st THEN new.st ELSE cur.st,
                   slot |-> IF new.slot # seen.slot THEN new.slot ELSE cur.slot,
                   res  |-> IF new.res # seen.res THEN new.res ELSE cur.res]
<1>1. DOMAIN cur = {"st", "slot", "res"}
  BY DEF Meeting
<1>2. Update(cur, seen, new) = row
  BY <1>1 DEF Update
<1>3. row \in Meeting
  BY DEF Meeting
<1>4. cur = seen => row = new
  BY DEF Meeting
<1> QED BY <1>2, <1>3, <1>4

(* A step that writes meeting m keeps the invariant when the new row is a  *)
(* row, is not placed less, and is placed when it is confirmed.            *)
LEMMA WriteKeeps ==
  ASSUME MeetingInv, NEW m \in Meetings, NEW row \in Meeting,
         mtg' = [mtg EXCEPT ![m] = row],
         mtg[m].st # "absent", row.st # "absent",
         mtg[m].slot # None => row.slot # None,
         mtg[m].res # None => row.res # None,
         row.st = "confirmed" => row.slot # None /\ row.res # None,
         rec' = rec, setup' = setup,
         \A q \in Requests : req'[q] = req[q] \/ req'[q] = NoRequest,
         req' \in [Requests -> [m : Meetings \cup {None}, seen : Meeting]]
  PROVE  MeetingInv'
<1>1. mtg \in [Meetings -> Meeting] /\ mtg' \in [Meetings -> Meeting]
  BY DEF MeetingInv, MeetingTypeOK
<1>2. MeetingTypeOK'
  BY <1>1 DEF MeetingInv, MeetingTypeOK
<1>3. ConfirmedIsPlaced'
  BY <1>1 DEF MeetingInv, ConfirmedIsPlaced
<1>4. ConsentBeforeMeeting'
  BY <1>1, MeetingConstants DEF MeetingInv, ConsentBeforeMeeting
<1>5. ReadStays'
  BY <1>1 DEF MeetingInv, ReadStays
<1> QED BY <1>2, <1>3, <1>4, <1>5 DEF MeetingInv

(* A request that ends leaves the others as they are.                      *)
LEMMA NoRequestIsRow ==
  ASSUME MeetingInv, NEW q \in Requests, req' = [req EXCEPT ![q] = NoRequest]
  PROVE  /\ req' \in [Requests -> [m : Meetings \cup {None}, seen : Meeting]]
         /\ req'[q] = NoRequest
         /\ \A p \in Requests : req'[p] = req[p] \/ req'[p] = NoRequest
<1>1. NoRequest \in [m : Meetings \cup {None}, seen : Meeting]
  BY DEF NoRequest, NewMeeting, Meeting
<1> QED BY <1>1 DEF MeetingInv, MeetingTypeOK

(* What a request under way has read.                                      *)
LEMMA ReadRow ==
  ASSUME MeetingInv, NEW q \in Requests, req[q] # NoRequest
  PROVE  /\ req[q].m \in Meetings /\ req[q].seen \in Meeting
         /\ mtg[req[q].m] \in Meeting
         /\ mtg[req[q].m].st # "absent"
BY DEF MeetingInv, MeetingTypeOK, ReadStays

(* A participant's command writes a status, and clears no place.           *)
LEMMA CommandKeeps ==
  ASSUME MeetingInv, NEW q \in Requests, Command(q)
  PROVE  MeetingInv'
<1> DEFINE m == req[q].m
           seen == req[q].seen
<1>1. /\ m \in Meetings /\ seen \in Meeting /\ mtg[m] \in Meeting
      /\ mtg[m].st # "absent"
  BY ReadRow DEF Command
<1>2. PICK who \in Parties(m), to \in MeetingStatuses :
        /\ Transition(who, m, seen.st, to)
        /\ mtg' = [mtg EXCEPT ![m] = Update(@, seen, [seen EXCEPT !.st = to])]
  BY DEF Command
<1> DEFINE new == [seen EXCEPT !.st = to]
           row == Update(mtg[m], seen, new)
<1>3. new \in Meeting /\ new.st = to /\ new.slot = seen.slot /\ new.res = seen.res
  BY <1>1 DEF Meeting
<1>4. to # "confirmed" /\ to # seen.st
  BY <1>2 DEF Transition
<1> HIDE DEF new
<1>5. /\ row \in Meeting
      /\ row.st = to /\ row.slot = mtg[m].slot /\ row.res = mtg[m].res
  BY <1>1, <1>3, <1>4, UpdatedRow
<1>6. mtg' = [mtg EXCEPT ![m] = row]
  BY <1>1, <1>2 DEF new, MeetingInv, MeetingTypeOK
<1>7. to # "absent"
  BY DEF MeetingStatuses
<1> HIDE DEF m, seen, row
<1>8. /\ rec' = rec /\ setup' = setup
      /\ req' = [req EXCEPT ![q] = NoRequest]
  BY DEF Command
<1> QED BY <1>1, <1>4, <1>5, <1>6, <1>7, <1>8, NoRequestIsRow, WriteKeeps

(* A confirmation leaves a place in the row it writes.                     *)
LEMMA ConfirmKeeps ==
  ASSUME MeetingInv, NEW q \in Requests, Confirm(q)
  PROVE  MeetingInv'
<1> DEFINE m == req[q].m
           seen == req[q].seen
<1>1. /\ m \in Meetings /\ seen \in Meeting /\ mtg[m] \in Meeting
      /\ mtg[m].st # "absent"
      /\ seen.slot # None => mtg[m].slot # None
      /\ seen.res # None => mtg[m].res # None
  BY ReadRow DEF Confirm, MeetingInv, ReadStays
<1>2. PICK slot \in Slots, res \in Resources :
        mtg' = [mtg EXCEPT ![m] = Update(mtg[m], seen, ConfirmedRow(slot, res))]
  BY DEF Confirm
<1> DEFINE row == Update(mtg[m], seen, ConfirmedRow(slot, res))
<1>3. ConfirmedRow(slot, res) \in Meeting
  BY DEF ConfirmedRow, Meeting, MeetingStatuses
<1>4. seen.st # "confirmed"
  BY DEF Confirm, Confirmable
<1>5. /\ row \in Meeting
      /\ row.st = "confirmed"
      /\ row.slot = IF slot # seen.slot THEN slot ELSE mtg[m].slot
      /\ row.res = IF res # seen.res THEN res ELSE mtg[m].res
  <2>1. /\ ConfirmedRow(slot, res).st = "confirmed"
        /\ ConfirmedRow(slot, res).slot = slot
        /\ ConfirmedRow(slot, res).res = res
    BY DEF ConfirmedRow
  <2> QED BY <1>1, <1>3, <1>4, <2>1, UpdatedRow
<1> HIDE DEF row
<1>6. slot # None /\ res # None
  BY MeetingConstants
<1>7. row.slot # None /\ row.res # None
  BY <1>1, <1>5, <1>6
<1>8. /\ rec' = rec /\ setup' = setup
      /\ req' = [req EXCEPT ![q] = NoRequest]
  BY DEF Confirm
<1>9. mtg' = [mtg EXCEPT ![m] = row]
  BY <1>2 DEF row
<1> HIDE DEF m, seen
<1> QED BY <1>1, <1>5, <1>7, <1>8, <1>9, NoRequestIsRow, WriteKeeps

(* The organizer confirms with a place and closes without clearing it.     *)
LEMMA OrganizerKeeps ==
  ASSUME MeetingInv, NEW m \in Meetings, OrganizerConfirm(m) \/ OrganizerClose(m)
  PROVE  MeetingInv'
<1>1. mtg[m] \in Meeting /\ UNCHANGED <<rec, req, setup>>
  BY DEF MeetingInv, MeetingTypeOK, OrganizerConfirm, OrganizerClose
<1>2. req' \in [Requests -> [m : Meetings \cup {None}, seen : Meeting]]
  BY <1>1 DEF MeetingInv, MeetingTypeOK
<1>3. CASE OrganizerConfirm(m)
  <2>1. PICK slot \in Slots, res \in Resources :
          mtg' = [mtg EXCEPT ![m] = ConfirmedRow(slot, res)]
    BY <1>3 DEF OrganizerConfirm
  <2>2. ConfirmedRow(slot, res) \in Meeting /\ slot # None /\ res # None
    BY MeetingConstants DEF ConfirmedRow, Meeting, MeetingStatuses
  <2>3. mtg[m].st # "absent"
    BY <1>3 DEF OrganizerConfirm, Confirmable
  <2>4. /\ ConfirmedRow(slot, res).st = "confirmed"
        /\ ConfirmedRow(slot, res).slot = slot
        /\ ConfirmedRow(slot, res).res = res
    BY DEF ConfirmedRow
  <2> QED BY <1>1, <1>2, <2>1, <2>2, <2>3, <2>4, WriteKeeps
<1>4. CASE OrganizerClose(m)
  <2>1. PICK to \in {"cancelled", "completed", "no_show"} :
          mtg[m].st # "absent" /\ mtg' = [mtg EXCEPT ![m].st = to]
    BY <1>4 DEF OrganizerClose
  <2> DEFINE row == [mtg[m] EXCEPT !.st = to]
  <2>2. /\ row \in Meeting
        /\ row.st = to /\ row.slot = mtg[m].slot /\ row.res = mtg[m].res
    BY <1>1 DEF Meeting, MeetingStatuses
  <2>3. mtg' = [mtg EXCEPT ![m] = row]
    BY <2>1
  <2> HIDE DEF row
  <2> QED BY <1>1, <1>2, <2>1, <2>2, <2>3, WriteKeeps
<1> QED BY <1>3, <1>4

(* A participant's request is not one of a recommendation.                 *)
LEMMA CreateKeeps ==
  ASSUME MeetingInv, NEW m \in Meetings, CreateMeeting(m)
  PROVE  MeetingInv'
<1>1. NewMeeting("requested") \in Meeting
  BY DEF NewMeeting, Meeting, MeetingStatuses
<1>2. /\ mtg \in [Meetings -> Meeting]
      /\ mtg' = [mtg EXCEPT ![m] = NewMeeting("requested")]
      /\ mtg[m].st = "absent" /\ m \notin Recommended
      /\ UNCHANGED <<rec, req, setup>>
  BY DEF CreateMeeting, MeetingInv, MeetingTypeOK
<1>3. MeetingTypeOK'
  BY <1>1, <1>2 DEF MeetingInv, MeetingTypeOK
<1>4. ReadStays'
  BY <1>2 DEF MeetingInv, ReadStays
<1>5. ConfirmedIsPlaced'
  BY <1>2 DEF MeetingInv, ConfirmedIsPlaced, NewMeeting
<1>6. ConsentBeforeMeeting'
  BY <1>2, MeetingConstants DEF MeetingInv, ConsentBeforeMeeting
<1> QED BY <1>3, <1>4, <1>5, <1>6 DEF MeetingInv

(* What has just been read is in the row.                                  *)
LEMMA LookKeeps ==
  ASSUME MeetingInv, NEW q \in Requests, NEW m \in Meetings, Look(q, m)
  PROVE  MeetingInv'
<1>1. /\ mtg[m] \in Meeting /\ mtg[m].st # "absent"
      /\ req' = [req EXCEPT ![q] = [m |-> m, seen |-> mtg[m]]]
      /\ UNCHANGED <<mtg, rec, setup>>
  BY DEF Look, MeetingInv, MeetingTypeOK
<1>2. MeetingTypeOK'
  BY <1>1 DEF MeetingInv, MeetingTypeOK
<1>3. ReadStays'
  BY <1>1 DEF MeetingInv, MeetingTypeOK, ReadStays
<1>4. ConfirmedIsPlaced' /\ ConsentBeforeMeeting'
  BY <1>1 DEF MeetingInv, ConfirmedIsPlaced, ConsentBeforeMeeting
<1> QED BY <1>2, <1>3, <1>4 DEF MeetingInv

(* The second interest makes the meeting, still without a place.           *)
LEMMA RespondKeeps ==
  ASSUME MeetingInv, NEW m \in Meetings, Respond(m)
  PROVE  MeetingInv'
<1>1. /\ mtg \in [Meetings -> Meeting] /\ rec \in [Recommended -> Recommendation]
      /\ m \in Recommended /\ rec[m].st = "awaiting_responses"
      /\ mtg[m].st = "absent"
      /\ UNCHANGED <<req, setup>>
  BY DEF Respond, MeetingInv, MeetingTypeOK, ConsentBeforeMeeting
<1>2. PICK side \in {"a", "b"}, answer \in Responses :
        LET answered == [rec[m] EXCEPT ![side] = answer]
            after == StatusAfterAnswer(answered, setup.auto)
        IN /\ rec' = [rec EXCEPT ![m] = [answered EXCEPT !.st = after]]
           /\ mtg' = IF after = "converted_to_meeting"
                     THEN [mtg EXCEPT ![m] = NewMeeting("scheduling")] ELSE mtg
  BY DEF Respond
<1> DEFINE answered == [rec[m] EXCEPT ![side] = answer]
           after == StatusAfterAnswer(answered, setup.auto)
           row == [answered EXCEPT !.st = after]
<1>3. answered \in Recommendation /\ answered.st = "awaiting_responses"
  BY <1>1 DEF Recommendation, Responses
<1>4. /\ after \in RecommendationStatuses
      /\ after = "converted_to_meeting" => answered.a = "interested" /\ answered.b = "interested"
  <2> HIDE DEF answered
  <2>1. {answered.a, answered.b} = {"interested"} =>
          answered.a = "interested" /\ answered.b = "interested"
    OBVIOUS
  <2> QED BY <1>3, <2>1 DEF StatusAfterAnswer, RecommendationStatuses
<1>5. /\ row \in Recommendation /\ row.st = after
      /\ row.a = answered.a /\ row.b = answered.b
  <2> HIDE DEF after, answered
  <2> QED BY <1>3, <1>4 DEF Recommendation
<1>6. /\ rec' = [rec EXCEPT ![m] = row]
      /\ mtg' = IF after = "converted_to_meeting"
                THEN [mtg EXCEPT ![m] = NewMeeting("scheduling")] ELSE mtg
  BY <1>2
<1> HIDE DEF row, after, answered
<1>7. NewMeeting("scheduling") \in Meeting
  BY DEF NewMeeting, Meeting, MeetingStatuses
<1>8. MeetingTypeOK'
  BY <1>1, <1>5, <1>6, <1>7 DEF MeetingInv, MeetingTypeOK
<1>9. ReadStays'
  BY <1>1, <1>6 DEF MeetingInv, ReadStays
<1>10. ConfirmedIsPlaced'
  BY <1>1, <1>6 DEF MeetingInv, ConfirmedIsPlaced, NewMeeting
<1>11. ConsentBeforeMeeting'
  BY <1>1, <1>4, <1>5, <1>6, MeetingConstants DEF MeetingInv, ConsentBeforeMeeting, NewMeeting
<1> QED BY <1>8, <1>9, <1>10, <1>11 DEF MeetingInv

(* Steps that write no meeting.                                            *)
LEMMA OtherKeeps ==
  ASSUME MeetingInv,
         \/ UNCHANGED meetingVars
         \/ UpdateSettings
         \/ \E m \in Meetings : Recommend(m) \/ RespondLate(m)
         \/ \E q \in Requests : GiveUp(q)
  PROVE  MeetingInv'
<1>1. CASE UNCHANGED meetingVars
  BY <1>1 DEF MeetingInv, MeetingTypeOK, ReadStays, ConfirmedIsPlaced, ConsentBeforeMeeting,
              meetingVars
<1>2. CASE UpdateSettings
  BY <1>2 DEF UpdateSettings, MeetingInv, MeetingTypeOK, ReadStays, ConfirmedIsPlaced,
              ConsentBeforeMeeting
<1>3. ASSUME NEW m \in Meetings, Recommend(m) \/ RespondLate(m) PROVE MeetingInv'
  <2>1. /\ m \in Recommended /\ rec[m].st \in {"absent", "awaiting_responses"}
        /\ UNCHANGED <<mtg, req, setup>>
        /\ rec \in [Recommended -> Recommendation]
    BY <1>3 DEF Recommend, RespondLate, MeetingInv, MeetingTypeOK
  <2>2. PICK row \in Recommendation :
          rec' = [rec EXCEPT ![m] = row] /\ row.st \in {"awaiting_responses", "expired"}
    <3>1. CASE Recommend(m)
      <4> DEFINE row == [st |-> "awaiting_responses", a |-> "pending", b |-> "pending"]
      <4>1. row \in Recommendation
        BY DEF Recommendation, RecommendationStatuses, Responses
      <4> QED BY <3>1, <4>1 DEF Recommend
    <3>2. CASE RespondLate(m)
      <4> DEFINE row == [rec[m] EXCEPT !.st = "expired"]
      <4>1. row \in Recommendation /\ row.st = "expired"
        BY <2>1 DEF Recommendation, RecommendationStatuses
      <4>2. rec' = [rec EXCEPT ![m] = row]
        BY <3>2 DEF RespondLate
      <4> HIDE DEF row
      <4> QED BY <4>1, <4>2
    <3> QED BY <1>3, <3>1, <3>2
  <2>3. MeetingTypeOK'
    BY <2>1, <2>2 DEF MeetingInv, MeetingTypeOK
  <2>4. ReadStays' /\ ConfirmedIsPlaced'
    BY <2>1 DEF MeetingInv, ReadStays, ConfirmedIsPlaced
  <2>5. ConsentBeforeMeeting'
    BY <2>1, <2>2 DEF MeetingInv, ConsentBeforeMeeting
  <2> QED BY <2>3, <2>4, <2>5 DEF MeetingInv
<1>4. ASSUME NEW q \in Requests, GiveUp(q) PROVE MeetingInv'
  <2>1. req' = [req EXCEPT ![q] = NoRequest] /\ UNCHANGED <<mtg, rec, setup>>
    BY <1>4 DEF GiveUp
  <2>2. /\ req' \in [Requests -> [m : Meetings \cup {None}, seen : Meeting]]
        /\ \A p \in Requests : req'[p] = req[p] \/ req'[p] = NoRequest
    BY <2>1, NoRequestIsRow
  <2>3. MeetingTypeOK'
    BY <2>1, <2>2 DEF MeetingInv, MeetingTypeOK
  <2>4. ReadStays'
    BY <2>1, <2>2 DEF MeetingInv, ReadStays
  <2>5. ConfirmedIsPlaced' /\ ConsentBeforeMeeting'
    BY <2>1 DEF MeetingInv, ConfirmedIsPlaced, ConsentBeforeMeeting
  <2> QED BY <2>3, <2>4, <2>5 DEF MeetingInv
<1> QED BY <1>1, <1>2, <1>3, <1>4

(* Every step of meetings keeps the invariant.                             *)
LEMMA MeetingStep == MeetingInv /\ [MeetingNext]_meetingVars => MeetingInv'
<1> SUFFICES ASSUME MeetingInv, [MeetingNext]_meetingVars PROVE MeetingInv'
  OBVIOUS
<1> QED BY CommandKeeps, ConfirmKeeps, OrganizerKeeps, CreateKeeps, LookKeeps, RespondKeeps,
           OtherKeeps DEF MeetingNext

(* There are no meetings at first.                                         *)
LEMMA MeetingStart == MeetingInit => MeetingInv
<1> SUFFICES ASSUME MeetingInit PROVE MeetingInv
  OBVIOUS
<1>1. MeetingTypeOK
  BY DEF MeetingInit, MeetingTypeOK, NoRequest, NewMeeting, Meeting, Recommendation, Responses
<1>2. ReadStays
  BY DEF MeetingInit, ReadStays
<1>3. ConfirmedIsPlaced /\ ConsentBeforeMeeting
  BY MeetingConstants DEF MeetingInit, ConfirmedIsPlaced, ConsentBeforeMeeting, NewMeeting
<1> QED BY <1>1, <1>2, <1>3 DEF MeetingInv

(* The meetings, recommendations and requests keep their invariant.        *)
THEOREM MeetingInvariant == MeetingSpec => []MeetingInv
  BY MeetingStart, MeetingStep, PTL DEF MeetingSpec

(* A confirmed meeting has a slot and a resource (confirm, and the columns *)
(* an UPDATE names), for any number of requests that read it long before.  *)
THEOREM PlacedWhenConfirmed == MeetingSpec => []ConfirmedIsPlaced
<1>1. MeetingInv => ConfirmedIsPlaced
  BY DEF MeetingInv
<1> QED BY <1>1, MeetingInvariant, PTL

(* A recommended meeting has the consent of both participants              *)
(* (respond_to_recommendation).                                            *)
THEOREM ConsentFirst == MeetingSpec => []ConsentBeforeMeeting
<1>1. MeetingInv => ConsentBeforeMeeting
  BY DEF MeetingInv
<1> QED BY <1>1, MeetingInvariant, PTL
-----------------------------------------------------------------------------
(* Second bookings                                                         *)

\* Meeting m is confirmed in the place the conflict query found free.
FreshBooking(m, slot, res) ==
  ~Conflict(m, slot, res) /\ mtg' = [mtg EXCEPT ![m] = ConfirmedRow(slot, res)]

(* A booking without a conflict takes nobody's slot.                       *)
LEMMA FreshIsFree ==
  ASSUME MeetingInv, NEW m \in Meetings, NEW slot \in Slots, NEW res \in Resources,
         FreshBooking(m, slot, res), NEW k \in Meetings, Clash(k)'
  PROVE  Clash(k)
<1>1. /\ mtg \in [Meetings -> Meeting]
      /\ mtg'[m].st = "confirmed" /\ mtg'[m].slot = slot
      /\ \A x \in Meetings : x # m => mtg'[x] = mtg[x]
  BY DEF FreshBooking, ConfirmedRow, MeetingInv, MeetingTypeOK
<1>2. PICK n \in Meetings \ {k} :
        /\ mtg'[k].st = "confirmed" /\ mtg'[n].st = "confirmed"
        /\ mtg'[k].slot = mtg'[n].slot
        /\ Parties(k) \cap Parties(n) # {}
  BY DEF Clash, Parties
<1>3. \A x \in Meetings \ {m} :
        ~(mtg[x].st = "confirmed" /\ mtg[x].slot = slot /\ Parties(x) \cap Parties(m) # {})
  BY DEF FreshBooking, Conflict
<1>4. k # m
  BY <1>1, <1>2, <1>3
<1>5. n # m
  BY <1>1, <1>2, <1>3
<1> QED BY <1>1, <1>2, <1>4, <1>5 DEF Clash

(* A step after which no more meetings are confirmed takes nobody's slot.  *)
LEMMA FewerConfirmed ==
  ASSUME \A x \in Meetings : mtg'[x].st = "confirmed" => mtg'[x] = mtg[x],
         NEW k \in Meetings, Clash(k)'
  PROVE  Clash(k)
BY DEF Clash, Parties

\* Only a confirmation on a row changed since it was read makes two meetings clash.
LEMMA BookingStep ==
  ASSUME MeetingInv, [MeetingNext]_meetingVars, NEW k \in Meetings, ~Clash(k), Clash(k)'
  PROVE  \E q \in Requests, n \in Meetings :
           req[q].m = n /\ req[q].seen # mtg[n] /\ req'[q] = NoRequest
<1>1. mtg \in [Meetings -> Meeting]
  BY DEF MeetingInv, MeetingTypeOK
<1>2. ASSUME UNCHANGED mtg PROVE FALSE
  BY <1>2, FewerConfirmed
<1>3. ASSUME NEW m \in Meetings, NEW row, row.st # "confirmed", mtg' = [mtg EXCEPT ![m] = row]
      PROVE  FALSE
  <2>1. \A x \in Meetings : mtg'[x].st = "confirmed" => mtg'[x] = mtg[x]
    BY <1>1, <1>3
  <2> QED BY <2>1, FewerConfirmed
<1>4. ASSUME NEW m \in Meetings, CreateMeeting(m) PROVE FALSE
  BY <1>3, <1>4 DEF CreateMeeting, NewMeeting
<1>5. ASSUME NEW m \in Meetings, OrganizerConfirm(m) PROVE FALSE
  BY <1>5, FreshIsFree DEF OrganizerConfirm, FreshBooking
<1>6. ASSUME NEW m \in Meetings, OrganizerClose(m) PROVE FALSE
  <2>1. PICK to \in {"cancelled", "completed", "no_show"} : mtg' = [mtg EXCEPT ![m].st = to]
    BY <1>6 DEF OrganizerClose
  <2>2. [mtg[m] EXCEPT !.st = to].st = to
    BY <1>1 DEF Meeting
  <2> QED BY <1>3, <2>1, <2>2
<1>7. ASSUME NEW m \in Meetings, Respond(m) PROVE FALSE
  <2>1. mtg' = [mtg EXCEPT ![m] = NewMeeting("scheduling")] \/ mtg' = mtg
    BY <1>7 DEF Respond
  <2> QED BY <1>2, <1>3, <2>1 DEF NewMeeting
<1>8. ASSUME NEW q \in Requests, Command(q) \/ Confirm(q), req[q].seen = mtg[req[q].m]
      PROVE  FALSE
  <2> DEFINE m == req[q].m
             seen == req[q].seen
  <2>1. m \in Meetings /\ seen \in Meeting /\ mtg[m] = seen
    BY <1>8, ReadRow DEF Command, Confirm
  <2>2. CASE Command(q)
    <3>1. PICK who \in Parties(m), to \in MeetingStatuses :
            /\ Transition(who, m, seen.st, to)
            /\ mtg' = [mtg EXCEPT ![m] = Update(@, seen, [seen EXCEPT !.st = to])]
      BY <2>2 DEF Command
    <3>2. [seen EXCEPT !.st = to] \in Meeting /\ [seen EXCEPT !.st = to].st = to
      BY <2>1 DEF Meeting
    <3>3. to # "confirmed"
      BY <3>1 DEF Transition
    <3>4. Update(mtg[m], seen, [seen EXCEPT !.st = to]) = [seen EXCEPT !.st = to]
      BY <2>1, <3>2, UpdatedRow
    <3>5. mtg' = [mtg EXCEPT ![m] = [seen EXCEPT !.st = to]]
      BY <1>1, <2>1, <3>1, <3>4
    <3> QED BY <1>3, <2>1, <3>2, <3>3, <3>5
  <2>3. CASE Confirm(q)
    <3>1. PICK slot \in Slots, res \in Resources :
            /\ ~Conflict(m, slot, res)
            /\ mtg' = [mtg EXCEPT ![m] = Update(mtg[m], seen, ConfirmedRow(slot, res))]
      BY <2>3 DEF Confirm
    <3>2. ConfirmedRow(slot, res) \in Meeting
      BY DEF ConfirmedRow, Meeting, MeetingStatuses
    <3>3. Update(mtg[m], seen, ConfirmedRow(slot, res)) = ConfirmedRow(slot, res)
      BY <2>1, <3>2, UpdatedRow
    <3>4. FreshBooking(m, slot, res)
      BY <3>1, <3>3 DEF FreshBooking
    <3> QED BY <2>1, <3>4, FreshIsFree
  <2> QED BY <1>8, <2>2, <2>3
<1>9. ASSUME NEW q \in Requests, Command(q) \/ Confirm(q)
      PROVE  req[q].m \in Meetings /\ req'[q] = NoRequest
  BY <1>9, ReadRow DEF Command, Confirm, MeetingInv, MeetingTypeOK
<1>10. ASSUME NEW m \in Meetings,
              \/ Recommend(m) \/ RespondLate(m)
              \/ \E q \in Requests : Look(q, m) \/ GiveUp(q)
       PROVE  FALSE
  BY <1>2, <1>10 DEF Recommend, RespondLate, Look, GiveUp
<1> QED BY <1>2, <1>4, <1>5, <1>6, <1>7, <1>8, <1>9, <1>10 DEF MeetingNext, UpdateSettings, meetingVars

(* A participant gets a second meeting in a slot only by a confirmation    *)
(* decided on a row that has changed since it was read: the conflict query *)
(* under the slot's lock is enough for every other step.                   *)
THEOREM FreshBookingsAreFree == MeetingSpec => FreshConfirmIsFree
<1>1. MeetingInv /\ [MeetingNext]_meetingVars =>
        [\A m \in Meetings :
           ~Clash(m) /\ Clash(m)' =>
             \E q \in Requests, n \in Meetings : /\ req[q].m = n /\ req[q].seen # mtg[n]
                                                 /\ req'[q] = NoRequest]_meetingVars
  BY BookingStep
<1> QED BY <1>1, MeetingInvariant, PTL DEF MeetingSpec, FreshConfirmIsFree

-----------------------------------------------------------------------------
(***************************************************************************)
(* Conversations. A socket that has joined shows every message, or the     *)
(* news of it is under way.                                                *)
(***************************************************************************)

MessageRows == [st : {"visible", "deleted"}, conv : Conversations, by : Participants,
                kind : {"text", "system"}, edited : BOOLEAN]

Sending == {q \in ChatRequests : chat[q].step = "send"}

ChatTypes ==
  /\ conv \in [Conversations -> {"absent", "active"}]
  /\ msg \in [Messages -> MessageRows \cup {NoMessage}]
  /\ sock = [s \in Sockets |-> sock[s]]
  /\ chat = [q \in ChatRequests |-> chat[q]]
  /\ \A s \in Sockets : sock[s].on => sock[s].conv \in Conversations /\ sock[s].shows \subseteq Messages
  /\ \A q \in ChatRequests :
       /\ chat[q].step \in {"idle", "open", "send", "edit", "delete", "tell"}
       /\ chat[q].step = "open" => chat[q].who \in Participants
       /\ chat[q].step \in {"send", "edit", "delete", "tell"} => chat[q].m \in Messages
       /\ chat[q].step = "send" => chat[q].row \in MessageRows

(* A message is sent by one request, and changed once it is there; a       *)
(* deletion is told of a message that is deleted.                          *)
ChangesFollow ==
  /\ \A q \in Sending : msg[chat[q].m].st = "absent"
  /\ \A q, r \in Sending : chat[q].m = chat[r].m => q = r
  /\ \A q \in ChatRequests :
       /\ chat[q].step \in {"edit", "delete"} => msg[chat[q].m].st # "absent"
       /\ chat[q].step = "tell" /\ chat[q].what = "message_deleted" => msg[chat[q].m].st = "deleted"

(* Sockets are of conversations that exist.                                *)
SocketsJoin == \A s \in Sockets : sock[s].on => conv[sock[s].conv] = "active"

(* A message that a loaded client does not show is still to be announced   *)
(* as new.                                                                 *)
NewsComes ==
  \A s \in Sockets : sock[s].on /\ sock[s].loaded =>
    \A m \in Visible(sock[s].conv) :
      \/ m \in sock[s].shows
      \/ \E q \in ChatRequests : chat[q].step = "tell" /\ chat[q].m = m /\ chat[q].what = "new_message"

ChatInv ==
  /\ ChatTypes
  /\ ChangesFollow
  /\ SocketsJoin
  /\ NewsComes

-----------------------------------------------------------------------------
(* A handler takes a step, and the others stay where they are.             *)
LEMMA BecomeOne ==
  ASSUME ChatTypes, NEW q \in ChatRequests, NEW s, Become(q, s)
  PROVE  /\ chat'[q] = s /\ \A r \in ChatRequests \ {q} : chat'[r] = chat[r]
         /\ chat' = [r \in ChatRequests |-> chat'[r]]
BY DEF ChatTypes, Become

(* A handler begins something and has committed nothing yet.               *)
LEMMA ChatLookKeeps ==
  ASSUME ChatInv, NEW q \in ChatRequests,
         \/ \E m \in Messages : ChangeCheck(q, m)
         \/ \E p \in Participants : \/ OpenLook(q, p)
                                    \/ \E c \in Conversations : SendCheck(q, p, c) \/ SystemCheck(q, p, c)
  PROVE  ChatInv'
<1>1. /\ ChatTypes /\ ChangesFollow /\ SocketsJoin /\ NewsComes
      /\ conv' = conv /\ msg' = msg /\ sock' = sock /\ chat[q].step = "idle"
      /\ msg \in [Messages -> MessageRows \cup {NoMessage}]
  BY DEF ChatInv, ChatTypes, ChangeCheck, OpenLook, SendCheck, SystemCheck
<1>2. PICK s :
        /\ Become(q, s)
        /\ \/ s.step = "open" /\ s.who \in Participants
           \/ s.step = "send" /\ s.m \in Fresh /\ s.row \in MessageRows
           \/ s.step \in {"edit", "delete"} /\ s.m \in Messages /\ msg[s.m].st = "visible"
  <2>1. ASSUME NEW m \in Messages, ChangeCheck(q, m)
        PROVE  \E s : Become(q, s) /\ s.step \in {"edit", "delete"} /\ s.m \in Messages
                                   /\ msg[s.m].st = "visible"
    BY <2>1 DEF ChangeCheck
  <2>2. ASSUME NEW p \in Participants, OpenLook(q, p)
        PROVE  \E s : Become(q, s) /\ s.step = "open" /\ s.who \in Participants
    BY <2>2 DEF OpenLook
  <2>3. ASSUME NEW p \in Participants, NEW c \in Conversations, SendCheck(q, p, c) \/ SystemCheck(q, p, c)
        PROVE  \E s : Become(q, s) /\ s.step = "send" /\ s.m \in Fresh /\ s.row \in MessageRows
    <3>1. PICK m \in Fresh, kind \in {"text", "system"} :
            Become(q, [step |-> "send", m |-> m, row |-> MessageRow(c, p, kind)])
      BY <2>3 DEF SendCheck, SystemCheck
    <3>2. MessageRow(c, p, kind) \in MessageRows
      BY DEF MessageRow, MessageRows
    <3> QED BY <3>1, <3>2
  <2> QED BY <2>1, <2>2, <2>3
<1>3. /\ chat'[q] = s /\ \A r \in ChatRequests \ {q} : chat'[r] = chat[r]
      /\ chat' = [r \in ChatRequests |-> chat'[r]]
  BY <1>1, <1>2, BecomeOne
<1>4. Fresh \subseteq Messages /\ \A m \in Fresh : msg[m].st = "absent"
  BY <1>1 DEF Fresh, Begun, Committed, NoMessage
<1>5. ChatTypes'
  BY <1>1, <1>2, <1>3, <1>4 DEF ChatTypes
<1>6. ChangesFollow'
  <2>1. \A r \in Sending' : r \in Sending \/ (r = q /\ s.step = "send")
    BY <1>3 DEF Sending
  <2>2. \A r \in Sending : chat'[r] = chat[r] /\ chat[r].m \in InFlight
    BY <1>1, <1>3 DEF Sending, InFlight
  <2>3. s.step = "send" => /\ msg[s.m].st = "absent"
                           /\ \A r \in Sending : chat[r].m # s.m
    BY <1>2, <1>4, <2>2 DEF Fresh, Begun
  <2>4. /\ \A r \in Sending' : msg'[chat'[r].m].st = "absent"
        /\ \A r, u \in Sending' : chat'[r].m = chat'[u].m => r = u
    BY <1>1, <1>3, <2>1, <2>2, <2>3 DEF ChangesFollow
  <2>5. \A r \in ChatRequests :
          /\ chat'[r].step \in {"edit", "delete"} => msg'[chat'[r].m].st # "absent"
          /\ chat'[r].step = "tell" /\ chat'[r].what = "message_deleted" =>
               msg'[chat'[r].m].st = "deleted"
    BY <1>1, <1>2, <1>3 DEF ChangesFollow
  <2> QED BY <2>4, <2>5 DEF ChangesFollow
<1>7. SocketsJoin'
  BY <1>1 DEF SocketsJoin
<1>8. NewsComes'
  <2>1. \A r \in ChatRequests : chat[r].step = "tell" => chat'[r] = chat[r]
    BY <1>1, <1>3
  <2>2. \A c : Visible(c)' = Visible(c)
    BY <1>1 DEF Visible
  <2>3. \A t \in Sockets : Visible(sock[t].conv)' = Visible(sock[t].conv)
    BY <1>1 DEF Visible
  <2> QED BY <1>1, <2>1, <2>3 DEF NewsComes
<1> QED BY <1>5, <1>6, <1>7, <1>8 DEF ChatInv

(* A handler commits a message or a change of one, and has it to tell.     *)
LEMMA CommitKeeps ==
  ASSUME ChatInv, NEW q \in ChatRequests, SendCommit(q) \/ EditCommit(q) \/ DeleteCommit(q)
  PROVE  /\ ChatInv'
         /\ \A m \in Messages : msg[m].st = "deleted" => msg'[m].st = "deleted"
<1> DEFINE m == chat[q].m
<1>1. /\ ChatTypes /\ ChangesFollow /\ SocketsJoin /\ NewsComes
      /\ conv' = conv /\ sock' = sock /\ m \in Messages
      /\ msg \in [Messages -> MessageRows \cup {NoMessage}]
      /\ chat[q].step \in {"send", "edit", "delete"}
  BY DEF ChatInv, ChatTypes, SendCommit, EditCommit, DeleteCommit
<1> DEFINE Commits(row, what) ==
      /\ msg' = [msg EXCEPT ![m] = row] /\ Become(q, Tell(m, what))
      /\ \/ what = "new_message" /\ row.st \in {"visible", "deleted"} /\ q \in Sending
         \/ /\ what = "message_updated" /\ q \notin Sending
            /\ row.st = msg[m].st /\ row.conv = msg[m].conv
         \/ what = "message_deleted" /\ q \notin Sending /\ row.st = "deleted"
<1>2. PICK what : \E row \in MessageRows : Commits(row, what)
  <2>1. CASE SendCommit(q)
    <3>1. chat[q].row \in MessageRows /\ chat[q].row.st \in {"visible", "deleted"}
      BY <1>1, <2>1 DEF SendCommit, ChatTypes, MessageRows
    <3>2. Commits(chat[q].row, "new_message")
      BY <2>1, <3>1 DEF SendCommit, Sending
    <3> HIDE DEF Commits
    <3> QED BY <3>1, <3>2
  <2>2. CASE EditCommit(q) \/ DeleteCommit(q)
    <3>1. msg[m].st # "absent" /\ q \notin Sending
      BY <1>1, <2>2 DEF EditCommit, DeleteCommit, ChangesFollow, Sending
    <3>2. msg[m] \in MessageRows
      BY <1>1, <3>1 DEF NoMessage
    <3>3. CASE EditCommit(q)
      <4> DEFINE row == [msg[m] EXCEPT !.edited = TRUE]
      <4>1. row \in MessageRows /\ row.st = msg[m].st /\ row.conv = msg[m].conv
        BY <3>2 DEF MessageRows
      <4>2. msg' = [msg EXCEPT ![m] = row] /\ Become(q, Tell(m, "message_updated"))
        BY <3>3 DEF EditCommit, EditedRow
      <4>3. Commits(row, "message_updated")
        BY <3>1, <4>1, <4>2
      <4> HIDE DEF Commits, row
      <4> QED BY <4>1, <4>3
    <3>4. CASE DeleteCommit(q)
      <4> DEFINE row == [msg[m] EXCEPT !.st = "deleted"]
      <4>1. row \in MessageRows /\ row.st = "deleted"
        BY <3>2 DEF MessageRows
      <4>2. msg' = [msg EXCEPT ![m] = row] /\ Become(q, Tell(m, "message_deleted"))
        BY <3>4 DEF DeleteCommit
      <4>3. Commits(row, "message_deleted")
        BY <3>1, <4>1, <4>2
      <4> HIDE DEF Commits, row
      <4> QED BY <4>1, <4>3
    <3> QED BY <2>2, <3>3, <3>4
  <2> QED BY <2>1, <2>2
<1> PICK row \in MessageRows : Commits(row, what)
  BY <1>2
<1>3. msg'[m] = row /\ \A k \in Messages \ {m} : msg'[k] = msg[k]
  BY <1>1
<1>4. /\ chat'[q].step = "tell" /\ chat'[q].m = m /\ chat'[q].what = what
      /\ \A r \in ChatRequests \ {q} : chat'[r] = chat[r]
      /\ chat' = [r \in ChatRequests |-> chat'[r]]
  BY <1>1, BecomeOne DEF Tell
<1>5. row.st \in {"visible", "deleted"}
  BY DEF MessageRows
<1>6. q \in Sending => msg[m].st = "absent"
  BY <1>1 DEF ChangesFollow
<1>7. \A k \in Messages : msg[k].st = "deleted" => msg'[k].st = "deleted"
  BY <1>3, <1>6
<1>8. \A k \in Messages : msg[k].st # "absent" => msg'[k].st # "absent"
  BY <1>3, <1>5
<1>9. ChatTypes'
  <2>1. msg' \in [Messages -> MessageRows \cup {NoMessage}]
    BY <1>1
  <2> QED BY <1>1, <1>4, <2>1 DEF ChatTypes
<1>10. ChangesFollow'
  <2>1. Sending' = Sending \ {q} /\ \A r \in Sending' : chat'[r] = chat[r]
    BY <1>4 DEF Sending
  <2>2. \A r \in Sending' : chat[r].m \in Messages \ {m}
    <3>1. \A r \in Sending : chat[r].m \in Messages /\ msg[chat[r].m].st = "absent"
      BY <1>1 DEF ChangesFollow, ChatTypes, Sending
    <3>2. q \notin Sending => msg[m].st # "absent"
      BY <1>1 DEF ChangesFollow, Sending
    <3> QED BY <1>1, <2>1, <3>1, <3>2 DEF ChangesFollow
  <2>3. /\ \A r \in Sending' : msg'[chat'[r].m].st = "absent"
        /\ \A r, u \in Sending' : chat'[r].m = chat'[u].m => r = u
    BY <1>1, <1>3, <2>1, <2>2 DEF ChangesFollow
  <2>4. what = "message_deleted" => msg'[m].st = "deleted"
    BY <1>3
  <2>5. ASSUME NEW r \in ChatRequests
        PROVE  /\ chat'[r].step \in {"edit", "delete"} => msg'[chat'[r].m].st # "absent"
               /\ chat'[r].step = "tell" /\ chat'[r].what = "message_deleted" =>
                    msg'[chat'[r].m].st = "deleted"
    <3>1. CASE r = q
      BY <3>1, <1>4, <2>4
    <3>2. CASE r # q
      <4>1. chat'[r] = chat[r]
        BY <1>4, <3>2
      <4>2. chat[r].step \in {"edit", "delete", "tell"} => chat[r].m \in Messages
        BY <1>1 DEF ChatTypes
      <4>3. /\ chat[r].step \in {"edit", "delete"} => msg[chat[r].m].st # "absent"
            /\ chat[r].step = "tell" /\ chat[r].what = "message_deleted" =>
                 msg[chat[r].m].st = "deleted"
        BY <1>1 DEF ChangesFollow
      <4> QED BY <1>7, <1>8, <4>1, <4>2, <4>3
    <3> QED BY <3>1, <3>2
  <2> QED BY <2>3, <2>5 DEF ChangesFollow
<1>11. SocketsJoin'
  BY <1>1 DEF SocketsJoin
<1>12. NewsComes'
  <2>1. ASSUME NEW s \in Sockets, sock[s].on, sock[s].loaded,
               NEW k \in Messages, msg'[k].st = "visible", msg'[k].conv = sock[s].conv,
               k \notin sock[s].shows
        PROVE  \E r \in ChatRequests :
                 chat'[r].step = "tell" /\ chat'[r].m = k /\ chat'[r].what = "new_message"
    <3>1. CASE k = m /\ what = "new_message"
      BY <3>1, <1>4
    <3>2. CASE ~(k = m /\ what = "new_message")
      <4>1. msg[k].st = "visible" /\ msg[k].conv = sock[s].conv
        BY <2>1, <3>2, <1>3
      <4>2. PICK r \in ChatRequests :
              chat[r].step = "tell" /\ chat[r].m = k /\ chat[r].what = "new_message"
        BY <2>1, <4>1, <1>1 DEF NewsComes, Visible
      <4>3. chat'[r] = chat[r]
        BY <1>1, <1>4, <4>2
      <4> QED BY <4>2, <4>3
    <3> QED BY <3>1, <3>2
  <2> QED BY <2>1, <1>1 DEF NewsComes, Visible
<1> QED BY <1>7, <1>9, <1>10, <1>11, <1>12 DEF ChatInv

(* The clients of the conversation hear of a message.                      *)
LEMMA BroadcastKeeps ==
  ASSUME ChatInv, NEW q \in ChatRequests, Broadcast(q)
  PROVE  ChatInv'
<1> DEFINE m == chat[q].m
           what == chat[q].what
<1>1. /\ ChatTypes /\ ChangesFollow /\ SocketsJoin /\ NewsComes
      /\ conv' = conv /\ msg' = msg /\ m \in Messages /\ chat[q].step = "tell"
      /\ Become(q, Idle)
  BY DEF ChatInv, ChatTypes, Broadcast
<1>2. sock' = [s \in Sockets |->
                 IF s \in Audience(msg[m].conv)
                 THEN [sock[s] EXCEPT !.shows = Shown(sock[s].shows, m, what)] ELSE sock[s]]
  BY DEF Broadcast
<1>3. /\ chat'[q].step = "idle" /\ \A r \in ChatRequests \ {q} : chat'[r] = chat[r]
      /\ chat' = [r \in ChatRequests |-> chat'[r]]
  BY <1>1, BecomeOne DEF Idle
<1>4. ASSUME NEW s \in Sockets, sock[s].on \/ sock'[s].on
      PROVE  /\ sock'[s].on /\ sock[s].on /\ sock'[s].conv = sock[s].conv
             /\ sock'[s].loaded = sock[s].loaded
             /\ sock'[s].shows = IF sock[s].conv = msg[m].conv THEN Shown(sock[s].shows, m, what)
                                 ELSE sock[s].shows
  BY <1>2, <1>4 DEF Audience
<1>5. \A shows \in SUBSET Messages :
        /\ Shown(shows, m, what) \subseteq Messages
        /\ shows \ {m} \subseteq Shown(shows, m, what)
        /\ what = "new_message" => m \in Shown(shows, m, what)
        /\ what # "message_deleted" => shows \subseteq Shown(shows, m, what)
  BY <1>1 DEF Shown
<1>6. ChatTypes'
  <2>1. sock' = [s \in Sockets |-> sock'[s]]
    BY <1>2
  <2>2. \A s \in Sockets : sock'[s].on => sock'[s].conv \in Conversations /\ sock'[s].shows \subseteq Messages
    BY <1>1, <1>4, <1>5 DEF ChatTypes
  <2> QED BY <1>1, <1>3, <2>1, <2>2 DEF ChatTypes
<1>7. ChangesFollow'
  <2>1. Sending' = Sending /\ \A r \in Sending : chat'[r] = chat[r]
    BY <1>1, <1>3 DEF Sending
  <2>2. \A r \in ChatRequests : chat'[r].step # "idle" => chat'[r] = chat[r]
    BY <1>3
  <2> QED BY <1>1, <2>1, <2>2 DEF ChangesFollow
<1>8. SocketsJoin'
  BY <1>1, <1>4 DEF SocketsJoin
<1>9. NewsComes'
  <2>1. ASSUME NEW s \in Sockets, sock'[s].on, sock'[s].loaded,
               NEW k \in Messages, msg[k].st = "visible", msg[k].conv = sock'[s].conv
        PROVE  \/ k \in sock'[s].shows
               \/ \E r \in ChatRequests :
                    chat'[r].step = "tell" /\ chat'[r].m = k /\ chat'[r].what = "new_message"
    <3>1. /\ sock[s].on /\ sock[s].loaded /\ sock'[s].conv = sock[s].conv
          /\ sock[s].shows \in SUBSET Messages
      BY <1>1, <1>4, <2>1 DEF ChatTypes
    <3>2. k = m => what # "message_deleted"
      BY <1>1, <2>1 DEF ChangesFollow
    <3>3. k \in sock[s].shows => k \in sock'[s].shows
      BY <1>4, <1>5, <3>1, <3>2
    <3>4. \/ k \in sock[s].shows
          \/ \E r \in ChatRequests :
               chat[r].step = "tell" /\ chat[r].m = k /\ chat[r].what = "new_message"
      BY <1>1, <2>1, <3>1 DEF NewsComes, Visible
    <3>5. CASE k \in sock[s].shows
      BY <3>3, <3>5
    <3>6. ASSUME NEW r \in ChatRequests,
                 chat[r].step = "tell" /\ chat[r].m = k /\ chat[r].what = "new_message"
          PROVE  k \in sock'[s].shows \/ (r # q /\ chat'[r] = chat[r])
      <4>1. CASE r = q
        <5>1. k = m /\ what = "new_message" /\ sock[s].conv = msg[m].conv
          BY <2>1, <3>1, <3>6, <4>1
        <5> QED BY <1>4, <1>5, <3>1, <5>1
      <4>2. CASE r # q
        BY <1>3, <4>2
      <4> QED BY <4>1, <4>2
    <3> QED BY <3>4, <3>5, <3>6
  <2> QED BY <2>1, <1>1 DEF NewsComes, Visible
<1> QED BY <1>6, <1>7, <1>8, <1>9 DEF ChatInv

(* A conversation begins with nobody connected to it, perhaps with a       *)
(* message that no request is sending.                                     *)
LEMMA OpenCommitKeeps ==
  ASSUME ChatInv, NEW q \in ChatRequests, OpenCommit(q)
  PROVE  /\ ChatInv'
         /\ \A m \in Messages : msg[m].st = "deleted" => msg'[m].st = "deleted"
<1>1. /\ ChatTypes /\ ChangesFollow /\ SocketsJoin /\ NewsComes
      /\ sock' = sock /\ chat[q].step = "open" /\ chat[q].who \in Participants
      /\ Become(q, Idle) /\ msg \in [Messages -> MessageRows \cup {NoMessage}]
      /\ conv \in [Conversations -> {"absent", "active"}]
  BY DEF ChatInv, ChatTypes, OpenCommit
<1>2. PICK c \in Conversations :
        /\ conv[c] = "absent" /\ conv' = [conv EXCEPT ![c] = "active"]
        /\ \/ msg' = msg
           \/ \E m \in Fresh : msg' = [msg EXCEPT ![m] = MessageRow(c, chat[q].who, "text")]
  BY DEF OpenCommit
<1>3. /\ chat'[q].step = "idle" /\ \A r \in ChatRequests \ {q} : chat'[r] = chat[r]
      /\ chat' = [r \in ChatRequests |-> chat'[r]]
  BY <1>1, BecomeOne DEF Idle
<1>4. /\ msg' \in [Messages -> MessageRows \cup {NoMessage}]
      /\ \A m \in Messages :
           \/ msg'[m] = msg[m]
           \/ m \in Fresh /\ msg'[m].conv = c /\ msg'[m].st = "visible"
  <2>1. MessageRow(c, chat[q].who, "text") \in MessageRows
    BY <1>1 DEF MessageRow, MessageRows
  <2>2. /\ MessageRow(c, chat[q].who, "text").conv = c
        /\ MessageRow(c, chat[q].who, "text").st = "visible"
    BY DEF MessageRow
  <2> QED BY <1>1, <1>2, <2>1, <2>2
<1>5. \A m \in Fresh : msg[m].st = "absent" /\ m \notin InFlight
  BY <1>1 DEF Fresh, Begun, Committed
<1>6. \A m \in Messages : msg[m].st # "absent" => msg'[m].st = msg[m].st
  BY <1>4, <1>5
<1>7. ChatTypes'
  BY <1>1, <1>2, <1>3, <1>4 DEF ChatTypes
<1>8. ChangesFollow'
  <2>1. Sending' = Sending /\ \A r \in Sending : chat'[r] = chat[r]
    BY <1>1, <1>3 DEF Sending
  <2>2. \A r \in Sending : /\ chat[r].m \in Messages /\ chat[r].m \in InFlight
                           /\ msg'[chat[r].m] = msg[chat[r].m]
    BY <1>1, <1>4, <1>5 DEF Sending, InFlight, ChatTypes
  <2>3. /\ \A r \in Sending' : msg'[chat'[r].m].st = "absent"
        /\ \A r, u \in Sending' : chat'[r].m = chat'[u].m => r = u
    BY <1>1, <2>1, <2>2 DEF ChangesFollow
  <2>4. ASSUME NEW r \in ChatRequests
        PROVE  /\ chat'[r].step \in {"edit", "delete"} => msg'[chat'[r].m].st # "absent"
               /\ chat'[r].step = "tell" /\ chat'[r].what = "message_deleted" =>
                    msg'[chat'[r].m].st = "deleted"
    <3>1. chat'[r].step # "idle" => chat'[r] = chat[r]
      BY <1>3
    <3>2. chat[r].step \in {"edit", "delete", "tell"} => chat[r].m \in Messages
      BY <1>1 DEF ChatTypes
    <3>3. /\ chat[r].step \in {"edit", "delete"} => msg[chat[r].m].st # "absent"
          /\ chat[r].step = "tell" /\ chat[r].what = "message_deleted" =>
               msg[chat[r].m].st = "deleted"
      BY <1>1 DEF ChangesFollow
    <3> QED BY <1>6, <3>1, <3>2, <3>3
  <2> QED BY <2>3, <2>4 DEF ChangesFollow
<1>9. SocketsJoin'
  BY <1>1, <1>2 DEF SocketsJoin, ChatTypes
<1>10. NewsComes'
  <2>1. ASSUME NEW s \in Sockets, sock[s].on
        PROVE  Visible(sock[s].conv)' \subseteq Visible(sock[s].conv)
    <3>1. sock[s].conv # c
      BY <1>1, <1>2, <2>1 DEF SocketsJoin
    <3> QED BY <1>1, <1>4, <3>1 DEF Visible
  <2>2. \A r \in ChatRequests : chat[r].step = "tell" => chat'[r] = chat[r]
    BY <1>1, <1>3
  <2> QED BY <1>1, <2>1, <2>2 DEF NewsComes
<1> QED BY <1>6, <1>7, <1>8, <1>9, <1>10 DEF ChatInv

(* Clients come and go, and fetch what is visible.                         *)
LEMMA SocketKeeps ==
  ASSUME ChatInv, NEW s \in Sockets,
         LoadMessages(s) \/ Disconnect(s) \/ \E c \in Conversations : Connect(s, c)
  PROVE  ChatInv'
<1>1. /\ ChatTypes /\ ChangesFollow /\ SocketsJoin /\ NewsComes
      /\ conv' = conv /\ msg' = msg /\ chat' = chat
  BY DEF ChatInv, LoadMessages, Disconnect, Connect
<1> DEFINE Becomes(state) ==
      /\ sock' = [sock EXCEPT ![s] = state]
      /\ state.on => /\ state.conv \in Conversations /\ state.shows \subseteq Messages
                     /\ conv[state.conv] = "active"
                     /\ state.loaded => Visible(state.conv) \subseteq state.shows
<1>2. \E state : Becomes(state)
  <2>1. CASE LoadMessages(s)
    <3> DEFINE state == [sock[s] EXCEPT !.loaded = TRUE,
                                        !.shows = sock[s].shows \cup Visible(sock[s].conv)]
    <3>1. /\ sock[s].on /\ sock[s].conv \in Conversations /\ sock[s].shows \subseteq Messages
          /\ conv[sock[s].conv] = "active"
      BY <1>1, <2>1 DEF LoadMessages, ChatTypes, SocketsJoin
    <3>2. /\ state.conv = sock[s].conv
          /\ state.on => state.shows = sock[s].shows \cup Visible(sock[s].conv)
      BY <3>1
    <3>3. sock' = [sock EXCEPT ![s] = state]
      BY <2>1 DEF LoadMessages
    <3>4. Visible(sock[s].conv) \subseteq Messages
      BY DEF Visible
    <3> HIDE DEF state
    <3>5. Becomes(state)
      BY <3>1, <3>2, <3>3, <3>4
    <3> HIDE DEF Becomes
    <3> QED BY <3>5
  <2>2. CASE Disconnect(s)
    <3>1. Becomes(NoSocket)
      BY <2>2 DEF Disconnect, NoSocket
    <3> QED BY <3>1
  <2>3. ASSUME NEW c \in Conversations, Connect(s, c)
        PROVE  \E state : Becomes(state)
    <3>1. Becomes([on |-> TRUE, conv |-> c, loaded |-> FALSE, shows |-> {}])
      BY <2>3 DEF Connect
    <3> HIDE DEF Becomes
    <3> QED BY <3>1
  <2> QED BY <2>1, <2>2, <2>3
<1> PICK state : Becomes(state)
  BY <1>2
<1>3. sock'[s] = state /\ \A t \in Sockets \ {s} : sock'[t] = sock[t]
  BY <1>1 DEF ChatTypes
<1>4. ChatTypes'
  <2>1. sock' = [t \in Sockets |-> sock'[t]]
    BY <1>1 DEF ChatTypes
  <2> QED BY <1>1, <1>3, <2>1 DEF ChatTypes
<1>5. ChangesFollow'
  BY <1>1 DEF ChangesFollow, Sending
<1>6. SocketsJoin'
  BY <1>1, <1>3 DEF SocketsJoin
<1>7. NewsComes'
  <2>1. ASSUME NEW t \in Sockets, sock'[t].on, sock'[t].loaded, NEW k \in Visible(sock[t].conv)'
        PROVE  \/ k \in sock'[t].shows
               \/ \E r \in ChatRequests :
                    chat'[r].step = "tell" /\ chat'[r].m = k /\ chat'[r].what = "new_message"
    <3>1. k \in Visible(sock'[t].conv)
      BY <1>1, <2>1 DEF Visible
    <3>2. CASE t = s
      BY <1>3, <2>1, <3>1, <3>2
    <3>3. CASE t # s
      BY <1>1, <1>3, <2>1, <3>1, <3>3 DEF NewsComes
    <3> QED BY <3>2, <3>3
  <2> QED BY <2>1 DEF NewsComes
<1> QED BY <1>4, <1>5, <1>6, <1>7 DEF ChatInv

(* There is no conversation and nobody is connected.                       *)
LEMMA ChatInitInv == ChatInit => ChatInv
BY DEF ChatInit, ChatInv, ChatTypes, ChangesFollow, SocketsJoin, NewsComes, Sending,
       NoMessage, NoSocket, Idle

(* Every step of the conversations keeps it, and no deleted message.       *)
LEMMA ChatNextInv ==
  ASSUME ChatInv, [ChatNext]_chatVars
  PROVE  /\ ChatInv'
         /\ \A m \in Messages : msg[m].st = "deleted" => msg'[m].st = "deleted"
<1>1. CASE UNCHANGED <<conv, msg, sock, chat>>
  BY <1>1 DEF ChatInv, ChatTypes, ChangesFollow, SocketsJoin, NewsComes, Sending, Visible
<1>2. ASSUME NEW q \in ChatRequests, OpenCommit(q) \/ SendCommit(q) \/ EditCommit(q) \/ DeleteCommit(q)
      PROVE  /\ ChatInv'
             /\ \A m \in Messages : msg[m].st = "deleted" => msg'[m].st = "deleted"
  BY <1>2, OpenCommitKeeps, CommitKeeps
<1>3. ASSUME NEW q \in ChatRequests,
             \/ Broadcast(q)
             \/ \E m \in Messages : ChangeCheck(q, m)
             \/ \E p \in Participants :
                  \/ OpenLook(q, p)
                  \/ \E c \in Conversations : SendCheck(q, p, c) \/ SystemCheck(q, p, c)
      PROVE  ChatInv' /\ msg' = msg
  <2>1. ChatInv'
    BY <1>3, BroadcastKeeps, ChatLookKeeps
  <2>2. msg' = msg
    BY <1>3 DEF Broadcast, ChangeCheck, OpenLook, SendCheck, SystemCheck
  <2> QED BY <2>1, <2>2
<1>4. ASSUME NEW s \in Sockets, LoadMessages(s) \/ Disconnect(s) \/ \E c \in Conversations : Connect(s, c)
      PROVE  ChatInv' /\ msg' = msg
  BY <1>4, SocketKeeps DEF LoadMessages, Disconnect, Connect
<1>5. ASSUME NEW p \in Readers, MarkRead(p) \/ \E c \in Conversations : Reopen(p, c) \/ Archive(p, c)
      PROVE  UNCHANGED <<conv, msg, sock, chat>>
  BY <1>5 DEF MarkRead, Reopen, Archive
<1>6. ASSUME NEW p \in Participants, NEW o \in Participants, Block(p, o) \/ Unblock(p, o)
      PROVE  UNCHANGED <<conv, msg, sock, chat>>
  BY <1>6 DEF Block, Unblock
<1>7. CASE UNCHANGED chatVars
  BY <1>1, <1>7 DEF chatVars
<1> QED BY <1>1, <1>2, <1>3, <1>4, <1>5, <1>6, <1>7 DEF ChatNext

(* Rows, handlers and sockets, and what is still to be announced.          *)
THEOREM ChatInvariant == ChatSpec => []ChatInv
<1> QED BY ChatInitInv, ChatNextInv, PTL DEF ChatSpec

(* Nothing brings a deleted message back.                                  *)
THEOREM DeletionLasts == ChatSpec => DeletedStaysDeleted
<1>1. ChatInv /\ [ChatNext]_chatVars =>
        [\A m \in Messages : msg[m].st = "deleted" => msg'[m].st = "deleted"]_chatVars
  BY ChatNextInv
<1> QED BY ChatInvariant, <1>1, PTL DEF ChatSpec, DeletedStaysDeleted

(* A connected client misses no message.                                   *)
THEOREM ClientsMissNothing == ChatSpec => []ViewIsComplete
<1>1. ChatInv => ViewIsComplete
  <2> SUFFICES ASSUME ChatInv, NEW s \in Sockets, sock[s].on, sock[s].loaded,
                      NEW m \in Visible(sock[s].conv), Announced(m)
               PROVE  m \in sock[s].shows
    BY DEF ViewIsComplete
  <2> QED BY DEF ChatInv, NewsComes, Announced
<1> QED BY ChatInvariant, <1>1, PTL

-----------------------------------------------------------------------------
(***************************************************************************)
(* Discovery and blocks. The one save of a participant has read the row as *)
(* it is.                                                                  *)
(***************************************************************************)

Profiles == [exists : BOOLEAN, reg : Nat, open : BOOLEAN, shown : BOOLEAN, writable : BOOLEAN]

NetTypes ==
  /\ seat \in [People -> [n : Nat, confirmed : BOOLEAN]]
  /\ profile \in [People -> Profiles]
  /\ said \in [People -> Terms]
  /\ net = [h \in NetRequests |-> net[h]]
  /\ \A h \in NetRequests :
       /\ net[h].step \in {"rests", "put", "form", "erase", "block"}
       /\ net[h].step \in {"put", "form", "erase"} => net[h].p \in People /\ net[h].row \in Profiles
       /\ net[h].step = "put" => net[h].terms \in Terms
       /\ net[h].step = "form" => net[h].n \in Nat

(* The save of a participant whose saves never crossed has read the row as *)
(* it is, and the row says what was saved last.                            *)
SavesRead ==
  \A p \in People \ crossed :
    /\ \A h, g \in Saving(p) : h = g
    /\ \A h \in Saving(p) : \/ net[h].row = profile[p]
                            \/ net[h].step = "form" /\ net[h].row = NoProfile
    /\ profile[p].open = said[p].open
    /\ profile[p].shown = said[p].shown
    /\ profile[p].writable = said[p].writable

(* A block answered with success has its row, unless the other's was found.*)
AskedAreBlocked == asked \ void \subseteq blocks

NetInv ==
  /\ NetTypes
  /\ SavesRead
  /\ AskedAreBlocked

-----------------------------------------------------------------------------
(* A request takes a step, and the others stay where they are.             *)
LEMMA NetOne ==
  ASSUME NetTypes, NEW h \in NetRequests, NEW s, net' = [net EXCEPT ![h] = s]
  PROVE  /\ net'[h] = s /\ \A g \in NetRequests \ {h} : net'[g] = net[g]
         /\ net' = [g \in NetRequests |-> net'[g]]
BY DEF NetTypes

(* Saves that go on or end while no profile changes.                       *)
LEMMA SavesStay ==
  ASSUME SavesRead, profile' = profile, said' = said, crossed \subseteq crossed',
         \A h \in NetRequests : \/ net'[h] = net[h]
                                \/ net'[h].step \notin {"put", "form", "erase"}
  PROVE  SavesRead'
<1>1. ASSUME NEW p \in People
      PROVE  Saving(p)' \subseteq Saving(p) /\ \A h \in Saving(p)' : net'[h] = net[h]
  BY DEF Saving
<1> QED BY <1>1 DEF SavesRead

(* A save begins; one that meets another is marked.                        *)
LEMMA SaveBegins ==
  ASSUME NetInv, NEW h \in NetRequests, NEW p \in People,
         \/ \E terms \in TermSets : PutLook(h, p, terms)
         \/ FormLook(h, p) \/ EraseLook(h, p)
  PROVE  NetInv'
<1>1. NetTypes /\ SavesRead /\ AskedAreBlocked
  BY DEF NetInv
<1>2. PICK s :
        /\ StartSave(h, p, s) /\ s.p = p
        /\ s.step \in {"put", "form", "erase"}
        /\ s.step = "put" => s.terms \in Terms
        /\ s.step = "form" => s.n \in Nat
        /\ s.row = profile[p] \/ (s.step = "form" /\ s.row = NoProfile)
  <2>1. ASSUME NEW terms \in TermSets, PutLook(h, p, terms)
        PROVE  \E s :
                 /\ StartSave(h, p, s) /\ s.p = p /\ s.step = "put"
                 /\ s.terms \in Terms /\ s.row = profile[p]
    <3>1. terms \in Terms
      BY TermSetsAreTerms
    <3> QED BY <2>1, <3>1 DEF PutLook
  <2>2. CASE FormLook(h, p)
    <3> DEFINE s == [step |-> "form", p |-> p, n |-> seat[p].n,
                     row |-> IF profile[p].reg = seat[p].n THEN profile[p] ELSE NoProfile]
    <3>1. s.step = "form" /\ s.p = p /\ s.n \in Nat /\ s.row \in {profile[p], NoProfile}
      BY <1>1 DEF NetTypes
    <3>2. StartSave(h, p, s)
      BY <2>2 DEF FormLook
    <3> HIDE DEF s
    <3> QED BY <3>1, <3>2
  <2>3. CASE EraseLook(h, p)
    <3>1. StartSave(h, p, [step |-> "erase", p |-> p, row |-> profile[p]])
      BY <2>3 DEF EraseLook
    <3> QED BY <3>1
  <2> QED BY <2>1, <2>2, <2>3
<1>3. /\ net[h].step = "rests" /\ net' = [net EXCEPT ![h] = s]
      /\ crossed' = (IF Saving(p) # {} THEN crossed \cup {p} ELSE crossed)
      /\ seat' = seat /\ profile' = profile /\ blocks' = blocks /\ unread' = unread
      /\ said' = said /\ asked' = asked /\ void' = void
  BY <1>2 DEF StartSave, AtRest
<1>4. /\ net'[h] = s /\ \A g \in NetRequests \ {h} : net'[g] = net[g]
      /\ net' = [g \in NetRequests |-> net'[g]]
  BY <1>1, <1>3, NetOne
<1>5. NetTypes'
  <2>1. profile[p] \in Profiles /\ NoProfile \in Profiles
    BY <1>1 DEF NetTypes, Profiles, NoProfile
  <2> QED BY <1>1, <1>2, <1>3, <1>4, <2>1 DEF NetTypes
<1>6. SavesRead'
  <2>1. h \notin Saving(p)
    BY <1>3 DEF Saving
  <2>2. Saving(p)' = Saving(p) \cup {h}
    BY <1>2, <1>4, <2>1 DEF Saving
  <2>3. \A k \in People \ {p} : /\ Saving(k)' = Saving(k)
                                /\ \A g \in Saving(k) : net'[g] = net[g]
    BY <1>2, <1>3, <1>4 DEF Saving
  <2>4. ASSUME NEW k \in People \ crossed', k # p
        PROVE  /\ \A g, i \in Saving(k)' : g = i
               /\ \A g \in Saving(k)' : \/ net'[g].row = profile'[k]
                                        \/ net'[g].step = "form" /\ net'[g].row = NoProfile
    BY <1>1, <1>3, <2>3, <2>4 DEF SavesRead
  <2>5. ASSUME p \notin crossed'
        PROVE  /\ \A g, i \in Saving(p)' : g = i
               /\ \A g \in Saving(p)' : \/ net'[g].row = profile'[p]
                                        \/ net'[g].step = "form" /\ net'[g].row = NoProfile
    BY <1>2, <1>3, <1>4, <2>2, <2>5
  <2> QED BY <1>1, <1>3, <2>4, <2>5 DEF SavesRead
<1>7. AskedAreBlocked'
  BY <1>1, <1>3 DEF AskedAreBlocked
<1> QED BY <1>5, <1>6, <1>7 DEF NetInv

(* A save is committed: the row says what the participant has saved, when  *)
(* it is as the save has read it.                                          *)
LEMMA SaveEnds ==
  ASSUME NetInv, NEW h \in NetRequests, PutCommit(h) \/ FormCommit(h) \/ EraseCommit(h)
  PROVE  NetInv'
<1> DEFINE p == net[h].p
           seen == net[h].row
<1>1. /\ NetTypes /\ SavesRead /\ AskedAreBlocked
      /\ profile \in [People -> Profiles] /\ said \in [People -> Terms]
      /\ net[h].step \in {"put", "form", "erase"} /\ p \in People /\ seen \in Profiles
      /\ seat' = seat /\ blocks' = blocks /\ asked' = asked /\ void' = void /\ crossed' = crossed
  BY DEF NetInv, NetTypes, PutCommit, FormCommit, EraseCommit
<1>2. h \in Saving(p)
  BY <1>1 DEF Saving
<1>3. /\ net' = [g \in NetRequests |-> net'[g]]
      /\ net'[h].step = "rests"
      /\ \A g \in NetRequests : net'[g] = net[g] \/ net'[g].step = "rests"
  BY <1>1 DEF PutCommit, FormCommit, EraseCommit, NetEnds, AtRest, NetTypes
<1> DEFINE Saves(row, terms) ==
      /\ profile' = [profile EXCEPT ![p] = row] /\ said' = [said EXCEPT ![p] = terms]
      /\ p \notin crossed =>
           row.open = terms.open /\ row.shown = terms.shown /\ row.writable = terms.writable
<1>4. p \notin crossed =>
        /\ seen = profile[p] \/ (net[h].step = "form" /\ seen = NoProfile)
        /\ profile[p].open = said[p].open /\ profile[p].shown = said[p].shown
        /\ profile[p].writable = said[p].writable
  BY <1>1, <1>2 DEF SavesRead
<1>5. PICK row \in Profiles : \E terms \in Terms : Saves(row, terms)
  <2>1. CASE PutCommit(h)
    <3> DEFINE want == net[h].terms
    <3>1. want \in Terms /\ net[h].step = "put"
      BY <1>1, <2>1 DEF PutCommit, NetTypes
    <3>2. CASE seen = NoProfile
      <4> DEFINE row == [exists |-> TRUE, reg |-> 0, open |-> want.open, shown |-> want.shown,
                         writable |-> want.writable]
      <4>1. /\ row \in Profiles
            /\ row.open = want.open /\ row.shown = want.shown /\ row.writable = want.writable
        BY <3>1 DEF Profiles, Terms
      <4>2. profile' = [profile EXCEPT ![p] = row] /\ said' = [said EXCEPT ![p] = want]
        BY <2>1, <3>2 DEF PutCommit
      <4> HIDE DEF row, want
      <4>3. Saves(row, want)
        BY <4>1, <4>2
      <4> HIDE DEF Saves
      <4> QED BY <3>1, <4>1, <4>3
    <3>3. CASE seen # NoProfile
      <4> DEFINE row == Overwritten(profile[p], seen, want)
      <4>1. /\ row \in Profiles
            /\ row.open = Differing(profile[p].open, seen.open, want.open)
            /\ row.shown = Differing(profile[p].shown, seen.shown, want.shown)
            /\ row.writable = Differing(profile[p].writable, seen.writable, want.writable)
        BY <1>1, <3>1 DEF Profiles, Terms, Differing, Overwritten
      <4>2. profile' = [profile EXCEPT ![p] = row] /\ said' = [said EXCEPT ![p] = want]
        BY <2>1, <3>3 DEF PutCommit
      <4>3. p \notin crossed => seen = profile[p]
        BY <1>4, <3>1
      <4> HIDE DEF row
      <4>4. Saves(row, want)
        BY <4>1, <4>2, <4>3 DEF Differing
      <4> HIDE DEF Saves, want
      <4> QED BY <3>1, <4>1, <4>4
    <3> QED BY <3>2, <3>3
  <2>2. CASE FormCommit(h)
    <3>1. CASE seen = NoProfile
      <4> DEFINE row == [exists |-> TRUE, reg |-> net[h].n, open |-> TRUE, shown |-> TRUE, writable |-> TRUE]
                 terms == [open |-> TRUE, shown |-> TRUE, writable |-> TRUE]
      <4>1. row \in Profiles /\ terms \in Terms
        BY <1>1, <2>2 DEF FormCommit, NetTypes, Profiles, Terms
      <4>2. Saves(row, terms)
        BY <2>2, <3>1 DEF FormCommit
      <4> HIDE DEF Saves, row, terms
      <4> QED BY <4>1, <4>2
    <3>2. CASE seen # NoProfile
      <4> DEFINE row == [profile[p] EXCEPT !.open = Differing(profile[p].open, seen.open, TRUE)]
                 terms == [said[p] EXCEPT !.open = TRUE]
      <4>1. /\ row \in Profiles /\ terms \in Terms
            /\ row.open = Differing(profile[p].open, seen.open, TRUE)
            /\ row.shown = profile[p].shown /\ row.writable = profile[p].writable
            /\ terms.open = TRUE /\ terms.shown = said[p].shown /\ terms.writable = said[p].writable
        BY <1>1 DEF Profiles, Terms, Differing
      <4>2. profile' = [profile EXCEPT ![p] = row] /\ said' = [said EXCEPT ![p] = terms]
        BY <2>2, <3>2 DEF FormCommit
      <4>3. p \notin crossed => /\ seen = profile[p]
                                /\ profile[p].shown = said[p].shown
                                /\ profile[p].writable = said[p].writable
        BY <1>4, <3>2
      <4>4. seen.open \in BOOLEAN
        BY <1>1 DEF Profiles
      <4> HIDE DEF row, terms
      <4>5. p \notin crossed => row.open = terms.open
        BY <4>1, <4>3, <4>4 DEF Differing
      <4>6. Saves(row, terms)
        BY <4>1, <4>2, <4>3, <4>5
      <4> HIDE DEF Saves
      <4> QED BY <4>1, <4>6
    <3> QED BY <3>1, <3>2
  <2>3. CASE EraseCommit(h)
    <3> DEFINE terms == [open |-> FALSE, shown |-> FALSE, writable |-> FALSE]
    <3>1. NoProfile \in Profiles /\ terms \in Terms
      BY DEF NoProfile, Profiles, Terms
    <3>2. Saves(NoProfile, terms)
      BY <2>3 DEF EraseCommit, NoProfile
    <3> HIDE DEF Saves, terms
    <3> QED BY <3>1, <3>2
  <2> QED BY <2>1, <2>2, <2>3
<1> PICK terms \in Terms : Saves(row, terms)
  BY <1>5
<1>6. /\ profile'[p] = row /\ said'[p] = terms
      /\ \A k \in People \ {p} : profile'[k] = profile[k] /\ said'[k] = said[k]
      /\ profile' \in [People -> Profiles] /\ said' \in [People -> Terms]
      /\ p \notin crossed =>
           row.open = terms.open /\ row.shown = terms.shown /\ row.writable = terms.writable
  BY <1>1
<1> HIDE DEF Saves
<1>7. NetTypes'
  <2>1. ASSUME NEW g \in NetRequests
        PROVE  /\ net'[g].step \in {"rests", "put", "form", "erase", "block"}
               /\ net'[g].step \in {"put", "form", "erase"} => net'[g].p \in People /\ net'[g].row \in Profiles
               /\ net'[g].step = "put" => net'[g].terms \in Terms
               /\ net'[g].step = "form" => net'[g].n \in Nat
    BY <1>1, <1>3 DEF NetTypes
  <2>2. seat' \in [People -> [n : Nat, confirmed : BOOLEAN]]
    BY <1>1 DEF NetTypes
  <2> QED BY <1>3, <1>6, <2>1, <2>2 DEF NetTypes
<1>8. SavesRead'
  <2>1. \A k \in People : /\ Saving(k)' \subseteq Saving(k) \ {h}
                          /\ \A g \in Saving(k)' : net'[g] = net[g]
    <3> SUFFICES ASSUME NEW k \in People, NEW g \in Saving(k)'
                 PROVE  g \in Saving(k) /\ g # h /\ net'[g] = net[g]
      OBVIOUS
    <3>1. /\ g \in NetRequests /\ net'[g].step # "rests"
          /\ net'[g].step \in {"put", "form", "erase"} /\ net'[g].p = k
      BY DEF Saving
    <3>2. net'[g] = net[g] /\ g # h
      BY <1>3, <3>1
    <3> QED BY <3>1, <3>2 DEF Saving
  <2>2. ASSUME NEW k \in People \ crossed, k = p
        PROVE  Saving(k)' = {}
    <3>1. Saving(k) \subseteq {h}
      BY <1>1, <1>2, <2>2 DEF SavesRead
    <3>2. Saving(k)' \subseteq Saving(k) \ {h}
      BY <2>1
    <3> QED BY <3>1, <3>2
  <2>3. ASSUME NEW k \in People \ crossed'
        PROVE  /\ \A g, i \in Saving(k)' : g = i
               /\ \A g \in Saving(k)' : \/ net'[g].row = profile'[k]
                                        \/ net'[g].step = "form" /\ net'[g].row = NoProfile
               /\ profile'[k].open = said'[k].open
               /\ profile'[k].shown = said'[k].shown
               /\ profile'[k].writable = said'[k].writable
    <3>1. CASE k = p
      <4>1. k \in People \ crossed /\ p \notin crossed
        BY <1>1, <2>3, <3>1
      <4>2. Saving(k)' = {}
        BY <2>2, <3>1, <4>1
      <4>3. /\ profile'[k].open = said'[k].open
            /\ profile'[k].shown = said'[k].shown
            /\ profile'[k].writable = said'[k].writable
        BY <1>6, <3>1, <4>1
      <4> QED BY <4>2, <4>3
    <3>2. CASE k # p
      <4>1. /\ k \in People \ crossed /\ profile'[k] = profile[k] /\ said'[k] = said[k]
            /\ Saving(k)' \subseteq Saving(k) /\ \A g \in Saving(k)' : net'[g] = net[g]
        BY <1>1, <1>6, <2>1, <2>3, <3>2
      <4> QED BY <1>1, <4>1 DEF SavesRead
    <3> QED BY <3>1, <3>2
  <2> QED BY <2>3 DEF SavesRead
<1>9. AskedAreBlocked'
  BY <1>1 DEF AskedAreBlocked
<1> QED BY <1>7, <1>8, <1>9 DEF NetInv

(* Nobody has a profile, and nobody is blocked.                            *)
LEMMA NetInitInv == NetInit => NetInv
<1> SUFFICES ASSUME NetInit PROVE NetInv
  OBVIOUS
<1>1. AtRest.step = "rests"
  BY DEF AtRest
<1>2. \A p : Saving(p) = {}
  BY <1>1 DEF NetInit, Saving
<1>3. NetTypes
  BY <1>1 DEF NetInit, NetTypes, Profiles, Terms, NoProfile
<1>4. SavesRead
  BY <1>2 DEF NetInit, SavesRead, NoProfile
<1>5. AskedAreBlocked
  BY DEF NetInit, AskedAreBlocked
<1> QED BY <1>3, <1>4, <1>5 DEF NetInv

(* Every step of the participants keeps it.                                *)
LEMMA NetNextInv == NetInv /\ [NetNext]_netVars => NetInv'
<1> SUFFICES ASSUME NetInv, [NetNext]_netVars PROVE NetInv'
  OBVIOUS
<1>1. NetTypes /\ SavesRead /\ AskedAreBlocked
  BY DEF NetInv
<1>2. ASSUME seat' \in [People -> [n : Nat, confirmed : BOOLEAN]],
             profile' = profile, said' = said, crossed' = crossed, net' = net, AskedAreBlocked'
      PROVE  NetInv'
  <2>1. SavesRead'
    BY <1>1, <1>2, SavesStay
  <2> QED BY <1>1, <1>2, <2>1 DEF NetInv, NetTypes
<1>3. ASSUME NEW h \in NetRequests, NEW s, net' = [net EXCEPT ![h] = s], s.step \in {"rests", "block"},
             seat' = seat, profile' = profile, said' = said, crossed' = crossed, AskedAreBlocked'
      PROVE  NetInv'
  <2>1. /\ net'[h] = s /\ \A g \in NetRequests \ {h} : net'[g] = net[g]
        /\ net' = [g \in NetRequests |-> net'[g]]
    BY <1>1, <1>3, NetOne
  <2>2. SavesRead'
    BY <1>1, <1>3, <2>1, SavesStay
  <2>3. NetTypes'
    BY <1>1, <1>3, <2>1 DEF NetTypes
  <2> QED BY <1>3, <2>2, <2>3 DEF NetInv
<1>4. ASSUME NEW h \in NetRequests, NEW a \in People, NEW b \in People, BlockLook(h, a, b)
      PROVE  NetInv'
  <2>1. /\ seat' = seat /\ profile' = profile /\ blocks' = blocks /\ said' = said /\ crossed' = crossed
    BY <1>4 DEF BlockLook
  <2>2. CASE BlockedPair(a, b)
    <3>1. asked' = asked \cup {<<a, b>>} /\ void' = void \cup ({<<a, b>>} \ blocks) /\ net' = net
      BY <1>4, <2>2 DEF BlockLook
    <3>2. AskedAreBlocked'
      BY <1>1, <2>1, <3>1 DEF AskedAreBlocked
    <3> QED BY <1>1, <1>2, <2>1, <3>1, <3>2 DEF NetTypes
  <2>3. CASE ~BlockedPair(a, b)
    <3> DEFINE s == [step |-> "block", pair |-> <<a, b>>]
    <3>1. net' = [net EXCEPT ![h] = s] /\ s.step = "block" /\ asked' = asked /\ void' = void
      BY <1>4, <2>3 DEF BlockLook
    <3>2. AskedAreBlocked'
      BY <1>1, <2>1, <3>1 DEF AskedAreBlocked
    <3> HIDE DEF s
    <3> QED BY <1>3, <2>1, <3>1, <3>2
  <2> QED BY <2>2, <2>3
<1>5. ASSUME NEW h \in NetRequests, BlockCommit(h)
      PROVE  NetInv'
  <2>1. /\ blocks' = blocks \cup {net[h].pair} /\ asked' = asked \cup {net[h].pair}
        /\ void' = void \ {net[h].pair} /\ net' = [net EXCEPT ![h] = AtRest]
        /\ seat' = seat /\ profile' = profile /\ said' = said /\ crossed' = crossed
    BY <1>5 DEF BlockCommit, NetEnds
  <2>2. AskedAreBlocked'
    BY <1>1, <2>1 DEF AskedAreBlocked
  <2>3. AtRest.step = "rests"
    BY DEF AtRest
  <2> QED BY <1>3, <2>1, <2>2, <2>3
<1>6. ASSUME NEW h \in NetRequests, LeaveNet(h)
      PROVE  NetInv'
  <2>1. /\ net' = [net EXCEPT ![h] = AtRest]
        /\ seat' = seat /\ profile' = profile /\ said' = said /\ crossed' = crossed
        /\ blocks' = blocks /\ asked' = asked /\ void' = void
    BY <1>6 DEF LeaveNet, NetEnds
  <2>2. AskedAreBlocked'
    BY <1>1, <2>1 DEF AskedAreBlocked
  <2>3. AtRest.step = "rests"
    BY DEF AtRest
  <2> QED BY <1>3, <2>1, <2>2, <2>3
<1>7. ASSUME NEW a \in People, NEW b \in People, TakeBack(a, b)
      PROVE  NetInv'
  <2>1. AskedAreBlocked'
    BY <1>1, <1>7 DEF AskedAreBlocked, TakeBack
  <2> QED BY <1>1, <1>2, <1>7, <2>1 DEF TakeBack, NetTypes
<1>8. ASSUME NEW p \in People, SeatConfirmed(p) \/ RegistersAgain(p)
      PROVE  NetInv'
  <2>1. seat \in [People -> [n : Nat, confirmed : BOOLEAN]]
    BY <1>1 DEF NetTypes
  <2>2. seat' \in [People -> [n : Nat, confirmed : BOOLEAN]]
    <3>1. CASE SeatConfirmed(p)
      BY <2>1, <3>1 DEF SeatConfirmed
    <3>2. CASE RegistersAgain(p)
      BY <2>1, <3>2 DEF RegistersAgain
    <3> QED BY <1>8, <3>1, <3>2
  <2>3. AskedAreBlocked'
    BY <1>1, <1>8 DEF AskedAreBlocked, SeatConfirmed, RegistersAgain
  <2> QED BY <1>2, <1>8, <2>2, <2>3 DEF SeatConfirmed, RegistersAgain
<1>9. CASE UNCHANGED <<seat, profile, blocks, net, said, asked, void, crossed>>
  <2>1. AskedAreBlocked'
    BY <1>1, <1>9 DEF AskedAreBlocked
  <2> QED BY <1>1, <1>2, <1>9, <2>1 DEF NetTypes
<1>10. ASSUME \/ \E a, b \in People : Write(a, b)
              \/ \E u \in People \cup {Organizer} : ReadAll(u) \/ \E a \in People : NotificationRead(u, a)
              \/ UNCHANGED netVars
       PROVE  UNCHANGED <<seat, profile, blocks, net, said, asked, void, crossed>>
  BY <1>10 DEF Write, ReadAll, NotificationRead, netVars
<1> QED BY <1>4, <1>5, <1>6, <1>7, <1>8, <1>9, <1>10, SaveBegins, SaveEnds DEF NetNext

(* What saves have read, and the blocks that were answered.                *)
THEOREM NetInvariant == NetSpec => []NetInv
<1> QED BY NetInitInv, NetNextInv, PTL DEF NetSpec

(* Who is found or written to has said so last, and a block holds.         *)
THEOREM FoundOnTerms == NetSpec => []FoundOnOwnTerms
<1>1. NetInv => FoundOnOwnTerms
  <2> SUFFICES ASSUME NetInv, NEW a \in People, NEW b \in People
               PROVE  /\ Finds(a, b) /\ b \notin crossed => said[b].open /\ said[b].shown
                      /\ MayWrite(a, b) /\ b \notin crossed => said[b].writable
                      /\ <<a, b>> \in asked \ void =>
                           ~Finds(a, b) /\ ~Finds(b, a) /\ ~MayWrite(a, b) /\ ~MayWrite(b, a)
    BY DEF FoundOnOwnTerms
  <2>1. b \notin crossed => /\ profile[b].open = said[b].open
                            /\ profile[b].shown = said[b].shown
                            /\ profile[b].writable = said[b].writable
    BY DEF NetInv, SavesRead
  <2>2. <<a, b>> \in asked \ void => <<a, b>> \in blocks
    BY DEF NetInv, AskedAreBlocked
  <2> QED BY <2>1, <2>2 DEF Finds, MayWrite, HiddenFrom, BlockedPair
<1> QED BY NetInvariant, <1>1, PTL

-----------------------------------------------------------------------------
(***************************************************************************)
(* Registration drafts. The categories are listed twice, in the form and   *)
(* in rows of their own, and a document is a row and a file.               *)
(***************************************************************************)

PatchForm == [step : {"patch", "written", "waiting", "missed", "dropped"},
              read : SUBSET Categories, want : SUBSET Categories, other : BOOLEAN,
              gone : SUBSET Categories]
PaperForm == [step : {"upload", "catalogue", "remove", "unlink"}, d : Documents]
OtherForm == [step : {"none", "submit", "cancel"}]

DraftTypes ==
  /\ status \in {"draft", "submitted", "cancelled", "verified", "confirmed", "rejected",
                 "paid", "payment_pending"}
  /\ confirmed \in BOOLEAN /\ settled \in BOOLEAN
  /\ listed \subseteq Categories /\ links \subseteq Categories /\ sent \subseteq Categories
  /\ papers \in [Documents -> {"none", "registration", "booth"}]
  /\ paperFiles \subseteq Documents
  /\ boothForm \in {"none", "draft", "submitted"}
  /\ form \in [DraftRequests -> PatchForm \cup PaperForm \cup OtherForm]
  /\ mixed \subseteq {"any", "left as read"}

(* A patch that changes the categories is alone with its rows, and one     *)
(* that leaves them is alone.                                              *)
PatchesApart ==
  "left as read" \notin mixed =>
    /\ links = listed
    /\ \A h \in Patching :
         /\ form[h].step \in {"patch", "written", "dropped"}
         /\ form[h].step = "dropped" => form[h].gone = links
         /\ Leaves(form[h]) => form[h].read = listed
    /\ \A h, g \in Patching :
         h = g \/ (~Leaves(form[h]) /\ (form[h].step = "patch" \/ form[g].step = "patch"))

(* A request that meets no other finds the registration as it has seen it. *)
RequestsAlone ==
  /\ status = "draft" => sent = {} /\ ~confirmed
  /\ "any" \notin mixed =>
       /\ \A h, g \in Deciding : h = g
       /\ \A h \in Deciding : IF form[h].step = "cancel" THEN status # "confirmed"
                              ELSE status = "draft"
       /\ sent # {} => listed = sent
       /\ confirmed => status = "confirmed"

Handling == {h \in DraftRequests : form[h].step \in {"upload", "catalogue", "remove", "unlink"}}

(* A file is written for a row of its own, and goes after the row.         *)
PapersFollow ==
  \A h \in Handling :
    /\ form[h].step \in {"upload", "catalogue"} =>
         /\ form[h].d \in paperFiles /\ papers[form[h].d] = "none"
         /\ \A g \in Handling \ {h} : form[g].d # form[h].d
    /\ form[h].step = "remove" => papers[form[h].d] # "booth"
    /\ form[h].step = "unlink" => papers[form[h].d] = "none"

DraftInv ==
  /\ DraftTypes
  /\ PatchesApart
  /\ RequestsAlone
  /\ PapersFollow
  /\ RowHasFile

-----------------------------------------------------------------------------
(* What a request's step is, from what it holds.                           *)
LEMMA FormKinds ==
  ASSUME DraftTypes
  PROVE  /\ \A h \in Patching : form[h] \in PatchForm
         /\ \A h \in Handling : form[h] \in PaperForm
         /\ Patching \cap Handling = {} /\ Deciding \cap Handling = {}
         /\ Patching \subseteq Deciding /\ Deciding \subseteq DraftRequests
BY DEF DraftTypes, Patching, Deciding, Handling, PatchForm, PaperForm, OtherForm

(* A request takes a step, and the others stay where they are.             *)
LEMMA FormOne ==
  ASSUME DraftTypes, NEW h \in DraftRequests,
         NEW s \in PatchForm \cup PaperForm \cup OtherForm, form' = [form EXCEPT ![h] = s]
  PROVE  /\ form'[h] = s /\ \A g \in DraftRequests \ {h} : form'[g] = form[g]
         /\ form' \in [DraftRequests -> PatchForm \cup PaperForm \cup OtherForm]
         /\ Patching' = (Patching \ {h}) \cup (IF s \in PatchForm THEN {h} ELSE {})
         /\ Handling' = (Handling \ {h}) \cup (IF s \in PaperForm THEN {h} ELSE {})
         /\ Deciding' = (Deciding \ {h}) \cup
                          (IF s \in PatchForm \/ s.step \in {"submit", "cancel"} THEN {h} ELSE {})
         /\ \A g \in Patching \cup Handling \cup Deciding : g \in DraftRequests
<1>1. /\ form'[h] = s /\ \A g \in DraftRequests \ {h} : form'[g] = form[g]
      /\ form' \in [DraftRequests -> PatchForm \cup PaperForm \cup OtherForm]
  BY DEF DraftTypes
<1>2. /\ s \in PatchForm <=> s.step \in {"patch", "written", "waiting", "missed", "dropped"}
      /\ s \in PaperForm <=> s.step \in {"upload", "catalogue", "remove", "unlink"}
  BY DEF PatchForm, PaperForm, OtherForm
<1>3. Patching' = (Patching \ {h}) \cup (IF s \in PatchForm THEN {h} ELSE {})
  BY <1>1, <1>2 DEF Patching
<1>4. Handling' = (Handling \ {h}) \cup (IF s \in PaperForm THEN {h} ELSE {})
  BY <1>1, <1>2 DEF Handling
<1>5. Deciding' = (Deciding \ {h}) \cup
                    (IF s \in PatchForm \/ s.step \in {"submit", "cancel"} THEN {h} ELSE {})
  BY <1>1, <1>2, <1>3 DEF Deciding
<1>6. \A g \in Patching \cup Handling \cup Deciding : g \in DraftRequests
  BY DEF Patching, Handling, Deciding
<1> QED BY <1>1, <1>3, <1>4, <1>5, <1>6

(* Requests that patch nothing leave the patches apart.                    *)
LEMMA PatchesStay ==
  ASSUME PatchesApart, links' = links, listed' = listed, mixed \subseteq mixed',
         \A h \in Patching' : h \in Patching /\ (form'[h] = form[h] \/ form[h].step = "waiting")
  PROVE  PatchesApart'
<1> SUFFICES ASSUME "left as read" \notin mixed'
             PROVE  /\ links' = listed'
                    /\ \A h \in Patching' :
                         /\ form'[h].step \in {"patch", "written", "dropped"}
                         /\ form'[h].step = "dropped" => form'[h].gone = links'
                         /\ Leaves(form'[h]) => form'[h].read = listed'
                    /\ \A h, g \in Patching' :
                         h = g \/ (~Leaves(form'[h]) /\ (form'[h].step = "patch" \/ form'[g].step = "patch"))
  BY DEF PatchesApart, Leaves
<1>1. \A h \in Patching' : h \in Patching /\ form'[h] = form[h]
  BY DEF PatchesApart
<1> QED BY <1>1 DEF PatchesApart, Leaves

(* Requests that decide nothing leave the decisions alone.                 *)
LEMMA DecisionsStay ==
  ASSUME RequestsAlone, status' = status, sent' = sent, confirmed' = confirmed, listed' = listed,
         mixed \subseteq mixed',
         \A h \in Deciding' : h \in Deciding /\ (form'[h].step = "cancel" <=> form[h].step = "cancel")
  PROVE  RequestsAlone'
BY DEF RequestsAlone

(* Papers stay as they are while no request handles one.                   *)
LEMMA PapersStay ==
  ASSUME PapersFollow, RowHasFile, papers' = papers, paperFiles' = paperFiles, boothForm' = boothForm,
         \A h \in Handling' : h \in Handling /\ form'[h] = form[h]
  PROVE  PapersFollow' /\ RowHasFile'
BY DEF PapersFollow, RowHasFile

(* A patch begins from what is listed.                                     *)
LEMMA PatchLookKeeps ==
  ASSUME DraftInv, NEW h \in DraftRequests, NEW want \in SUBSET Categories, NEW other \in BOOLEAN,
         PatchLook(h, want, other)
  PROVE  DraftInv'
<1> DEFINE s == [step |-> "patch", read |-> listed, want |-> want, other |-> other, gone |-> {}]
<1>1. /\ DraftTypes /\ PatchesApart /\ RequestsAlone /\ PapersFollow /\ RowHasFile
      /\ status = "draft" /\ form' = [form EXCEPT ![h] = s]
      /\ mixed' = mixed \cup (IF Deciding # {} THEN {"any"} ELSE {})
                        \cup (IF \E g \in Patching : Leaves(form[g]) \/ Leaves(s)
                              THEN {"left as read"} ELSE {})
      /\ status' = status /\ confirmed' = confirmed /\ settled' = settled /\ listed' = listed
      /\ links' = links /\ sent' = sent
      /\ papers' = papers /\ paperFiles' = paperFiles /\ boothForm' = boothForm
  BY DEF DraftInv, PatchLook, paperVars
<1>2. s \in PatchForm /\ s.step = "patch" /\ s.read = listed /\ s.want = want
  BY <1>1 DEF PatchForm, DraftTypes
<1> HIDE DEF s
<1>3. /\ form'[h] = s /\ \A g \in DraftRequests \ {h} : form'[g] = form[g]
      /\ form' \in [DraftRequests -> PatchForm \cup PaperForm \cup OtherForm]
      /\ Patching' = Patching \cup {h} /\ Deciding' = Deciding \cup {h} /\ Handling' = Handling \ {h}
      /\ \A g \in Deciding \cup Handling : g \in DraftRequests
  <2>1. s \notin PaperForm
    BY <1>2 DEF PaperForm
  <2> QED BY <1>1, <1>2, <2>1, FormOne
<1>4. /\ h \notin Patching /\ h \notin Deciding /\ h \notin Handling
      /\ \A g \in Deciding \cup Handling : g \in DraftRequests /\ form'[g] = form[g]
      /\ Patching \subseteq Deciding
  <2>1. form[h].step = "none"
    <3>1. form[h] = NoForm
      BY DEF PatchLook
    <3> QED BY <3>1 DEF NoForm
  <2>2. h \notin Patching /\ h \notin Deciding /\ h \notin Handling
    BY <2>1 DEF Patching, Deciding, Handling
  <2> QED BY <1>1, <1>3, <2>2, FormKinds
<1>5. DraftTypes'
  BY <1>1, <1>3 DEF DraftTypes
<1>6. PatchesApart'
  <2> SUFFICES ASSUME "left as read" \notin mixed'
               PROVE  PatchesApart'
    BY DEF PatchesApart
  <2>1. "left as read" \notin mixed /\ \A g \in Patching : ~Leaves(form[g]) /\ ~Leaves(s)
    <3>1. mixed' = mixed \cup (IF Deciding # {} THEN {"any"} ELSE {})
                         \cup (IF \E g \in Patching : Leaves(form[g]) \/ Leaves(s)
                               THEN {"left as read"} ELSE {})
      BY <1>1
    <3>2. ~\E g \in Patching : Leaves(form[g]) \/ Leaves(s)
      BY <3>1
    <3>3. "left as read" \notin mixed
      BY <3>1
    <3> QED BY <3>2, <3>3
  <2>2. \A g \in Patching' : IF g = h THEN form'[g] = s ELSE g \in Patching /\ form'[g] = form[g]
    BY <1>1, <1>3, <1>4, FormKinds
  <2>3. /\ links = listed
        /\ \A g \in Patching :
             /\ form[g].step \in {"patch", "written", "dropped"}
             /\ form[g].step = "dropped" => form[g].gone = links
             /\ Leaves(form[g]) => form[g].read = listed
        /\ \A g, k \in Patching :
             g = k \/ (~Leaves(form[g]) /\ (form[g].step = "patch" \/ form[k].step = "patch"))
    BY <1>1, <2>1 DEF PatchesApart
  <2>4. ASSUME NEW g \in Patching'
        PROVE  /\ form'[g].step \in {"patch", "written", "dropped"}
               /\ form'[g].step = "dropped" => form'[g].gone = links
               /\ Leaves(form'[g]) => form'[g].read = listed
    BY <1>2, <2>2, <2>3
  <2>5. ASSUME NEW g \in Patching', NEW k \in Patching', g # k
        PROVE  ~Leaves(form'[g]) /\ (form'[g].step = "patch" \/ form'[k].step = "patch")
    BY <1>2, <2>1, <2>2, <2>3, <2>5
  <2>6. \A g : Leaves(form[g])' = Leaves(form'[g])
    BY DEF Leaves
  <2> QED BY <1>1, <2>3, <2>4, <2>5, <2>6 DEF PatchesApart
<1>7. RequestsAlone'
  <2>1. \A g \in Deciding' : IF g = h THEN form'[g] = s ELSE g \in Deciding
    BY <1>3, <1>4
  <2> QED BY <1>1, <1>2, <2>1 DEF RequestsAlone
<1>8. PapersFollow' /\ RowHasFile'
  <2>1. \A g \in Handling' : g \in Handling /\ form'[g] = form[g]
    BY <1>3, <1>4
  <2> QED BY <1>1, <2>1, PapersStay
<1> QED BY <1>5, <1>6, <1>7, <1>8 DEF DraftInv

(* A patch locks the detail row, and deletes the category rows it sees.    *)
LEMMA PatchMoves ==
  ASSUME DraftInv, NEW h \in DraftRequests, PatchUpdate(h) \/ PatchDrop(h)
  PROVE  DraftInv'
<1>1. /\ DraftTypes /\ PatchesApart /\ RequestsAlone /\ PapersFollow /\ RowHasFile
      /\ UNCHANGED registrationVars /\ UNCHANGED paperVars
      /\ h \in Patching /\ form[h] \in PatchForm
  <2>1. h \in Patching
    BY DEF PatchUpdate, PatchDrop, Patching
  <2> QED BY <2>1, FormKinds DEF DraftInv, PatchUpdate, PatchDrop
<1> DEFINE dropped == \E g \in Patching : form[g].step = "dropped"
<1>2. PICK s \in PatchForm :
        /\ form' = [form EXCEPT ![h] = s]
        /\ s.read = form[h].read /\ s.want = form[h].want /\ s.other = form[h].other
        /\ \/ /\ form[h].step = "patch" /\ s.step = "written"
              /\ Changes(h) => Writable(h)
           \/ /\ form[h].step = "written"
              /\ IF dropped THEN s.step = "waiting" ELSE s.step = "dropped" /\ s.gone = links
  <2>1. CASE PatchUpdate(h)
    <3> DEFINE s == [form[h] EXCEPT !.step = "written"]
    <3>1. /\ s \in PatchForm /\ s.step = "written"
          /\ s.read = form[h].read /\ s.want = form[h].want /\ s.other = form[h].other
      BY <1>1 DEF PatchForm
    <3>2. /\ form' = [form EXCEPT ![h] = s] /\ form[h].step = "patch"
          /\ Changes(h) => Writable(h)
      BY <2>1 DEF PatchUpdate, Goes
    <3> HIDE DEF s
    <3> QED BY <3>1, <3>2
  <2>2. CASE PatchDrop(h)
    <3> DEFINE s == [form[h] EXCEPT !.step = IF dropped THEN "waiting" ELSE "dropped",
                                    !.gone = IF dropped THEN {} ELSE links]
    <3>1. /\ s \in PatchForm /\ s.step = (IF dropped THEN "waiting" ELSE "dropped")
          /\ s.gone = (IF dropped THEN {} ELSE links)
          /\ s.read = form[h].read /\ s.want = form[h].want /\ s.other = form[h].other
      <4>1. (IF dropped THEN {} ELSE links) \in SUBSET Categories
        BY <1>1 DEF DraftTypes
      <4>2. (IF dropped THEN "waiting" ELSE "dropped") \in {"patch", "written", "waiting", "missed", "dropped"}
        OBVIOUS
      <4> HIDE DEF dropped
      <4> QED BY <1>1, <4>1, <4>2 DEF PatchForm
    <3>2. form' = [form EXCEPT ![h] = s] /\ form[h].step = "written"
      BY <2>2 DEF PatchDrop
    <3> HIDE DEF s, dropped
    <3> QED BY <3>1, <3>2
  <2> QED BY <2>1, <2>2
<1>3. /\ form'[h] = s /\ \A g \in DraftRequests \ {h} : form'[g] = form[g]
      /\ form' \in [DraftRequests -> PatchForm \cup PaperForm \cup OtherForm]
  BY <1>1, <1>2, FormOne
<1>4. /\ status' = status /\ confirmed' = confirmed /\ settled' = settled /\ listed' = listed
      /\ links' = links /\ sent' = sent /\ mixed' = mixed
      /\ papers' = papers /\ paperFiles' = paperFiles /\ boothForm' = boothForm
  BY <1>1 DEF registrationVars, paperVars
<1>5. /\ Patching' = Patching /\ Deciding' = Deciding /\ Handling' = Handling /\ h \notin Handling
      /\ \A g \in (Deciding \cup Handling) \ {h} : g \in DraftRequests /\ form'[g] = form[g]
      /\ s.step \in {"written", "waiting", "dropped"}
      /\ form[h].step \in {"patch", "written"}
  BY <1>1, <1>2, <1>3 DEF Patching, Deciding, Handling
<1>6. DraftTypes'
  BY <1>1, <1>3, <1>4 DEF DraftTypes
<1>7. PatchesApart'
  <2> SUFFICES ASSUME "left as read" \notin mixed
               PROVE  PatchesApart'
    BY <1>4 DEF PatchesApart
  <2>1. \A g \in Patching \ {h} : /\ g \in DraftRequests /\ form'[g] = form[g]
                                  /\ ~Leaves(form[g]) /\ ~Leaves(form[h])
    BY <1>1, <1>3 DEF PatchesApart, Patching
  <2>2. Leaves(s) <=> Leaves(form[h])
    BY <1>2 DEF Leaves
  <2>3. \A g \in Patching \ {h} : form[g].step = "patch"
    <3>1. CASE form[h].step = "written"
      BY <1>1, <3>1 DEF PatchesApart
    <3>2. CASE form[h].step = "patch"
      BY <1>2, <2>1, <3>2 DEF Writable, Changes, Leaves
    <3> QED BY <1>5, <3>1, <3>2
  <2>4. s.step # "waiting"
    BY <1>2, <1>5, <2>3
  <2>5. s.step = "dropped" => s.gone = links
    BY <1>2
  <2>6. Leaves(s) => s.read = listed
    BY <1>1, <1>2, <2>2 DEF PatchesApart
  <2>7. \A g \in Patching' : IF g = h THEN form'[g] = s
                             ELSE /\ g \in Patching /\ form'[g] = form[g] /\ form[g].step = "patch"
                                  /\ ~Leaves(form[g]) /\ ~Leaves(s)
    BY <1>3, <1>5, <2>1, <2>2, <2>3
  <2>8. \A g \in Patching' :
          /\ form'[g].step \in {"patch", "written", "dropped"}
          /\ form'[g].step = "dropped" => form'[g].gone = links'
          /\ Leaves(form[g])' => form'[g].read = listed'
    <3>1. \A g \in Patching' : Leaves(form[g])' <=> Leaves(form'[g])
      BY DEF Leaves
    <3> QED BY <1>4, <1>5, <2>4, <2>5, <2>6, <2>7, <3>1
  <2>9. \A g, k \in Patching' :
          g = k \/ (~Leaves(form[g])' /\ (form'[g].step = "patch" \/ form'[k].step = "patch"))
    <3>1. \A g \in Patching' : Leaves(form[g])' <=> Leaves(form'[g])
      BY DEF Leaves
    <3> QED BY <2>7, <3>1
  <2>10. links' = listed'
    BY <1>1, <1>4 DEF PatchesApart
  <2> QED BY <2>8, <2>9, <2>10 DEF PatchesApart
<1>8. RequestsAlone'
  <2>1. \A g \in Deciding' : g \in Deciding /\ (form'[g].step = "cancel" <=> form[g].step = "cancel")
    BY <1>3, <1>5
  <2> QED BY <1>1, <1>4, <2>1, DecisionsStay
<1>9. PapersFollow' /\ RowHasFile'
  BY <1>1, <1>4, <1>5, PapersStay
<1> QED BY <1>6, <1>7, <1>8, <1>9 DEF DraftInv

(* A patch writes the categories, in the column and as rows.               *)
LEMMA PatchCommitKeeps ==
  ASSUME DraftInv, NEW h \in DraftRequests, PatchCommit(h)
  PROVE  DraftInv'
<1>1. /\ DraftTypes /\ PatchesApart /\ RequestsAlone /\ PapersFollow /\ RowHasFile
      /\ h \in Patching /\ form[h] \in PatchForm
  <2>1. h \in Patching
    BY DEF PatchCommit, Patching
  <2> QED BY <2>1, FormKinds DEF DraftInv
<1>2. /\ form[h].step \in {"dropped", "missed"}
      /\ links' = (links \ form[h].gone) \cup form[h].want
      /\ listed' = IF Leaves(form[h]) THEN listed ELSE form[h].want
      /\ status' = status /\ confirmed' = confirmed /\ settled' = settled /\ sent' = sent
      /\ papers' = papers /\ paperFiles' = paperFiles /\ boothForm' = boothForm
  BY DEF PatchCommit, paperVars
<1>3. mixed' = mixed \cup (IF Deciding \ {h} # {} THEN {"any"} ELSE {})
  BY DEF PatchCommit, Meets
<1>4. /\ form' \in [DraftRequests -> PatchForm \cup PaperForm \cup OtherForm]
      /\ form'[h].step = "none"
      /\ \A g \in DraftRequests \ {h} :
           IF form[g].step = "waiting" THEN form'[g] \in PatchForm /\ form'[g].step = "missed"
           ELSE form'[g] = form[g]
  <2>1. form' = [g \in DraftRequests |->
                   IF g = h THEN NoForm
                   ELSE IF form[g].step = "waiting" THEN [form[g] EXCEPT !.step = "missed"]
                   ELSE form[g]]
    BY DEF PatchCommit
  <2>2. NoForm \in OtherForm /\ NoForm.step = "none"
    BY DEF NoForm, OtherForm
  <2>3. ASSUME NEW g \in DraftRequests, form[g].step = "waiting"
        PROVE  /\ [form[g] EXCEPT !.step = "missed"] \in PatchForm
               /\ [form[g] EXCEPT !.step = "missed"].step = "missed"
    <3>1. form[g] \in PatchForm
      BY <1>1, <2>3 DEF DraftTypes, PaperForm, OtherForm
    <3> QED BY <3>1 DEF PatchForm
  <2>4. \A g \in DraftRequests : form[g] \in PatchForm \cup PaperForm \cup OtherForm
    BY <1>1 DEF DraftTypes
  <2> QED BY <2>1, <2>2, <2>3, <2>4
<1>5. /\ Patching' = Patching \ {h} /\ Deciding' = Deciding \ {h} /\ Handling' = Handling
      /\ h \notin Handling /\ h \in Deciding
      /\ \A g \in Handling : form'[g] = form[g]
  <2>1. Patching' = Patching \ {h}
    BY <1>4 DEF Patching
  <2>2. Deciding' = Deciding \ {h}
    BY <1>4, <2>1 DEF Deciding
  <2>3. h \notin Handling /\ Handling' = Handling
    BY <1>2, <1>4 DEF Handling
  <2>4. \A g \in Handling : form'[g] = form[g]
    BY <1>4, <2>3 DEF Handling
  <2> QED BY <1>1, <2>1, <2>2, <2>3, <2>4, FormKinds
<1>6. DraftTypes'
  <2>1. links' \subseteq Categories /\ listed' \subseteq Categories
    BY <1>1, <1>2 DEF DraftTypes, PatchForm
  <2> QED BY <1>1, <1>2, <1>3, <1>4, <2>1 DEF DraftTypes
<1>7. PatchesApart'
  <2> SUFFICES ASSUME "left as read" \notin mixed
               PROVE  PatchesApart'
    BY <1>3 DEF PatchesApart
  <2>1. form[h].gone = links /\ form[h].step = "dropped"
    BY <1>1, <1>2 DEF PatchesApart
  <2>2. links' = listed'
    <3>1. Leaves(form[h]) => form[h].want = listed
      BY <1>1 DEF PatchesApart, Leaves
    <3> QED BY <1>2, <2>1, <3>1
  <2>3. ASSUME NEW g \in Patching'
        PROVE  /\ g \in Patching /\ form'[g] = form[g] /\ form[g].step = "patch"
               /\ ~Leaves(form[g]) /\ ~Leaves(form'[g])
    <3>1. g \in Patching \ {h} /\ g \in DraftRequests
      BY <1>5 DEF Patching
    <3>2. ~Leaves(form[g]) /\ form[g].step = "patch"
      BY <1>1, <2>1, <3>1 DEF PatchesApart
    <3>3. form'[g] = form[g]
      BY <1>4, <3>1, <3>2
    <3> QED BY <3>1, <3>2, <3>3
  <2>4. \A g \in Patching' : form'[g].step = "patch" /\ (~Leaves(form[g]))'
    BY <2>3 DEF Leaves
  <2> QED BY <2>2, <2>4 DEF PatchesApart
<1>8. RequestsAlone'
  <2> SUFFICES ASSUME "any" \notin mixed'
               PROVE  RequestsAlone'
    <3>1. status' = "draft" => sent' = {} /\ ~confirmed'
      BY <1>1, <1>2 DEF RequestsAlone
    <3> QED BY <3>1 DEF RequestsAlone
  <2>1. "any" \notin mixed /\ Deciding \ {h} = {}
    BY <1>3
  <2>2. status = "draft"
    BY <1>1, <1>2, <1>5, <2>1 DEF RequestsAlone
  <2>3. sent = {} /\ ~confirmed
    BY <1>1, <2>2 DEF RequestsAlone
  <2> QED BY <1>2, <1>5, <2>1, <2>3 DEF RequestsAlone
<1>9. PapersFollow' /\ RowHasFile'
  BY <1>1, <1>2, <1>5, PapersStay
<1> QED BY <1>6, <1>7, <1>8, <1>9 DEF DraftInv

(* A submission or a cancellation begins.                                  *)
LEMMA DecisionLooks ==
  ASSUME DraftInv, NEW h \in DraftRequests, SubmitLook(h) \/ WithdrawLook(h)
  PROVE  DraftInv'
<1>1. /\ DraftTypes /\ PatchesApart /\ RequestsAlone /\ PapersFollow /\ RowHasFile
  BY DEF DraftInv
<1>2. /\ form[h].step = "none"
      /\ status' = status /\ confirmed' = confirmed /\ settled' = settled /\ listed' = listed
      /\ links' = links /\ sent' = sent
      /\ papers' = papers /\ paperFiles' = paperFiles /\ boothForm' = boothForm
  BY DEF SubmitLook, WithdrawLook, NoForm, paperVars
<1>3. mixed' = mixed \cup (IF Deciding # {} THEN {"any"} ELSE {})
  BY DEF SubmitLook, WithdrawLook
<1>4. PICK s \in OtherForm :
        /\ form' = [form EXCEPT ![h] = s]
        /\ \/ s.step = "submit" /\ status = "draft"
           \/ s.step = "cancel" /\ status # "confirmed"
  <2>1. [step |-> "submit"] \in OtherForm /\ [step |-> "cancel"] \in OtherForm
    BY DEF OtherForm
  <2>2. CASE SubmitLook(h)
    BY <2>1, <2>2 DEF SubmitLook
  <2>3. CASE WithdrawLook(h)
    BY <2>1, <2>3 DEF WithdrawLook
  <2> QED BY <2>2, <2>3
<1>5. s \notin PatchForm /\ s \notin PaperForm
  BY <1>4 DEF PatchForm, PaperForm
<1>6. /\ form'[h] = s /\ \A g \in DraftRequests \ {h} : form'[g] = form[g]
      /\ form' \in [DraftRequests -> PatchForm \cup PaperForm \cup OtherForm]
      /\ Patching' = Patching \ {h} /\ Handling' = Handling \ {h}
      /\ Deciding' = Deciding \cup {h}
      /\ \A g \in Patching \cup Handling \cup Deciding : g \in DraftRequests
  <2>1. h \notin Deciding
    BY <1>2 DEF Deciding, Patching
  <2> QED BY <1>1, <1>4, <1>5, <2>1, FormOne
<1>7. DraftTypes'
  BY <1>1, <1>2, <1>3, <1>6 DEF DraftTypes
<1>8. PatchesApart'
  BY <1>1, <1>2, <1>3, <1>6, PatchesStay
<1>9. RequestsAlone'
  <2>1. \A g \in Deciding' : g = h \/ g \in Deciding
    BY <1>6
  <2> QED BY <1>1, <1>2, <1>3, <1>4, <1>6, <2>1 DEF RequestsAlone
<1>10. PapersFollow' /\ RowHasFile'
  BY <1>1, <1>2, <1>6, PapersStay
<1> QED BY <1>7, <1>8, <1>9, <1>10 DEF DraftInv

(* It is committed over whatever the status has become.                    *)
LEMMA DecisionCommits ==
  ASSUME DraftInv, NEW h \in DraftRequests, SubmitCommit(h) \/ WithdrawCommit(h)
  PROVE  DraftInv'
<1>1. /\ DraftTypes /\ PatchesApart /\ RequestsAlone /\ PapersFollow /\ RowHasFile
  BY DEF DraftInv
<1>2. /\ confirmed' = confirmed /\ settled' = settled /\ listed' = listed /\ links' = links
      /\ papers' = papers /\ paperFiles' = paperFiles /\ boothForm' = boothForm
      /\ form' = [form EXCEPT ![h] = NoForm]
      /\ mixed' = mixed \cup (IF Deciding \ {h} # {} THEN {"any"} ELSE {})
      /\ \/ form[h].step = "submit" /\ status' = "submitted" /\ sent' = listed
         \/ form[h].step = "cancel" /\ status' = "cancelled" /\ sent' = sent
  BY DEF SubmitCommit, WithdrawCommit, FormEnds, Meets, paperVars
<1>3. NoForm \in OtherForm /\ NoForm \notin PatchForm /\ NoForm \notin PaperForm /\ NoForm.step = "none"
  BY DEF NoForm, PatchForm, PaperForm, OtherForm
<1>4. /\ form'[h] = NoForm /\ \A g \in DraftRequests \ {h} : form'[g] = form[g]
      /\ form' \in [DraftRequests -> PatchForm \cup PaperForm \cup OtherForm]
      /\ Patching' = Patching \ {h} /\ Handling' = Handling \ {h} /\ Deciding' = Deciding \ {h}
      /\ \A g \in Patching \cup Handling \cup Deciding : g \in DraftRequests
  BY <1>1, <1>2, <1>3, FormOne
<1>5. h \in Deciding
  BY <1>2 DEF Deciding
<1>6. DraftTypes'
  BY <1>1, <1>2, <1>4 DEF DraftTypes
<1>7. PatchesApart'
  BY <1>1, <1>2, <1>4, PatchesStay
<1>8. RequestsAlone'
  <2> SUFFICES ASSUME "any" \notin mixed'
               PROVE  RequestsAlone'
    BY <1>2 DEF RequestsAlone
  <2>1. "any" \notin mixed /\ Deciding' = {}
    BY <1>2, <1>4
  <2>2. ~confirmed
    BY <1>1, <1>2, <1>5, <2>1 DEF RequestsAlone
  <2>3. sent' # {} => listed' = sent'
    BY <1>1, <1>2, <2>1 DEF RequestsAlone
  <2> QED BY <1>2, <2>1, <2>2, <2>3 DEF RequestsAlone
<1>9. PapersFollow' /\ RowHasFile'
  BY <1>1, <1>2, <1>4, PapersStay
<1> QED BY <1>6, <1>7, <1>8, <1>9 DEF DraftInv

(* An administrator, or money, moves the registration.                     *)
LEMMA OthersDecide ==
  ASSUME DraftInv,
         \/ \E to \in DOMAIN Allowed : AdminCommand(to)
         \/ \E paid \in BOOLEAN : MoneyMoves(paid)
  PROVE  DraftInv'
<1>1. /\ DraftTypes /\ PatchesApart /\ RequestsAlone /\ PapersFollow /\ RowHasFile
  BY DEF DraftInv
<1>2. /\ listed' = listed /\ links' = links /\ sent' = sent /\ form' = form
      /\ papers' = papers /\ paperFiles' = paperFiles /\ boothForm' = boothForm
      /\ mixed' = mixed \cup (IF Deciding # {} THEN {"any"} ELSE {})
  BY DEF AdminCommand, MoneyMoves, paperVars
<1>3. /\ status' \in {"verified", "confirmed", "rejected", "paid", "payment_pending"}
      /\ confirmed' \in BOOLEAN /\ settled' \in BOOLEAN
      /\ confirmed' /\ (confirmed => status = "confirmed") => status' = "confirmed"
  <2>1. ASSUME NEW to \in DOMAIN Allowed, AdminCommand(to)
        PROVE  /\ to \in {"verified", "confirmed", "rejected"} /\ status # "confirmed"
               /\ status' = to /\ settled' = settled
               /\ confirmed' = (confirmed \/ to = "confirmed")
    BY <2>1 DEF AdminCommand, Allowed
  <2>2. ASSUME NEW paid \in BOOLEAN, MoneyMoves(paid)
        PROVE  /\ status' \in {"confirmed", "paid", "payment_pending"}
               /\ confirmed' = confirmed /\ settled' = paid
               /\ status = "confirmed" => status' = "confirmed"
    BY <2>2 DEF MoneyMoves
  <2>3. confirmed \in BOOLEAN /\ settled \in BOOLEAN
    BY <1>1 DEF DraftTypes
  <2> QED BY <2>1, <2>2, <2>3
<1>4. DraftTypes'
  BY <1>1, <1>2, <1>3 DEF DraftTypes
<1>5. PatchesApart'
  BY <1>1, <1>2, PatchesStay DEF Patching
<1>6. RequestsAlone'
  <2>1. Deciding' = Deciding
    BY <1>2 DEF Deciding, Patching
  <2> QED BY <1>1, <1>2, <1>3, <2>1 DEF RequestsAlone
<1>7. PapersFollow' /\ RowHasFile'
  BY <1>1, <1>2, PapersStay DEF Handling
<1> QED BY <1>4, <1>5, <1>6, <1>7 DEF DraftInv

(* A file is written, and its row committed.                               *)
LEMMA PaperComes ==
  ASSUME DraftInv, NEW h \in DraftRequests,
         PaperCommit(h) \/ CatalogueCommit(h) \/ \E d \in Documents : PaperUpload(h, d)
  PROVE  DraftInv'
<1>1. /\ DraftTypes /\ PatchesApart /\ RequestsAlone /\ PapersFollow /\ RowHasFile
      /\ papers \in [Documents -> {"none", "registration", "booth"}]
  BY DEF DraftInv, DraftTypes
<1>2. /\ status' = status /\ confirmed' = confirmed /\ settled' = settled /\ listed' = listed
      /\ links' = links /\ sent' = sent /\ mixed' = mixed
  BY DEF PaperCommit, CatalogueCommit, PaperUpload, registrationVars
<1>3. ASSUME NEW s \in PaperForm \cup OtherForm, s.step \notin {"submit", "cancel"},
             form' = [form EXCEPT ![h] = s]
      PROVE  /\ form'[h] = s /\ \A g \in DraftRequests \ {h} : form'[g] = form[g]
             /\ form' \in [DraftRequests -> PatchForm \cup PaperForm \cup OtherForm]
             /\ Handling' = (Handling \ {h}) \cup (IF s \in PaperForm THEN {h} ELSE {})
             /\ \A g \in Handling : g \in DraftRequests
             /\ PatchesApart' /\ RequestsAlone'
  <2>1. s \notin PatchForm
    BY <1>3 DEF PatchForm, PaperForm, OtherForm
  <2>2. /\ form'[h] = s /\ \A g \in DraftRequests \ {h} : form'[g] = form[g]
        /\ form' \in [DraftRequests -> PatchForm \cup PaperForm \cup OtherForm]
        /\ Patching' = Patching \ {h} /\ Deciding' = Deciding \ {h}
        /\ Handling' = (Handling \ {h}) \cup (IF s \in PaperForm THEN {h} ELSE {})
        /\ \A g \in Patching \cup Handling \cup Deciding : g \in DraftRequests
    BY <1>1, <1>3, <2>1, FormOne
  <2>3. PatchesApart'
    BY <1>1, <1>2, <2>2, PatchesStay
  <2>4. RequestsAlone'
    BY <1>1, <1>2, <2>2, DecisionsStay
  <2> QED BY <2>2, <2>3, <2>4
<1>4. ASSUME NEW d \in Documents, PaperUpload(h, d)
      PROVE  DraftInv'
    <3>1. /\ form[h].step = "none" /\ FreshPaper(d)
          /\ papers' = papers /\ paperFiles' = paperFiles \cup {d} /\ boothForm' = boothForm
      BY <1>4 DEF PaperUpload, NoForm
    <3>2. PICK s \in PaperForm :
            /\ s.step \in {"upload", "catalogue"} /\ s.d = d /\ form' = [form EXCEPT ![h] = s]
      BY <1>4 DEF PaperUpload, PaperStep, PaperForm
    <3>3. /\ form'[h] = s /\ \A g \in DraftRequests \ {h} : form'[g] = form[g]
          /\ form' \in [DraftRequests -> PatchForm \cup PaperForm \cup OtherForm]
          /\ Handling' = Handling \cup {h} /\ h \notin Handling
          /\ \A g \in Handling : g \in DraftRequests
          /\ PatchesApart' /\ RequestsAlone'
      <4>1. h \notin Handling
        BY <3>1 DEF Handling
      <4> QED BY <1>3, <3>2, <4>1
    <3>4. \A g \in Handling : form'[g] = form[g] /\ form[g].d # d
      BY <3>1, <3>3 DEF FreshPaper, Handling
    <3>5. papers[d] = "none"
      BY <3>1 DEF FreshPaper
    <3>6. PapersFollow'
      BY <1>1, <3>1, <3>2, <3>3, <3>4, <3>5 DEF PapersFollow
    <3>7. RowHasFile'
      BY <1>1, <3>1 DEF RowHasFile
    <3>8. DraftTypes'
      BY <1>1, <1>2, <3>1, <3>3 DEF DraftTypes
    <3> QED BY <3>3, <3>6, <3>7, <3>8 DEF DraftInv
<1>5. ASSUME NEW whose \in {"registration", "booth"},
             form[h].step = (IF whose = "booth" THEN "catalogue" ELSE "upload"),
             papers' = [papers EXCEPT ![form[h].d] = whose], form' = [form EXCEPT ![h] = NoForm],
             paperFiles' = paperFiles,
             boothForm' = IF whose = "booth" THEN "submitted" ELSE boothForm
      PROVE  DraftInv'
    <3> DEFINE d == form[h].d
    <3>1. /\ h \in Handling /\ d \in Documents /\ d \in paperFiles
          /\ \A g \in Handling \ {h} : form[g].d # d
          /\ papers[d] = "none"
      <4>1. h \in Handling
        BY <1>5 DEF Handling
      <4>2. form[h] \in PaperForm
        BY <1>1, <4>1, FormKinds
      <4> QED BY <1>1, <1>5, <4>1, <4>2 DEF PapersFollow, PaperForm
    <3>2. NoForm \in OtherForm /\ NoForm \notin PaperForm /\ NoForm.step = "none"
      BY DEF NoForm, PaperForm, OtherForm
    <3>3. /\ form'[h] = NoForm /\ \A g \in DraftRequests \ {h} : form'[g] = form[g]
          /\ form' \in [DraftRequests -> PatchForm \cup PaperForm \cup OtherForm]
          /\ Handling' = Handling \ {h} /\ \A g \in Handling : g \in DraftRequests
          /\ PatchesApart' /\ RequestsAlone'
      BY <1>3, <1>5, <3>2
    <3>4. papers'[d] = whose /\ \A e \in Documents \ {d} : papers'[e] = papers[e]
      BY <1>1, <1>5, <3>1
    <3>5. \A g \in Handling' : /\ g \in Handling /\ form'[g] = form[g] /\ form[g].d \in Documents \ {d}
                               /\ papers'[form[g].d] = papers[form[g].d]
      BY <1>1, <3>1, <3>3, <3>4, FormKinds DEF PaperForm
    <3>6. PapersFollow'
      BY <1>1, <1>5, <3>3, <3>5 DEF PapersFollow
    <3>7. RowHasFile'
      <4>1. \A e \in Documents : papers'[e] # "none" => e \in paperFiles'
        BY <1>1, <1>5, <3>1, <3>4 DEF RowHasFile
      <4>2. boothForm' = "submitted" => \E e \in Documents : papers'[e] = "booth"
        BY <1>1, <1>5, <3>1, <3>4 DEF RowHasFile
      <4> QED BY <4>1, <4>2 DEF RowHasFile
    <3>8. papers' \in [Documents -> {"none", "registration", "booth"}]
      BY <1>1, <1>5
    <3>9. DraftTypes'
      BY <1>1, <1>2, <1>5, <3>3, <3>8 DEF DraftTypes
    <3> QED BY <3>3, <3>6, <3>7, <3>9 DEF DraftInv
<1>6. CASE PaperCommit(h)
  BY <1>6, <1>5 DEF PaperCommit, FormEnds
<1>7. CASE CatalogueCommit(h)
  BY <1>7, <1>5 DEF CatalogueCommit, FormEnds
<1> QED BY <1>4, <1>6, <1>7

(* A row goes, and its file after it.                                      *)
LEMMA PaperGoes ==
  ASSUME DraftInv, NEW h \in DraftRequests,
         \/ \E d \in Documents : PaperRemoveLook(h, d)
         \/ PaperRemoveCommit(h) \/ PaperUnlink(h) \/ LeaveForm(h)
  PROVE  DraftInv'
<1>1. /\ DraftTypes /\ PatchesApart /\ RequestsAlone /\ PapersFollow /\ RowHasFile
      /\ papers \in [Documents -> {"none", "registration", "booth"}]
  BY DEF DraftInv, DraftTypes
<1>2. /\ status' = status /\ confirmed' = confirmed /\ settled' = settled /\ listed' = listed
      /\ links' = links /\ sent' = sent /\ mixed' = mixed /\ boothForm' = boothForm
  BY DEF PaperRemoveLook, PaperRemoveCommit, PaperUnlink, LeaveForm, registrationVars, paperVars
<1>3. ASSUME NEW s \in PaperForm \cup OtherForm, s.step \notin {"submit", "cancel"},
             form' = [form EXCEPT ![h] = s]
      PROVE  /\ form'[h] = s /\ \A g \in DraftRequests \ {h} : form'[g] = form[g]
             /\ form' \in [DraftRequests -> PatchForm \cup PaperForm \cup OtherForm]
             /\ Handling' = (Handling \ {h}) \cup (IF s \in PaperForm THEN {h} ELSE {})
             /\ \A g \in Handling : g \in DraftRequests
             /\ PatchesApart' /\ RequestsAlone'
  <2>1. s \notin PatchForm
    BY <1>3 DEF PatchForm, PaperForm, OtherForm
  <2>2. /\ form'[h] = s /\ \A g \in DraftRequests \ {h} : form'[g] = form[g]
        /\ form' \in [DraftRequests -> PatchForm \cup PaperForm \cup OtherForm]
        /\ Patching' = Patching \ {h} /\ Deciding' = Deciding \ {h}
        /\ Handling' = (Handling \ {h}) \cup (IF s \in PaperForm THEN {h} ELSE {})
        /\ \A g \in Patching \cup Handling \cup Deciding : g \in DraftRequests
    BY <1>1, <1>3, <2>1, FormOne
  <2>3. PatchesApart'
    BY <1>1, <1>2, <2>2, PatchesStay
  <2>4. RequestsAlone'
    BY <1>1, <1>2, <2>2, DecisionsStay
  <2> QED BY <2>2, <2>3, <2>4
<1>4. ASSUME NEW d \in Documents, PaperRemoveLook(h, d)
      PROVE  DraftInv'
  <2>1. /\ form[h].step = "none" /\ papers[d] = "registration"
        /\ papers' = papers /\ paperFiles' = paperFiles
    BY <1>4 DEF PaperRemoveLook, NoForm, FilesMeanwhile
  <2> DEFINE s == [step |-> "remove", d |-> d]
  <2>2. s \in PaperForm /\ s.step = "remove" /\ s.d = d /\ form' = [form EXCEPT ![h] = s]
    BY <1>4 DEF PaperRemoveLook, PaperStep, PaperForm
  <2> HIDE DEF s
  <2>3. /\ form'[h] = s /\ \A g \in DraftRequests \ {h} : form'[g] = form[g]
        /\ form' \in [DraftRequests -> PatchForm \cup PaperForm \cup OtherForm]
        /\ Handling' = Handling \cup {h} /\ h \notin Handling
        /\ \A g \in Handling : g \in DraftRequests
        /\ PatchesApart' /\ RequestsAlone'
    <3>1. h \notin Handling
      BY <2>1 DEF Handling
    <3> QED BY <1>3, <2>2, <3>1
  <2>4. \A g \in Handling : /\ form'[g] = form[g]
                            /\ form[g].step \in {"upload", "catalogue"} => form[g].d # d
    BY <1>1, <2>1, <2>3 DEF PapersFollow
  <2>5. PapersFollow'
    BY <1>1, <2>1, <2>2, <2>3, <2>4 DEF PapersFollow
  <2>6. RowHasFile'
    BY <1>1, <1>2, <2>1 DEF RowHasFile
  <2>7. DraftTypes'
    BY <1>1, <1>2, <2>1, <2>3 DEF DraftTypes
  <2> QED BY <2>3, <2>5, <2>6, <2>7 DEF DraftInv
<1>5. CASE PaperRemoveCommit(h)
  <2> DEFINE d == form[h].d
             s == [form[h] EXCEPT !.step = "unlink"]
  <2>1. /\ h \in Handling /\ form[h].step = "remove" /\ d \in Documents /\ papers[d] # "booth"
        /\ form[h] \in PaperForm
    <3>1. form[h].step = "remove" /\ h \in Handling
      BY <1>5 DEF PaperRemoveCommit, Handling
    <3> QED BY <1>1, <3>1, FormKinds DEF PapersFollow, PaperForm
  <2>2. s \in PaperForm /\ s.step = "unlink" /\ s.d = d
    BY <2>1 DEF PaperForm
  <2>3. /\ papers' = [papers EXCEPT ![d] = "none"] /\ paperFiles' = paperFiles
        /\ form' = [form EXCEPT ![h] = s]
    BY <1>5 DEF PaperRemoveCommit, Goes
  <2> HIDE DEF s
  <2>4. /\ form'[h] = s /\ \A g \in DraftRequests \ {h} : form'[g] = form[g]
        /\ form' \in [DraftRequests -> PatchForm \cup PaperForm \cup OtherForm]
        /\ Handling' = Handling
        /\ \A g \in Handling : g \in DraftRequests
        /\ PatchesApart' /\ RequestsAlone'
    <3>1. s \in PaperForm \cup OtherForm /\ s.step \notin {"submit", "cancel"}
      BY <2>2
    <3>2. /\ form'[h] = s /\ \A g \in DraftRequests \ {h} : form'[g] = form[g]
          /\ form' \in [DraftRequests -> PatchForm \cup PaperForm \cup OtherForm]
          /\ Handling' = (Handling \ {h}) \cup (IF s \in PaperForm THEN {h} ELSE {})
          /\ \A g \in Handling : g \in DraftRequests
          /\ PatchesApart' /\ RequestsAlone'
      BY <1>3, <2>3, <3>1
    <3>3. Handling' = Handling
      BY <2>1, <2>2, <3>2
    <3> QED BY <3>2, <3>3
  <2>5. papers'[d] = "none" /\ \A e \in Documents \ {d} : papers'[e] = papers[e]
    BY <1>1, <2>1, <2>3
  <2>6. papers' \in [Documents -> {"none", "registration", "booth"}]
    BY <1>1, <2>3
  <2>7. \A g \in Handling \ {h} :
          /\ form'[g] = form[g] /\ form[g].d \in Documents
          /\ form[g].step \in {"upload", "catalogue"} => form[g].d # d
    BY <1>1, <2>1, <2>4, FormKinds DEF PapersFollow, PaperForm
  <2>8. PapersFollow'
    <3>1. ASSUME NEW g \in Handling \ {h}
          PROVE  /\ form'[g].step \in {"upload", "catalogue"} =>
                      /\ form'[g].d \in paperFiles' /\ papers'[form'[g].d] = "none"
                      /\ \A k \in Handling \ {g} : form'[k].d # form'[g].d
                 /\ form'[g].step = "remove" => papers'[form'[g].d] # "booth"
                 /\ form'[g].step = "unlink" => papers'[form'[g].d] = "none"
      BY <1>1, <2>1, <2>2, <2>3, <2>4, <2>5, <2>7 DEF PapersFollow
    <3> QED BY <2>2, <2>4, <2>5, <3>1 DEF PapersFollow
  <2>9. RowHasFile'
    <3>1. \A e \in Documents : papers[e] = "booth" => papers'[e] = "booth"
      BY <2>1, <2>5
    <3>2. \A e \in Documents : papers'[e] # "none" => papers[e] # "none"
      BY <2>5
    <3> QED BY <1>1, <1>2, <2>3, <3>1, <3>2 DEF RowHasFile
  <2>10. DraftTypes'
    BY <1>1, <1>2, <2>3, <2>4, <2>6 DEF DraftTypes
  <2> QED BY <2>4, <2>8, <2>9, <2>10 DEF DraftInv
<1>6. CASE PaperUnlink(h)
  <2> DEFINE d == form[h].d
  <2>1. h \in Handling /\ form[h].step = "unlink" /\ papers[d] = "none"
    <3>1. form[h].step = "unlink" /\ h \in Handling
      BY <1>6 DEF PaperUnlink, Handling
    <3> QED BY <1>1, <3>1 DEF PapersFollow
  <2>2. /\ papers' = papers /\ paperFiles' = paperFiles \ {d} /\ form' = [form EXCEPT ![h] = NoForm]
    BY <1>6 DEF PaperUnlink, FormEnds
  <2>3. NoForm \in OtherForm /\ NoForm \notin PaperForm /\ NoForm.step = "none"
    BY DEF NoForm, PaperForm, OtherForm
  <2>4. /\ form'[h] = NoForm /\ \A g \in DraftRequests \ {h} : form'[g] = form[g]
        /\ form' \in [DraftRequests -> PatchForm \cup PaperForm \cup OtherForm]
        /\ Handling' = Handling \ {h} /\ \A g \in Handling : g \in DraftRequests
        /\ PatchesApart' /\ RequestsAlone'
    BY <1>3, <2>2, <2>3
  <2>5. \A g \in Handling \ {h} :
          /\ form'[g] = form[g]
          /\ form[g].step \in {"upload", "catalogue"} => form[g].d # d
    BY <1>1, <2>1, <2>4 DEF PapersFollow
  <2>6. PapersFollow'
    BY <1>1, <2>2, <2>4, <2>5 DEF PapersFollow
  <2>7. RowHasFile'
    BY <1>1, <1>2, <2>1, <2>2 DEF RowHasFile
  <2>8. DraftTypes'
    BY <1>1, <1>2, <2>2, <2>4 DEF DraftTypes
  <2> QED BY <2>4, <2>6, <2>7, <2>8 DEF DraftInv
<1>7. CASE LeaveForm(h)
  <2>1. papers' = papers /\ paperFiles' = paperFiles
    BY <1>7 DEF LeaveForm, paperVars
  <2>2. /\ form' \in [DraftRequests -> PatchForm \cup PaperForm \cup OtherForm]
        /\ form'[h].step = "none"
        /\ \A g \in DraftRequests \ {h} :
             \/ form'[g] = form[g]
             \/ form[g].step = "waiting" /\ form'[g] \in PatchForm /\ form'[g].step = "written"
    <3>1. form' = [g \in DraftRequests |->
                     IF g = h THEN NoForm
                     ELSE IF form[h].step = "dropped" /\ form[g].step = "waiting"
                          THEN [form[g] EXCEPT !.step = "written"]
                     ELSE form[g]]
      BY <1>7 DEF LeaveForm
    <3>2. NoForm \in OtherForm /\ NoForm.step = "none"
      BY DEF NoForm, OtherForm
    <3>3. ASSUME NEW g \in DraftRequests, form[g].step = "waiting"
          PROVE  /\ [form[g] EXCEPT !.step = "written"] \in PatchForm
                 /\ [form[g] EXCEPT !.step = "written"].step = "written"
      <4>1. form[g] \in PatchForm
        BY <1>1, <3>3 DEF DraftTypes, PaperForm, OtherForm
      <4> QED BY <4>1 DEF PatchForm
    <3>4. \A g \in DraftRequests : form[g] \in PatchForm \cup PaperForm \cup OtherForm
      BY <1>1 DEF DraftTypes
    <3> QED BY <3>1, <3>2, <3>3, <3>4
  <2>3. \A g \in Patching' : g \in Patching /\ (form'[g] = form[g] \/ form[g].step = "waiting")
    BY <2>2 DEF Patching
  <2>4. \A g \in Deciding' : g \in Deciding /\ (form'[g].step = "cancel" <=> form[g].step = "cancel")
    BY <2>2, <2>3 DEF Deciding, Patching
  <2>5. \A g \in Handling' : g \in Handling /\ form'[g] = form[g]
    BY <2>2 DEF Handling
  <2>6. PatchesApart'
    BY <1>1, <1>2, <2>3, PatchesStay
  <2>7. RequestsAlone'
    BY <1>1, <1>2, <2>4, DecisionsStay
  <2>8. PapersFollow' /\ RowHasFile'
    BY <1>1, <1>2, <2>1, <2>5, PapersStay
  <2>9. DraftTypes'
    BY <1>1, <1>2, <2>1, <2>2 DEF DraftTypes
  <2> QED BY <2>6, <2>7, <2>8, <2>9 DEF DraftInv
<1> QED BY <1>4, <1>5, <1>6, <1>7

(* The booth is begun, or given up with its papers.                        *)
LEMMA BoothKeeps ==
  ASSUME DraftInv, CreateBooth \/ DeleteBooth
  PROVE  DraftInv'
<1>1. /\ DraftTypes /\ PatchesApart /\ RequestsAlone /\ PapersFollow /\ RowHasFile
  BY DEF DraftInv
<1>2. /\ status' = status /\ confirmed' = confirmed /\ settled' = settled /\ listed' = listed
      /\ links' = links /\ sent' = sent /\ mixed' = mixed /\ paperFiles' = paperFiles
      /\ boothForm' \in {"none", "draft"}
  BY DEF CreateBooth, DeleteBooth, registrationVars
<1>3. /\ papers' \in [Documents -> {"none", "registration", "booth"}]
      /\ \A d \in Documents : papers'[d] = papers[d] \/ papers'[d] = "none"
  BY <1>1 DEF DraftTypes, CreateBooth, DeleteBooth
<1>4. /\ form' \in [DraftRequests -> PatchForm \cup PaperForm \cup OtherForm]
      /\ \A h \in DraftRequests :
           \/ form'[h] = form[h]
           \/ form[h].step = "catalogue" /\ form'[h].step = "none"
  <2>1. NoForm \in OtherForm /\ NoForm.step = "none"
    BY DEF NoForm, OtherForm
  <2>2. form \in [DraftRequests -> PatchForm \cup PaperForm \cup OtherForm]
    BY <1>1 DEF DraftTypes
  <2>3. CASE CreateBooth
    BY <2>2, <2>3 DEF CreateBooth
  <2>4. CASE DeleteBooth
    <3>1. form' = [h \in DraftRequests |-> IF form[h].step = "catalogue" THEN NoForm ELSE form[h]]
      BY <2>4 DEF DeleteBooth
    <3> QED BY <2>1, <2>2, <3>1
  <2> QED BY <2>3, <2>4
<1>5. /\ Patching' = Patching /\ Deciding' = Deciding /\ Handling' \subseteq Handling
      /\ \A h \in Patching' \cup Deciding' \cup Handling' : h \in DraftRequests /\ form'[h] = form[h]
  <2>1. \A h \in DraftRequests : form'[h] # form[h] => h \notin Patching /\ h \notin Deciding
    BY <1>4 DEF Patching, Deciding
  <2>2. Patching' = Patching
    BY <1>4 DEF Patching
  <2>3. Deciding' = Deciding
    BY <1>4, <2>2 DEF Deciding
  <2>4. Handling' \subseteq Handling /\ \A h \in Handling' : h \in DraftRequests /\ form'[h] = form[h]
    BY <1>4 DEF Handling
  <2> QED BY <1>1, <2>1, <2>2, <2>3, <2>4, FormKinds
<1>6. PatchesApart'
  BY <1>1, <1>2, <1>5, PatchesStay
<1>7. RequestsAlone'
  BY <1>1, <1>2, <1>5, DecisionsStay
<1>8. PapersFollow'
  <2>1. \A h \in Handling' : /\ h \in Handling /\ form'[h] = form[h] /\ form[h].d \in Documents
                             /\ papers'[form[h].d] = papers[form[h].d] \/ papers'[form[h].d] = "none"
    BY <1>1, <1>3, <1>5, FormKinds DEF PaperForm
  <2> QED BY <1>1, <1>2, <1>5, <2>1 DEF PapersFollow
<1>9. RowHasFile'
  BY <1>1, <1>2, <1>3 DEF RowHasFile
<1>10. DraftTypes'
  BY <1>1, <1>2, <1>3, <1>4 DEF DraftTypes
<1> QED BY <1>6, <1>7, <1>8, <1>9, <1>10 DEF DraftInv

(* A new draft, with the categories it was begun with.                     *)
LEMMA DraftInitInv == DraftInit => DraftInv
<1> SUFFICES ASSUME DraftInit PROVE DraftInv
  OBVIOUS
<1>1. /\ status = "draft" /\ confirmed = FALSE /\ settled = FALSE
      /\ listed \in SUBSET Categories /\ links = listed /\ sent = {}
      /\ papers = [d \in Documents |-> "none"] /\ paperFiles = {} /\ boothForm = "none"
      /\ form = [h \in DraftRequests |-> NoForm] /\ mixed = {}
  BY DEF DraftInit
<1>2. NoForm \in OtherForm /\ NoForm.step = "none"
  BY DEF NoForm, OtherForm
<1>3. DraftTypes
  BY <1>1, <1>2 DEF DraftTypes
<1>4. Patching = {} /\ Handling = {} /\ Deciding = {}
  BY <1>1, <1>2 DEF Patching, Handling, Deciding
<1> QED BY <1>1, <1>3, <1>4 DEF DraftInv, PatchesApart, RequestsAlone, PapersFollow, RowHasFile

(* Every step of the registration's owner and of others keeps it.          *)
LEMMA DraftNextInv == DraftInv /\ [DraftNext]_draftVars => DraftInv'
<1> SUFFICES ASSUME DraftInv, [DraftNext]_draftVars PROVE DraftInv'
  OBVIOUS
<1>1. ASSUME NEW h \in DraftRequests,
             \/ \E want \in SUBSET Categories \ {{}}, other \in BOOLEAN : PatchLook(h, want, other)
             \/ PatchUpdate(h) \/ PatchDrop(h) \/ PatchCommit(h)
             \/ SubmitLook(h) \/ SubmitCommit(h) \/ WithdrawLook(h) \/ WithdrawCommit(h)
      PROVE  DraftInv'
  BY <1>1, PatchLookKeeps, PatchMoves, PatchCommitKeeps, DecisionLooks, DecisionCommits
<1>2. ASSUME NEW h \in DraftRequests,
             \/ \E d \in Documents : PaperUpload(h, d) \/ PaperRemoveLook(h, d)
             \/ PaperCommit(h) \/ CatalogueCommit(h) \/ PaperRemoveCommit(h) \/ PaperUnlink(h)
             \/ LeaveForm(h)
      PROVE  DraftInv'
  BY <1>2, PaperComes, PaperGoes
<1>3. CASE \/ \E to \in DOMAIN Allowed : AdminCommand(to)
           \/ \E paid \in BOOLEAN : MoneyMoves(paid)
           \/ CreateBooth
           \/ DeleteBooth
  BY <1>3, OthersDecide, BoothKeeps
<1>4. CASE UNCHANGED draftVars
  <2>1. /\ status' = status /\ confirmed' = confirmed /\ settled' = settled /\ listed' = listed
        /\ links' = links /\ sent' = sent /\ mixed' = mixed /\ form' = form
        /\ papers' = papers /\ paperFiles' = paperFiles /\ boothForm' = boothForm
    BY <1>4 DEF draftVars
  <2>2. PatchesApart' /\ RequestsAlone'
    BY <2>1, PatchesStay, DecisionsStay DEF DraftInv, Patching, Deciding
  <2>3. PapersFollow' /\ RowHasFile'
    BY <2>1, PapersStay DEF DraftInv, Handling
  <2>4. DraftTypes'
    BY <2>1 DEF DraftInv, DraftTypes
  <2> QED BY <2>2, <2>3, <2>4 DEF DraftInv
<1> QED BY <1>1, <1>2, <1>3, <1>4 DEF DraftNext

(* What requests hold, and that they meet others or find what they saw.    *)
THEOREM DraftInvariant == DraftSpec => []DraftInv
<1> QED BY DraftInitInv, DraftNextInv, PTL DEF DraftSpec

(* A document's row has its file, and a submitted booth a catalogue.       *)
THEOREM DocumentsHaveFiles == DraftSpec => []RowHasFile
<1>1. DraftInv => RowHasFile
  BY DEF DraftInv
<1> QED BY DraftInvariant, <1>1, PTL

(* Column, rows, submitted form and status agree unless requests met.      *)
THEOREM FormsDisagreeByOverlap == DraftSpec => []LinksNeedOverlap
<1>1. DraftInv => LinksNeedOverlap
  BY DEF DraftInv, LinksNeedOverlap, PatchesApart, RequestsAlone
<1> QED BY DraftInvariant, <1>1, PTL

-----------------------------------------------------------------------------
(***************************************************************************)
(* Editorial content. A photo is the file of one upload, and no request    *)
(* removes a file that the row names.                                      *)
(***************************************************************************)

EditorStates == {Off} \cup [step : {"upload", "delete", "clean"},
                            new : Photos \cup {Missing}, old : Photos \cup {Missing}]

ContentTypes ==
  /\ memberKind \in {"speaker", "committee", "participant"}
  /\ member \in MemberRows \cup {Missing}
  /\ onDisk \subseteq Photos
  /\ editor \in [Editors -> EditorStates]
  /\ urlGiven \in BOOLEAN

(* A participant's profile is not deleted, and its old photos stay.        *)
ProfileStays ==
  memberKind = "participant" =>
    \A h \in Editors : /\ editor[h].step \in {"off", "upload"}
                       /\ editor[h].step = "upload" => Present(member)

(* While no update names a URL: a photo being uploaded has its file, is not *)
(* the row's yet, and no request will remove it or uploads it too; and the *)
(* photo that a request is about to remove is not the row's.               *)
UploadsApart ==
  \A h \in Editors :
    /\ editor[h].step = "upload" =>
         /\ editor[h].new \in onDisk
         /\ Present(member) => member.photo # editor[h].new
         /\ \A g \in Editors :
              /\ editor[g].step # "off" => editor[g].old # editor[h].new
              /\ g # h /\ editor[g].step = "upload" => editor[g].new # editor[h].new
    /\ editor[h].step = "clean" /\ Present(member) =>
         member.photo # editor[h].old \/ editor[h].old = Missing

PhotoServed == Present(member) => member.photo \in onDisk \cup {Missing}

ContentInv ==
  /\ ContentTypes
  /\ ProfileStays
  /\ ~urlGiven => UploadsApart /\ PhotoServed

-----------------------------------------------------------------------------
(* The row is written while editors and files stay: it keeps its photo or  *)
(* has none, or a URL was given.                                           *)
LEMMA RowChanges ==
  ASSUME ContentInv, memberKind' = memberKind, editor' = editor, onDisk' = onDisk,
         member' \in MemberRows,
         \/ urlGiven' = TRUE
         \/ /\ urlGiven' = FALSE /\ member'.photo = Missing
            /\ memberKind = "participant" /\ ~Present(member)
         \/ /\ urlGiven' = urlGiven /\ Present(member)
            /\ member'.photo \in {member.photo, Missing}
  PROVE  ContentInv'
<1>1. /\ ContentTypes /\ ProfileStays
      /\ ~urlGiven => UploadsApart /\ PhotoServed
  BY DEF ContentInv
<1>2. ContentTypes'
  BY <1>1 DEF ContentTypes
<1>3. Present(member)'
  BY MissingIsNone DEF Present
<1>4. ProfileStays'
  BY <1>1, <1>3 DEF ProfileStays
<1>5. CASE urlGiven' = TRUE
  BY <1>2, <1>4, <1>5 DEF ContentInv
<1>6. CASE /\ urlGiven' = FALSE /\ member'.photo = Missing
           /\ memberKind = "participant" /\ ~Present(member)
  <2>1. \A h \in Editors : editor[h].step = "off"
    BY <1>1, <1>6 DEF ProfileStays
  <2>2. UploadsApart'
    BY <2>1 DEF UploadsApart
  <2>3. PhotoServed'
    BY <1>6 DEF PhotoServed
  <2> QED BY <1>2, <1>4, <2>2, <2>3 DEF ContentInv
<1>7. CASE /\ urlGiven' = urlGiven /\ Present(member)
           /\ member'.photo \in {member.photo, Missing}
  <2>1. ASSUME UploadsApart
        PROVE  UploadsApart'
    <3> SUFFICES ASSUME NEW h \in Editors
                 PROVE  /\ editor[h].step = "upload" => member'.photo # editor[h].new
                        /\ editor[h].step = "clean" =>
                             member'.photo # editor[h].old \/ editor[h].old = Missing
      BY <1>3, <2>1 DEF UploadsApart
    <3>1. editor[h].step = "upload" => editor[h].new \in Photos
      BY <1>1, <2>1 DEF ContentTypes, UploadsApart
    <3> QED BY <1>7, <2>1, <3>1, MissingIsNone DEF UploadsApart
  <2>2. PhotoServed => PhotoServed'
    BY <1>7 DEF PhotoServed
  <2> QED BY <1>1, <1>2, <1>4, <1>7, <2>1, <2>2 DEF ContentInv
<1> QED BY <1>5, <1>6, <1>7

(* An editor moves while the files stay or lose photos that nobody needs.  *)
LEMMA EditorOne ==
  ASSUME ContentTypes, NEW h \in Editors, NEW s \in EditorStates, editor' = [editor EXCEPT ![h] = s]
  PROVE  /\ editor'[h] = s /\ \A g \in Editors \ {h} : editor'[g] = editor[g]
         /\ editor' \in [Editors -> EditorStates]
BY DEF ContentTypes

(* A photo is uploaded: its file has a name that nothing else has.         *)
LEMMA PhotoLookKeeps ==
  ASSUME ContentInv, NEW h \in Editors, NEW f \in Photos, PhotoLook(h, f)
  PROVE  ContentInv'
<1> DEFINE s == [step |-> "upload", new |-> f, old |-> member.photo]
<1>1. /\ ContentTypes /\ ProfileStays
      /\ ~urlGiven => UploadsApart /\ PhotoServed
  BY DEF ContentInv
<1>2. /\ editor' = [editor EXCEPT ![h] = s] /\ onDisk' = onDisk \cup {f}
      /\ memberKind' = memberKind /\ member' = member /\ urlGiven' = urlGiven
      /\ editor[h] = Off /\ Present(member) /\ UnusedPhoto(f) /\ member.photo # f
  BY DEF PhotoLook
<1>3. s \in EditorStates /\ s.step = "upload" /\ s.new = f /\ s.old = member.photo
  BY <1>1, <1>2 DEF ContentTypes, EditorStates, MemberRows, Present
<1> HIDE DEF s
<1>4. /\ editor'[h] = s /\ \A g \in Editors \ {h} : editor'[g] = editor[g]
      /\ editor' \in [Editors -> EditorStates]
  BY <1>1, <1>2, <1>3, EditorOne
<1>5. ContentTypes'
  BY <1>1, <1>2, <1>4 DEF ContentTypes
<1>6. ProfileStays'
  BY <1>1, <1>2, <1>3, <1>4 DEF ProfileStays, Present
<1>7. ASSUME UploadsApart
      PROVE  UploadsApart'
  <2>1. ASSUME NEW g \in Editors, editor[g].step # "off"
        PROVE  f # editor[g].new /\ f # editor[g].old
    BY <1>2, <2>1 DEF UnusedPhoto
  <2>2. editor[h].step = "off"
    BY <1>2 DEF Off
  <2>3. ASSUME NEW g \in Editors, editor'[g].step = "upload"
        PROVE  /\ editor'[g].new \in onDisk'
               /\ member'.photo # editor'[g].new
               /\ \A i \in Editors :
                    /\ editor'[i].step # "off" => editor'[i].old # editor'[g].new
                    /\ i # g /\ editor'[i].step = "upload" => editor'[i].new # editor'[g].new
    <3>1. CASE g = h
      BY <1>2, <1>3, <1>4, <2>1, <3>1
    <3>2. CASE g # h
      BY <1>2, <1>3, <1>4, <1>7, <2>1, <2>3, <3>2 DEF UploadsApart
    <3> QED BY <3>1, <3>2
  <2>4. ASSUME NEW g \in Editors, editor'[g].step = "clean"
        PROVE  member'.photo # editor'[g].old \/ editor'[g].old = Missing
    BY <1>2, <1>3, <1>4, <1>7, <2>4 DEF UploadsApart
  <2> QED BY <2>3, <2>4 DEF UploadsApart
<1>8. PhotoServed => PhotoServed'
  BY <1>2 DEF PhotoServed
<1> QED BY <1>1, <1>2, <1>5, <1>6, <1>7, <1>8 DEF ContentInv


(* A request ends or deletes: nobody uploads or shows a file that goes.    *)
LEMMA EditorEnds ==
  ASSUME ContentInv, NEW h \in Editors, NEW s \in EditorStates, editor' = [editor EXCEPT ![h] = s],
         memberKind' = memberKind, urlGiven' = urlGiven,
         s.step # "upload", memberKind = "participant" => s.step = "off",
         member' = member \/ (member' = Missing /\ memberKind # "participant"),
         s.step = "clean" => member' = Missing,
         s.step # "off" => \/ s.old = editor[h].old /\ editor[h].step # "off"
                           \/ s.old = member.photo /\ Present(member),
         onDisk' \subseteq onDisk,
         ~urlGiven => \A f \in onDisk \ onDisk' :
           /\ Present(member) => member.photo # f
           /\ \A g \in Editors \ {h} : editor[g].step = "upload" => editor[g].new # f
  PROVE  ContentInv'
<1>1. /\ ContentTypes /\ ProfileStays
      /\ ~urlGiven => UploadsApart /\ PhotoServed
  BY DEF ContentInv
<1>2. /\ editor'[h] = s /\ \A g \in Editors \ {h} : editor'[g] = editor[g]
      /\ editor' \in [Editors -> EditorStates]
  BY <1>1, EditorOne
<1>3. ContentTypes'
  BY <1>1, <1>2 DEF ContentTypes
<1>4. ProfileStays'
  BY <1>1, <1>2 DEF ProfileStays, Present
<1>5. Present(member)' => Present(member) /\ member' = member
  BY DEF Present
<1>6. ASSUME UploadsApart, ~urlGiven
      PROVE  UploadsApart'
  <2>1. ASSUME NEW g \in Editors, editor'[g].step = "upload"
        PROVE  /\ editor'[g].new \in onDisk'
               /\ Present(member)' => member'.photo # editor'[g].new
               /\ \A i \in Editors :
                    /\ editor'[i].step # "off" => editor'[i].old # editor'[g].new
                    /\ i # g /\ editor'[i].step = "upload" => editor'[i].new # editor'[g].new
    <3>1. g # h /\ editor'[g] = editor[g]
      BY <1>2, <2>1
    <3>2. /\ editor[g].new \in onDisk /\ (Present(member) => member.photo # editor[g].new)
          /\ \A i \in Editors :
               /\ editor[i].step # "off" => editor[i].old # editor[g].new
               /\ i # g /\ editor[i].step = "upload" => editor[i].new # editor[g].new
      BY <1>6, <2>1, <3>1 DEF UploadsApart
    <3>3. editor[g].new \in onDisk'
      BY <1>6, <2>1, <3>1, <3>2
    <3>4. Present(member)' => member'.photo # editor'[g].new
      BY <1>5, <3>1, <3>2
    <3> QED BY <1>2, <3>1, <3>2, <3>3, <3>4
  <2>2. ASSUME NEW g \in Editors, editor'[g].step = "clean", Present(member)'
        PROVE  member'.photo # editor'[g].old \/ editor'[g].old = Missing
    <3>1. g # h
      BY <1>2, <2>2 DEF Present
    <3> QED BY <1>2, <1>5, <1>6, <2>2, <3>1 DEF UploadsApart
  <2> QED BY <2>1, <2>2 DEF UploadsApart
<1>7. ASSUME PhotoServed, ~urlGiven
      PROVE  PhotoServed'
  BY <1>5, <1>7 DEF PhotoServed
<1> QED BY <1>1, <1>3, <1>4, <1>6, <1>7 DEF ContentInv

(* The row names the photo that was uploaded.                              *)
LEMMA UploadEnds ==
  ASSUME ContentInv, NEW h \in Editors, NEW s \in EditorStates, editor' = [editor EXCEPT ![h] = s],
         memberKind' = memberKind, urlGiven' = urlGiven, onDisk' = onDisk,
         editor[h].step = "upload", Present(member),
         member' = [member EXCEPT !.photo = editor[h].new],
         \/ s.step = "clean" /\ s.old = editor[h].old /\ memberKind # "participant"
         \/ s.step = "off"
  PROVE  ContentInv'
<1>1. /\ ContentTypes /\ ProfileStays
      /\ ~urlGiven => UploadsApart /\ PhotoServed
  BY DEF ContentInv
<1>2. /\ editor'[h] = s /\ \A g \in Editors \ {h} : editor'[g] = editor[g]
      /\ editor' \in [Editors -> EditorStates]
  BY <1>1, EditorOne
<1>3. /\ member \in MemberRows /\ editor[h].new \in Photos \cup {Missing}
  BY <1>1 DEF ContentTypes, Present, EditorStates, Off
<1>4. member' \in MemberRows /\ member'.photo = editor[h].new
  BY <1>3 DEF MemberRows
<1>5. ContentTypes'
  BY <1>1, <1>2, <1>4 DEF ContentTypes
<1>6. Present(member)'
  BY <1>4, MissingIsNone DEF Present
<1>7. ProfileStays'
  BY <1>1, <1>2, <1>6 DEF ProfileStays
<1>8. ASSUME UploadsApart
      PROVE  UploadsApart' /\ PhotoServed'
  <2>1. ASSUME NEW g \in Editors, editor'[g].step = "upload"
        PROVE  /\ editor'[g].new \in onDisk'
               /\ member'.photo # editor'[g].new
               /\ \A i \in Editors :
                    /\ editor'[i].step # "off" => editor'[i].old # editor'[g].new
                    /\ i # g /\ editor'[i].step = "upload" => editor'[i].new # editor'[g].new
    <3>1. g # h /\ editor'[g] = editor[g]
      BY <1>2, <2>1
    <3>2. /\ editor[g].new \in onDisk /\ editor[h].new # editor[g].new
          /\ \A i \in Editors :
               /\ editor[i].step # "off" => editor[i].old # editor[g].new
               /\ i # g /\ editor[i].step = "upload" => editor[i].new # editor[g].new
      BY <1>8, <2>1, <3>1 DEF UploadsApart
    <3>3. \A i \in Editors : editor'[i].step # "off" => editor'[i].old # editor[g].new
      BY <1>2, <3>2
    <3> QED BY <1>2, <1>4, <3>1, <3>2, <3>3
  <2>2. ASSUME NEW g \in Editors, editor'[g].step = "clean"
        PROVE  member'.photo # editor'[g].old
    <3>1. editor[g].step # "off" /\ editor'[g].old = editor[g].old
      BY <1>2, <2>2
    <3> QED BY <1>4, <1>8, <3>1 DEF UploadsApart
  <2>3. UploadsApart'
    BY <2>1, <2>2 DEF UploadsApart
  <2>4. editor[h].new \in onDisk
    BY <1>8 DEF UploadsApart
  <2> QED BY <1>4, <2>3, <2>4 DEF PhotoServed
<1> QED BY <1>1, <1>5, <1>7, <1>8 DEF ContentInv

(* A participant starts without a profile, others without a photo.         *)
LEMMA ContentInitInv == ContentInit => ContentInv
<1> SUFFICES ASSUME ContentInit PROVE ContentInv
  OBVIOUS
<1>1. \A h \in Editors : editor[h] = Off /\ editor[h].step = "off"
  BY DEF ContentInit, Off
<1>2. member \in MemberRows \cup {Missing} /\ (Present(member) => member.photo = Missing)
  <2>1. CASE memberKind = "participant"
    BY <2>1 DEF ContentInit, Present
  <2>2. CASE memberKind # "participant"
    <3>1. PICK text \in Texts : member = [role_title |-> text, biography |-> text, photo |-> Missing]
      BY <2>2 DEF ContentInit
    <3> QED BY <3>1 DEF MemberRows
  <2> QED BY <2>1, <2>2
<1>3. ContentTypes
  BY <1>2 DEF ContentInit, ContentTypes, EditorStates
<1>4. ProfileStays /\ UploadsApart
  BY <1>1 DEF ProfileStays, UploadsApart
<1>5. PhotoServed
  BY <1>2 DEF PhotoServed
<1> QED BY <1>3, <1>4, <1>5 DEF ContentInv

(* Every step of the editors keeps it.                                     *)
LEMMA ContentNextInv == ContentInv /\ [ContentNext]_contentVars => ContentInv'
<1> SUFFICES ASSUME ContentInv, [ContentNext]_contentVars PROVE ContentInv'
  OBVIOUS
<1>1. /\ ContentTypes /\ ProfileStays
      /\ ~urlGiven => UploadsApart /\ PhotoServed
  BY DEF ContentInv
<1>2. Present(member) => member \in MemberRows
  BY <1>1 DEF ContentTypes, Present
<1>3. ASSUME UNCHANGED <<memberKind, member, onDisk, editor, urlGiven>>
      PROVE  ContentInv'
  BY <1>3 DEF ContentInv, ContentTypes, ProfileStays, UploadsApart, PhotoServed, Present
<1>4. ASSUME NEW field \in Fields, NEW text \in Texts, UpdateMember(field, text)
      PROVE  ContentInv'
  <2>1. member' \in MemberRows /\ member'.photo = member.photo
    BY <1>2, <1>4 DEF UpdateMember, MemberRows, Fields
  <2> QED BY <1>4, <2>1, RowChanges DEF UpdateMember
<1>5. ASSUME NEW f \in Photos \cup {Missing}, NamePhoto(f)
      PROVE  ContentInv'
  <2>1. member' \in MemberRows /\ member'.photo = f
    BY <1>2, <1>5 DEF NamePhoto, MemberRows
  <2>2. urlGiven' = TRUE \/ (urlGiven' = urlGiven /\ f = Missing)
    BY <1>1, <1>5 DEF NamePhoto, ContentTypes
  <2> QED BY <1>5, <2>1, <2>2, RowChanges DEF NamePhoto
<1>6. ASSUME CreateProfile
      PROVE  ContentInv'
  <2>1. PICK name \in Texts, about \in Texts \cup {Missing}, f \in Photos \cup {Missing} :
          /\ member' = [role_title |-> name, biography |-> about, photo |-> f]
          /\ urlGiven' = (f # Missing)
    BY <1>6 DEF CreateProfile
  <2>2. member' \in MemberRows /\ member'.photo = f
    BY <2>1 DEF MemberRows
  <2> QED BY <1>6, <2>1, <2>2, RowChanges DEF CreateProfile
<1>7. ASSUME ProfileFromAccount
      PROVE  ContentInv'
  <2>1. PICK name \in Texts :
          member' = [role_title |-> name, biography |-> Missing, photo |-> Missing]
    BY <1>7 DEF ProfileFromAccount
  <2>2. member' \in MemberRows /\ member'.photo = Missing
    BY <2>1 DEF MemberRows
  <2>3. urlGiven' = TRUE \/ urlGiven' = FALSE
    BY <1>1, <1>7 DEF ProfileFromAccount, ContentTypes
  <2> QED BY <1>7, <2>2, <2>3, RowChanges DEF ProfileFromAccount
<1>8. ASSUME NEW h \in Editors
      PROVE  /\ editor[h] \in EditorStates
             /\ Off \in EditorStates /\ Off.step = "off"
  BY <1>1 DEF ContentTypes, EditorStates, Off
<1>9. ASSUME NEW h \in Editors, PhotoCommit(h)
      PROVE  ContentInv'
  <2>1. /\ editor[h].step = "upload" /\ memberKind # "participant"
        /\ memberKind' = memberKind /\ urlGiven' = urlGiven
    BY <1>9 DEF PhotoCommit
  <2>2. CASE Present(member)
    <3> DEFINE s == [editor[h] EXCEPT !.step = "clean"]
    <3>1. s \in EditorStates /\ s.step = "clean" /\ s.old = editor[h].old
      BY <1>8, <2>1 DEF EditorStates, Off
    <3>2. /\ editor' = [editor EXCEPT ![h] = s] /\ onDisk' = onDisk
          /\ member' = [member EXCEPT !.photo = editor[h].new]
      BY <1>9, <2>2 DEF PhotoCommit
    <3> HIDE DEF s
    <3> QED BY <2>1, <2>2, <3>1, <3>2, UploadEnds
  <2>3. CASE ~Present(member)
    <3>1. /\ editor' = [editor EXCEPT ![h] = Off] /\ onDisk' = onDisk \ {editor[h].new}
          /\ member' = member
      BY <1>9, <2>3 DEF PhotoCommit, EditorLeaves
    <3>2. ASSUME ~urlGiven, NEW g \in Editors \ {h}, editor[g].step = "upload"
          PROVE  editor[g].new # editor[h].new
      BY <1>1, <2>1, <3>2 DEF UploadsApart
    <3> QED BY <1>8, <2>1, <2>3, <3>1, <3>2, EditorEnds
  <2> QED BY <2>2, <2>3
<1>10. ASSUME NEW h \in Editors, ProfilePhotoCommit(h)
       PROVE  ContentInv'
  <2>1. /\ editor[h].step = "upload" /\ memberKind = "participant"
        /\ editor' = [editor EXCEPT ![h] = Off]
        /\ member' = [member EXCEPT !.photo = editor[h].new]
        /\ memberKind' = memberKind /\ urlGiven' = urlGiven /\ onDisk' = onDisk
    BY <1>10 DEF ProfilePhotoCommit, EditorLeaves
  <2>2. Present(member)
    BY <1>1, <2>1 DEF ProfileStays
  <2> QED BY <1>8, <2>1, <2>2, UploadEnds
<1>11. ASSUME NEW h \in Editors, DropLook(h)
       PROVE  ContentInv'
  <2> DEFINE s == [step |-> "delete", new |-> Missing, old |-> member.photo]
  <2>1. /\ editor' = [editor EXCEPT ![h] = s] /\ memberKind # "participant" /\ Present(member)
        /\ UNCHANGED <<memberKind, member, onDisk, urlGiven>>
    BY <1>11 DEF DropLook
  <2>2. s \in EditorStates /\ s.step = "delete" /\ s.old = member.photo
    BY <1>2, <2>1 DEF EditorStates, MemberRows
  <2> HIDE DEF s
  <2> QED BY <2>1, <2>2, EditorEnds
<1>12. ASSUME NEW h \in Editors, DropCommit(h)
       PROVE  ContentInv'
  <2>1. PICK s \in {Off, [editor[h] EXCEPT !.step = "clean"]} : editor' = [editor EXCEPT ![h] = s]
    BY <1>12 DEF DropCommit
  <2>2. /\ editor[h].step = "delete" /\ member' = Missing
        /\ UNCHANGED <<memberKind, onDisk, urlGiven>>
    BY <1>12 DEF DropCommit
  <2>3. memberKind # "participant"
    BY <1>1, <2>2 DEF ProfileStays
  <2>4. /\ s \in EditorStates /\ s.step \in {"off", "clean"}
        /\ s.step # "off" => s.old = editor[h].old
    BY <1>8, <2>1, <2>2 DEF EditorStates, Off
  <2> QED BY <2>1, <2>2, <2>3, <2>4, EditorEnds
<1>13. ASSUME NEW h \in Editors, Clean(h)
       PROVE  ContentInv'
  <2>1. /\ editor[h].step = "clean" /\ onDisk' = onDisk \ ({editor[h].old} \ {editor[h].new})
        /\ editor' = [editor EXCEPT ![h] = Off]
        /\ UNCHANGED <<memberKind, member, urlGiven>>
    BY <1>13 DEF Clean, EditorLeaves
  <2>2. Missing \notin onDisk
    BY <1>1, MissingIsNone DEF ContentTypes
  <2>3. ASSUME ~urlGiven, NEW f \in onDisk \ onDisk'
        PROVE  /\ Present(member) => member.photo # f
               /\ \A g \in Editors \ {h} : editor[g].step = "upload" => editor[g].new # f
    <3>1. f = editor[h].old /\ f # Missing
      BY <2>1, <2>2, <2>3
    <3> QED BY <1>1, <2>1, <2>3, <3>1 DEF UploadsApart
  <2> QED BY <1>8, <2>1, <2>3, EditorEnds
<1>14. ASSUME NEW h \in Editors, LoseEditor(h)
       PROVE  ContentInv'
  BY <1>8, <1>14, EditorEnds DEF LoseEditor, EditorLeaves
<1>15. ASSUME NEW h \in Editors, NEW f \in Photos, PhotoLook(h, f)
       PROVE  ContentInv'
  BY <1>15, PhotoLookKeeps
<1>16. ASSUME NEW l \in Languages, DeleteTranslation(l) \/ \E fields \in Translated : PutTranslation(l, fields)
       PROVE  ContentInv'
  BY <1>3, <1>16 DEF DeleteTranslation, PutTranslation
<1>17. CASE UNCHANGED contentVars
  BY <1>3, <1>17 DEF contentVars
<1> QED BY <1>4, <1>5, <1>6, <1>7, <1>9, <1>10, <1>11, <1>12, <1>13, <1>14, <1>15, <1>16, <1>17
        DEF ContentNext

(* Uploads and deletions of a photo stay apart, and its file is there.     *)
THEOREM ContentInvariant == ContentSpec => []ContentInv
<1> QED BY ContentInitInv, ContentNextInv, PTL DEF ContentSpec

(* What readers are shown is found, and the photo is on disk.              *)
THEOREM ContentServed == ContentSpec => []ContentIsServed
<1>1. ContentInv => ContentIsServed
  <2> SUFFICES ASSUME ContentInv, Present(member)
               PROVE  ContentIsServed
    BY DEF ContentIsServed
  <2>1. ASSUME NEW l \in Languages, NEW field \in Searched
        PROVE  Search(TextShown(l, field))
    <3>1. CASE ChosenLocale(l) # "source" /\ field \in DOMAIN translation[ChosenLocale(l)]
      <4>1. ChosenLocale(l) \in Languages /\ Present(translation[ChosenLocale(l)])
        BY <3>1 DEF ChosenLocale, Languages
      <4>2. TextShown(l, field) = translation[ChosenLocale(l)][field]
        BY <3>1 DEF TextShown
      <4> HIDE DEF Present
      <4> QED BY <3>1, <4>1, <4>2 DEF Search
    <3>2. CASE ~(ChosenLocale(l) # "source" /\ field \in DOMAIN translation[ChosenLocale(l)])
      <4>1. TextShown(l, field) = member[field]
        BY <3>2 DEF TextShown
      <4> QED BY <4>1 DEF Search
    <3> QED BY <3>1, <3>2
  <2>2. ~urlGiven => member.photo \in onDisk \cup {Missing}
    BY DEF ContentInv, PhotoServed
  <2> QED BY <2>1, <2>2 DEF ContentIsServed
<1> QED BY ContentInvariant, <1>1, PTL
=============================================================================
