----------------------------- MODULE MCPeople -------------------------------
(***************************************************************************)
(* What the people of an event do with one another: registering, being     *)
(* found, meeting, talking and being shown, side by side.  They share no   *)
(* rows, so that their interleavings add nothing: each behaviour follows   *)
(* one of them, chosen at the start, while the others rest in an initial   *)
(* state.                                                                  *)
(***************************************************************************)
EXTENDS Meetings, Conversations, Networking, Drafts, Content, TLC

CONSTANTS m1, m2, m3, pa, pb, pc

VARIABLE service   \* the one this behaviour is about

Services == {"meetings", "chat", "network", "drafts", "content"}

StandStill(S) ==
  /\ UNCHANGED service
  /\ "meetings" \in S => UNCHANGED meetingVars
  /\ "chat"     \in S => UNCHANGED chatVars
  /\ "network"  \in S => UNCHANGED netVars
  /\ "drafts"   \in S => UNCHANGED draftVars
  /\ "content"  \in S => UNCHANGED contentVars

PeopleInit ==
  /\ service \in Services
  /\ MeetingInit
  /\ ChatInit
  /\ NetInit
  /\ DraftInit
  /\ ContentInit
  /\ service # "drafts"  => listed = Categories
  /\ service # "content" => memberKind = "speaker" /\ member.role_title = CHOOSE x \in Texts : TRUE

Follow(s, step) == service = s /\ step /\ StandStill(Services \ {s})

PeopleNext ==
  \/ Follow("meetings", MeetingNext)
  \/ Follow("chat", ChatNext)
  \/ Follow("network", NetNext)
  \/ Follow("drafts", DraftNext)
  \/ Follow("content", ContentNext)

PeopleSpec ==
  PeopleInit /\ [][PeopleNext]_<<service, meetingVars, chatVars, netVars, draftVars, contentVars>>

-----------------------------------------------------------------------------
(* Three meetings among three participants, each two of which share one.   *)
MCRequester == (m1 :> pa) @@ (m2 :> pa) @@ (m3 :> pb)
MCRecipient == (m1 :> pb) @@ (m2 :> pc) @@ (m3 :> pc)

(* Everything on, or nothing but the participants' own requests. *)
MCSetups == {Unset, [assisted |-> FALSE, auto |-> FALSE, override |-> FALSE]}

(* A profile is not shown to others, not writable, or closed.              *)
MCTermSets ==
  {[open |-> TRUE, shown |-> FALSE, writable |-> TRUE],
   [open |-> TRUE, shown |-> TRUE, writable |-> FALSE],
   [open |-> FALSE, shown |-> TRUE, writable |-> TRUE]}

\* Notifications are no input to a request; they are read while none is under way.
NoticesAlone == unread # {} => blocks = {} /\ \A h \in NetRequests : net[h] = AtRest

\* No form is patched once there are papers or a booth: they are other rows.
FormsOrPapers == Patching # {} => paperFiles = {} /\ boothForm = "none"

\* A member has translations or photos: they are other fields.
TextsOrPhotos == onDisk # {} => \A l \in Languages : ~Present(translation[l])

\* Once saves have crossed, which is recorded for the claims, no more are started.
SavesStopAfterCrossing ==
  crossed # {} => \A h \in NetRequests : net[h] = AtRest => net'[h] = AtRest

\* The services use the same identifiers, so that the permutations stay few.
MCSymmetry ==
  Permutations(Slots) \cup Permutations(Resources) \cup Permutations(ChatRequests)
=============================================================================
