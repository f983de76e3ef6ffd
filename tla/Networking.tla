------------------------------ MODULE Networking ------------------------------
(***************************************************************************)
(* Who finds whom in the business matching of one event: the profiles, the *)
(* blocks, and the notification center (business_matching/service.py,      *)
(* business_matching/repository.py, the profile routes of iwbif/routes.py).*)
(*                                                                         *)
(* A profile is one row with two writers: a PUT finds it by participant    *)
(* and writes all its terms, the registration's form finds it by           *)
(* registration and opens it.  A request looks, and commits later; only    *)
(* the columns that differ from what it has read are written.  Terms are   *)
(* what discovery and messages ask of a profile; its texts, company and    *)
(* slots are left out.                                                     *)
(***************************************************************************)
EXTENDS Naturals

CONSTANTS People,           \* participants of the event
          TermSets,         \* terms that participants enter in a PUT
          NetRequests,      \* requests under way
          LastRegistration, \* bound on the registrations of a participant
          Organizer         \* an account that is told of every message

\* ProfileWrite
Terms == [open : BOOLEAN, shown : BOOLEAN, writable : BOOLEAN]

ASSUME TermSetsAreTerms == TermSets \subseteq Terms

VARIABLES seat,     \* the participant's current registration, and is it confirmed
          profile,  \* business_matching_profiles
          blocks,   \* participant_blocks, as pairs <<blocker, blocked>>
          unread,   \* notifications not read: whose, and from whom
          net,      \* requests: their step and what they have read
          said,     \* the terms each participant saved last
          asked,    \* blocks answered with success and not taken back
          void,     \* those of them that found the other's block and left no row
          crossed   \* participants with two saves under way at once
netVars == <<seat, profile, blocks, unread, net, said, asked, void, crossed>>

NoProfile == [exists |-> FALSE, reg |-> 0, open |-> FALSE, shown |-> FALSE, writable |-> FALSE]
HasProfile(p) == profile[p].exists
AtRest == [step |-> "rests"]
NetEnds(h) == net' = [net EXCEPT ![h] = AtRest]
Saving(p) == {h \in NetRequests : net[h].step \in {"put", "form", "erase"} /\ net[h].p = p}

StartSave(h, p, state) ==
  /\ net[h] = AtRest
  /\ seat[p].confirmed
  /\ net' = [net EXCEPT ![h] = state]
  /\ crossed' = IF Saving(p) # {} THEN crossed \cup {p} ELSE crossed
  /\ UNCHANGED <<seat, profile, blocks, unread, said, asked, void>>

-----------------------------------------------------------------------------
(***************************************************************************)
(* Profiles                                                                *)
(***************************************************************************)
PutLook(h, p, terms) ==
  StartSave(h, p, [step |-> "put", p |-> p, row |-> profile[p], terms |-> terms])

\* The form of the current registration; another registration's row is not found.
FormLook(h, p) ==
  StartSave(h, p, [step |-> "form", p |-> p, n |-> seat[p].n,
                   row |-> IF profile[p].reg = seat[p].n THEN profile[p] ELSE NoProfile])

EraseLook(h, p) ==
  /\ profile[p].reg = seat[p].n
  /\ StartSave(h, p, [step |-> "erase", p |-> p, row |-> profile[p]])

\* A second row of the participant is refused; so is an update of a row that is gone.
InsertOrUpdate(h) ==
  LET p == net[h].p
  IN net[h].row = NoProfile <=> ~HasProfile(p)

Differing(now, seen, want) == IF want = seen THEN now ELSE want
Overwritten(row, seen, want) ==
  [row EXCEPT !.open = Differing(row.open, seen.open, want.open),
              !.shown = Differing(row.shown, seen.shown, want.shown),
              !.writable = Differing(row.writable, seen.writable, want.writable)]

PutCommit(h) ==
  /\ net[h].step = "put" /\ InsertOrUpdate(h)
  /\ LET p == net[h].p
         seen == net[h].row
         want == net[h].terms
         new == [exists |-> TRUE, reg |-> 0, open |-> want.open, shown |-> want.shown,
                 writable |-> want.writable]
     IN /\ profile' = [profile EXCEPT ![p] =
             IF seen = NoProfile THEN new
             ELSE Overwritten(@, seen, want)]
        /\ said' = [said EXCEPT ![p] = want]
  /\ NetEnds(h)
  /\ UNCHANGED <<seat, blocks, unread, asked, void, crossed>>

\* The form opens the profile; the other terms stay, at first they are open too.
FormCommit(h) ==
  /\ net[h].step = "form" /\ InsertOrUpdate(h)
  /\ LET p == net[h].p
         seen == net[h].row
     IN IF seen = NoProfile
        THEN /\ profile' = [profile EXCEPT ![p] =
                  [exists |-> TRUE, reg |-> net[h].n, open |-> TRUE, shown |-> TRUE, writable |-> TRUE]]
             /\ said' = [said EXCEPT ![p] = [open |-> TRUE, shown |-> TRUE, writable |-> TRUE]]
        ELSE /\ profile' = [profile EXCEPT ![p].open = Differing(@, seen.open, TRUE)]
             /\ said' = [said EXCEPT ![p].open = TRUE]
  /\ NetEnds(h)
  /\ UNCHANGED <<seat, blocks, unread, asked, void, crossed>>

\* Whoever has read the row can no longer write it.
EraseCommit(h) ==
  /\ net[h].step = "erase"
  /\ LET p == net[h].p
     IN /\ profile' = [profile EXCEPT ![p] = NoProfile]
        /\ said' = [said EXCEPT ![p] = [open |-> FALSE, shown |-> FALSE, writable |-> FALSE]]
        /\ net' = [g \in NetRequests |->
                     IF g = h \/ (g \in Saving(p) /\ net[g].row # NoProfile) THEN AtRest ELSE net[g]]
  /\ UNCHANGED <<seat, blocks, unread, asked, void, crossed>>

-----------------------------------------------------------------------------
(***************************************************************************)
(* Blocks                                                                  *)
(***************************************************************************)
BlockedPair(a, b) == <<a, b>> \in blocks \/ <<b, a>> \in blocks

\* A pair that is blocked already is answered without a new row.
BlockLook(h, a, b) ==
  /\ a # b /\ seat[a].confirmed /\ seat[b].confirmed
  /\ net[h] = AtRest
  /\ IF BlockedPair(a, b)
     THEN /\ asked' = asked \cup {<<a, b>>}
          /\ void' = void \cup ({<<a, b>>} \ blocks)
          /\ net' = net
     ELSE /\ net' = [net EXCEPT ![h] = [step |-> "block", pair |-> <<a, b>>]]
          /\ UNCHANGED <<asked, void>>
  /\ UNCHANGED <<seat, profile, blocks, unread, said, crossed>>

BlockCommit(h) ==
  /\ net[h].step = "block"
  /\ net[h].pair \notin blocks
  /\ blocks' = blocks \cup {net[h].pair}
  /\ asked' = asked \cup {net[h].pair}
  /\ void' = void \ {net[h].pair}
  /\ NetEnds(h)
  /\ UNCHANGED <<seat, profile, unread, said, crossed>>

TakeBack(a, b) ==
  /\ seat[a].confirmed
  /\ <<a, b>> \in blocks
  /\ blocks' = blocks \ {<<a, b>>}
  /\ asked' = asked \ {<<a, b>>}
  /\ UNCHANGED <<seat, profile, unread, net, said, void, crossed>>

-----------------------------------------------------------------------------
(***************************************************************************)
(* Discovery, the first message, and what it leaves in the inboxes         *)
(***************************************************************************)
\* A slip: only the reader's own blocks hide.
HiddenFromReader(a, b) == <<a, b>> \in blocks

HiddenFrom(a, b) == <<a, b>> \in blocks \/ <<b, a>> \in blocks

Finds(a, b) ==
  /\ a # b
  /\ seat[a].confirmed /\ profile[a].open
  /\ seat[b].confirmed /\ profile[b].open /\ profile[b].shown
  /\ ~HiddenFrom(a, b)

\* create_conversation does not ask whether b is shown.
MayWrite(a, b) ==
  /\ a # b
  /\ seat[a].confirmed /\ profile[a].writable
  /\ seat[b].confirmed /\ profile[b].open /\ profile[b].writable
  /\ ~BlockedPair(a, b)

\* The recipient and the administrators.
Recipients(b) == {b, Organizer}

\* Each of them is told once.
Notified(users, a) == {<<u, a>> : u \in users}

Write(a, b) ==
  /\ MayWrite(a, b)
  /\ unread' = unread \cup Notified(Recipients(b), a)
  /\ UNCHANGED <<seat, profile, blocks, net, said, asked, void, crossed>>

\* Another account's notification is left alone.
NotificationRead(u, a) ==
  /\ <<u, a>> \in unread
  /\ unread' = unread \ {<<u, a>>}
  /\ UNCHANGED <<seat, profile, blocks, net, said, asked, void, crossed>>

ReadAll(u) ==
  /\ unread' = {n \in unread : n[1] # u}
  /\ unread' # unread
  /\ UNCHANGED <<seat, profile, blocks, net, said, asked, void, crossed>>

-----------------------------------------------------------------------------
(***************************************************************************)
(* The registration, of which Drafts says more                             *)
(***************************************************************************)
SeatConfirmed(p) ==
  /\ ~seat[p].confirmed
  /\ seat' = [seat EXCEPT ![p].confirmed = TRUE]
  /\ UNCHANGED <<profile, blocks, unread, net, said, asked, void, crossed>>

\* A cancellation that was under way is written over the confirmation, and the
\* participant registers again; the profile stays.
RegistersAgain(p) ==
  /\ seat[p].confirmed
  /\ seat[p].n < LastRegistration
  /\ seat' = [seat EXCEPT ![p] = [n |-> @.n + 1, confirmed |-> FALSE]]
  /\ UNCHANGED <<profile, blocks, unread, net, said, asked, void, crossed>>

\* Refused, or lost with the server.
LeaveNet(h) ==
  /\ net[h] # AtRest
  /\ NetEnds(h)
  /\ UNCHANGED <<seat, profile, blocks, unread, said, asked, void, crossed>>

-----------------------------------------------------------------------------
NetInit ==
  /\ seat = [p \in People |-> [n |-> 1, confirmed |-> FALSE]]
  /\ profile = [p \in People |-> NoProfile]
  /\ blocks = {} /\ unread = {}
  /\ net = [h \in NetRequests |-> AtRest]
  /\ said = [p \in People |-> [open |-> FALSE, shown |-> FALSE, writable |-> FALSE]]
  /\ asked = {} /\ void = {} /\ crossed = {}

NetNext ==
  \/ \E h \in NetRequests :
       \/ \E p \in People :
            \/ \E terms \in TermSets : PutLook(h, p, terms)
            \/ FormLook(h, p) \/ EraseLook(h, p)
       \/ PutCommit(h) \/ FormCommit(h) \/ EraseCommit(h)
       \/ \E a, b \in People : BlockLook(h, a, b)
       \/ BlockCommit(h)
       \/ LeaveNet(h)
  \/ \E a, b \in People : TakeBack(a, b) \/ Write(a, b)
  \/ \E u \in People \cup {Organizer} : ReadAll(u) \/ \E a \in People : NotificationRead(u, a)
  \/ \E p \in People : SeatConfirmed(p) \/ RegistersAgain(p)

NetSpec == NetInit /\ [][NetNext]_netVars

-----------------------------------------------------------------------------
(***************************************************************************)
(* Claims                                                                  *)
(***************************************************************************)
\* Whoever is found, or is written to, has last said so, if no two of their
\* saves crossed; and once a block is answered with success neither finds nor
\* writes to the other until it is taken back, whoever else blocks or unblocks,
\* except for a block that was asked for while the other's stood.
FoundOnOwnTerms ==
  \A a, b \in People :
    /\ Finds(a, b) /\ b \notin crossed => said[b].open /\ said[b].shown
    /\ MayWrite(a, b) /\ b \notin crossed => said[b].writable
    /\ <<a, b>> \in asked \ void =>
         ~Finds(a, b) /\ ~Finds(b, a) /\ ~MayWrite(a, b) /\ ~MayWrite(b, a)
=============================================================================
