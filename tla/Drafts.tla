------------------------------- MODULE Drafts -------------------------------
(***************************************************************************)
(* A delegate registration's form and papers, and the exhibitor booth of   *)
(* the same person (iwbif/service.py, iwbif/routes.py).                    *)
(*                                                                         *)
(* The form repeats its participation categories: as a column of the       *)
(* detail row and as rows of their own.  A request reads the registration  *)
(* without a lock, decides, and commits later; its first write locks.  A   *)
(* document is a row and a file, which no transaction joins.  The other    *)
(* fields, among them the activities, which are kept like the categories   *)
(* but never empty under another request's deletion, are one "other" that  *)
(* a request changes or not.                                               *)
(***************************************************************************)
EXTENDS Naturals, FiniteSets

CONSTANTS Categories,    \* participation categories
          Documents,     \* a document's row and its file
          DraftRequests  \* requests of the registration's owner

VARIABLES status,    \* registrations.status
          confirmed, \* registrations.confirmed_at is set
          settled,   \* the registration has a paid order
          listed,    \* delegate_registration_details.participation_categories
          links,     \* registration_participation_categories
          sent,      \* what was listed when the registration was submitted
          papers,    \* registration_documents: whose, or "none"
          paperFiles, \* files under .private_uploads
          boothForm, \* exhibitor_registrations.status, or "none"
          form,      \* requests: their step and what they have read
          mixed      \* kinds of requests that were under way together
draftVars == <<status, confirmed, settled, listed, links, sent, papers, paperFiles, boothForm, form, mixed>>

registrationVars == <<status, confirmed, settled, listed, links, sent, mixed>>
paperVars == <<papers, paperFiles, boothForm>>

NoForm == [step |-> "none"]
FormEnds(h) == form' = [form EXCEPT ![h] = NoForm]
Goes(h, step) == form' = [form EXCEPT ![h].step = step]

Patching == {h \in DraftRequests : form[h].step \in {"patch", "written", "waiting", "missed", "dropped"}}
Deciding == Patching \cup {h \in DraftRequests : form[h].step \in {"submit", "cancel"}}

\* A patch writes the detail row when a field differs from what it has read.
Changes(h) == form[h].want # form[h].read \/ form[h].other
Leaves(state) == state.want = state.read

\* Someone else's step on the registration, while requests are under way.
Meets(h) == mixed' = mixed \cup (IF Deciding \ {h} # {} THEN {"any"} ELSE {})

-----------------------------------------------------------------------------
(***************************************************************************)
(* PATCH of the form: look; write the detail row, which stays locked;      *)
(* delete the category rows, waiting for another's deletion; commit.       *)
(***************************************************************************)
PatchLook(h, want, other) ==
  LET state == [step |-> "patch", read |-> listed, want |-> want, other |-> other, gone |-> {}]
  IN /\ form[h] = NoForm
     /\ status = "draft"
     /\ form' = [form EXCEPT ![h] = state]
     /\ mixed' = mixed \cup (IF Deciding # {} THEN {"any"} ELSE {})
                       \cup (IF \E g \in Patching : Leaves(form[g]) \/ Leaves(state)
                             THEN {"left as read"} ELSE {})
     /\ UNCHANGED <<status, confirmed, settled, listed, links, sent, paperVars>>

\* A slip: the detail row is written with the rest, at the commit.
WrittenLate(h) == TRUE

\* No other request has the detail row locked.
Writable(h) ==
  \A g \in Patching \ {h} : Changes(g) => form[g].step = "patch"

PatchUpdate(h) ==
  /\ form[h].step = "patch"
  /\ Changes(h) => Writable(h)
  /\ Goes(h, "written")
  /\ UNCHANGED <<registrationVars, paperVars>>

\* The deletion waits when its rows are deleted by another.
PatchDrop(h) ==
  /\ form[h].step = "written"
  /\ form' = [form EXCEPT ![h].step = IF \E g \in Patching : form[g].step = "dropped"
                                      THEN "waiting" ELSE "dropped",
                          ![h].gone = IF \E g \in Patching : form[g].step = "dropped"
                                      THEN {} ELSE links]
  /\ UNCHANGED <<registrationVars, paperVars>>

\* The new rows join those the deletion did not see; one that is there already
\* is refused.
PatchCommit(h) ==
  /\ form[h].step \in {"dropped", "missed"}
  /\ (links \ form[h].gone) \cap form[h].want = {}
  /\ links' = (links \ form[h].gone) \cup form[h].want
  /\ listed' = IF Leaves(form[h]) THEN listed ELSE form[h].want
  /\ form' = [g \in DraftRequests |->
                IF g = h THEN NoForm
                \* its rows are gone, and the new ones are not seen
                ELSE IF form[g].step = "waiting" THEN [form[g] EXCEPT !.step = "missed"]
                ELSE form[g]]
  /\ Meets(h)
  /\ UNCHANGED <<status, confirmed, settled, sent, paperVars>>

-----------------------------------------------------------------------------
(***************************************************************************)
(* The registration's status                                               *)
(***************************************************************************)
SubmitLook(h) ==
  /\ form[h] = NoForm
  /\ status = "draft"
  /\ form' = [form EXCEPT ![h] = [step |-> "submit"]]
  /\ mixed' = mixed \cup (IF Deciding # {} THEN {"any"} ELSE {})
  /\ UNCHANGED <<status, confirmed, settled, listed, links, sent, paperVars>>

SubmitCommit(h) ==
  /\ form[h].step = "submit"
  /\ status' = "submitted"
  /\ sent' = listed
  /\ FormEnds(h)
  /\ Meets(h)
  /\ UNCHANGED <<confirmed, settled, listed, links, paperVars>>

WithdrawLook(h) ==
  /\ form[h] = NoForm
  /\ status # "confirmed"
  /\ form' = [form EXCEPT ![h] = [step |-> "cancel"]]
  /\ mixed' = mixed \cup (IF Deciding # {} THEN {"any"} ELSE {})
  /\ UNCHANGED <<status, confirmed, settled, listed, links, sent, paperVars>>

WithdrawCommit(h) ==
  /\ form[h].step = "cancel"
  /\ status' = "cancelled"
  /\ FormEnds(h)
  /\ Meets(h)
  /\ UNCHANGED <<confirmed, settled, listed, links, sent, paperVars>>

Allowed == [verified  |-> {"submitted"},
            confirmed |-> {"verified", "paid"},
            rejected  |-> {"submitted", "verified"}]

\* The administrator's commands lock the registration before they read it.
AdminCommand(to) ==
  /\ status \in Allowed[to]
  /\ to = "confirmed" => settled
  /\ status' = to
  /\ confirmed' = (confirmed \/ to = "confirmed")
  /\ mixed' = mixed \cup (IF Deciding # {} THEN {"any"} ELSE {})
  /\ UNCHANGED <<settled, listed, links, sent, form, paperVars>>

\* Money moves on the order: the registration follows, unless confirmed.
MoneyMoves(paid) ==
  /\ settled' = paid
  /\ status' = IF status = "confirmed" THEN status
               ELSE IF paid THEN "paid" ELSE "payment_pending"
  /\ mixed' = mixed \cup (IF Deciding # {} THEN {"any"} ELSE {})
  /\ UNCHANGED <<confirmed, listed, links, sent, form, paperVars>>

-----------------------------------------------------------------------------
(***************************************************************************)
(* Papers                                                                  *)
(***************************************************************************)
FreshPaper(d) ==
  /\ papers[d] = "none" /\ d \notin paperFiles
  /\ \A h \in DraftRequests : form[h].step \in {"upload", "catalogue", "remove", "unlink"} => form[h].d # d

PaperStep(h, step, d) == form' = [form EXCEPT ![h] = [step |-> step, d |-> d]]

\* A paper of a draft, or the booth's catalogue in any state: the file is written first.
PaperUpload(h, d) ==
  /\ form[h] = NoForm
  /\ FreshPaper(d)
  /\ \/ status = "draft" /\ PaperStep(h, "upload", d)
     \/ boothForm # "none" /\ PaperStep(h, "catalogue", d)
  /\ paperFiles' = paperFiles \cup {d}
  /\ UNCHANGED <<registrationVars, papers, boothForm>>

PaperCommit(h) ==
  /\ form[h].step = "upload"
  /\ papers' = [papers EXCEPT ![form[h].d] = "registration"]
  /\ FormEnds(h)
  /\ UNCHANGED <<registrationVars, paperFiles, boothForm>>

\* The catalogue submits the booth.
CatalogueCommit(h) ==
  /\ form[h].step = "catalogue"
  /\ papers' = [papers EXCEPT ![form[h].d] = "booth"]
  /\ boothForm' = "submitted"
  /\ FormEnds(h)
  /\ UNCHANGED <<registrationVars, paperFiles>>

\* A slip: the file goes before the row is committed.
FileGoesFirst(d) == paperFiles \ {d}

\* The files while the deletion of d is not committed.
FilesMeanwhile(d) == paperFiles

PaperRemoveLook(h, d) ==
  /\ form[h] = NoForm
  /\ status = "draft"
  /\ papers[d] = "registration"
  /\ PaperStep(h, "remove", d)
  /\ paperFiles' = FilesMeanwhile(d)
  /\ UNCHANGED <<registrationVars, papers, boothForm>>

PaperRemoveCommit(h) ==
  /\ form[h].step = "remove"
  /\ papers' = [papers EXCEPT ![form[h].d] = "none"]
  /\ Goes(h, "unlink")
  /\ UNCHANGED <<registrationVars, paperFiles, boothForm>>

PaperUnlink(h) ==
  /\ form[h].step = "unlink"
  /\ paperFiles' = paperFiles \ {form[h].d}
  /\ FormEnds(h)
  /\ UNCHANGED <<registrationVars, papers, boothForm>>

CreateBooth ==
  /\ boothForm = "none"
  /\ boothForm' = "draft"
  /\ UNCHANGED <<registrationVars, papers, paperFiles, form>>

\* The rows of its papers go with it; a catalogue still under way is refused.
DeleteBooth ==
  /\ boothForm = "draft"
  /\ boothForm' = "none"
  /\ papers' = [d \in Documents |-> IF papers[d] = "booth" THEN "none" ELSE papers[d]]
  /\ form' = [h \in DraftRequests |-> IF form[h].step = "catalogue" THEN NoForm ELSE form[h]]
  /\ UNCHANGED <<registrationVars, paperFiles>>

\* Refused, or lost with the server: what is committed stays, and so do files.
LeaveForm(h) ==
  /\ form[h] # NoForm
  /\ form' = [g \in DraftRequests |->
                IF g = h THEN NoForm
                ELSE IF form[h].step = "dropped" /\ form[g].step = "waiting"
                     THEN [form[g] EXCEPT !.step = "written"]
                ELSE form[g]]
  /\ UNCHANGED <<registrationVars, paperVars>>

-----------------------------------------------------------------------------
DraftInit ==
  /\ status = "draft" /\ confirmed = FALSE /\ settled = FALSE
  /\ listed \in SUBSET Categories \ {{}}
  /\ links = listed
  /\ sent = {}
  /\ papers = [d \in Documents |-> "none"]
  /\ paperFiles = {}
  /\ boothForm = "none"
  /\ form = [h \in DraftRequests |-> NoForm]
  /\ mixed = {}

DraftNext ==
  \/ \E h \in DraftRequests :
       \/ \E want \in SUBSET Categories \ {{}}, other \in BOOLEAN : PatchLook(h, want, other)
       \/ PatchUpdate(h) \/ PatchDrop(h) \/ PatchCommit(h)
       \/ SubmitLook(h) \/ SubmitCommit(h) \/ WithdrawLook(h) \/ WithdrawCommit(h)
       \/ \E d \in Documents : PaperUpload(h, d) \/ PaperRemoveLook(h, d)
       \/ PaperCommit(h) \/ CatalogueCommit(h) \/ PaperRemoveCommit(h) \/ PaperUnlink(h)
       \/ LeaveForm(h)
  \/ \E to \in DOMAIN Allowed : AdminCommand(to)
  \/ \E paid \in BOOLEAN : MoneyMoves(paid)
  \/ CreateBooth
  \/ DeleteBooth

DraftSpec == DraftInit /\ [][DraftNext]_draftVars

-----------------------------------------------------------------------------
(***************************************************************************)
(* Claims                                                                  *)
(***************************************************************************)
\* The column and the rows of the categories disagree only after a patch that
\* left them as it read them was under way with another patch: two that change
\* them wait for each other.  A submitted form stays as it was submitted, and a
\* confirmed registration confirmed, unless requests met.
LinksNeedOverlap ==
  /\ "left as read" \notin mixed => links = listed
  /\ "any" \notin mixed => /\ sent # {} => listed = sent
                           /\ confirmed => status = "confirmed"

\* Whatever step a request is lost at, a document's row has its file, and a
\* submitted booth a catalogue.
RowHasFile ==
  /\ \A d \in Documents : papers[d] # "none" => d \in paperFiles
  /\ boothForm = "submitted" => \E d \in Documents : papers[d] = "booth"
=============================================================================
