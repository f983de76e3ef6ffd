SPECIFICATION PeopleSpec
CONSTANTS
  m1 = m1
  m2 = m2
  m3 = m3
  pa = pa
  pb = pb
  pc = pc
  None = None
  Nobody = Nobody
  Meetings = {m1, m2, m3}
  Recommended = {m2}
  Requester <- MCRequester
  Recipient <- MCRecipient
  Setups <- MCSetups
  Slots = {x1, x2}
  Resources = {z1, z2}
  Requests = {q1}
  Participants = {pa, pb}
  Readers = {pa}
  Conversations = {x1, x2}
  Messages = {e1}
  Sockets = {w1}
  ChatRequests = {k1, k2}
  People = {x1, x2}
  TermSets <- MCTermSets
  NetRequests = {k1, k2}
  LastRegistration = 2
  Organizer = Organizer
  Categories = {x1, x2}
  Documents = {e1}
  DraftRequests = {k1, k2}
  Texts = {pa, pb}
  Photos = {z1, z2, e1}
  Editors = {k1, k2}
  Missing = Missing
SYMMETRY MCSymmetry
CONSTRAINTS NoticesAlone FormsOrPapers TextsOrPhotos
ACTION_CONSTRAINT SavesStopAfterCrossing
INVARIANTS
  ConfirmedIsPlaced ConsentBeforeMeeting
  ViewIsComplete
  LinksNeedOverlap RowHasFile
  FoundOnOwnTerms
  
PROPERTIES
  FreshConfirmIsFree
  DeletedStaysDeleted
CHECK_DEADLOCK FALSE
