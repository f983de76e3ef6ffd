SPECIFICATION MeetingSpec
CONSTANTS
  m1 = m1
  m2 = m2
  m3 = m3
  pa = pa
  pb = pb
  pc = pc
  None = None
  Meetings = {m1, m2}
  Recommended = {m2}
  Requester <- MCRequester
  Recipient <- MCRecipient
  Setups <- MCSetups
  Slots = {s1, s2}
  Resources = {r1, r2}
  Requests = {q1}
SYMMETRY MCSymmetry
INVARIANT NoDoubleBooking
CHECK_DEADLOCK FALSE
