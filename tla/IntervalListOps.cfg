CONSTANTS
  MaxValue = 99
  Bound = 7
SPECIFICATION Spec
INVARIANTS TypeOK MembershipAgrees IntervalsSeparate VirtualVectorAgrees MembersReadded
