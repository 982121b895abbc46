SPECIFICATION NamespacesSpec
INVARIANTS PartsTypeOK RoutingSound MembershipSound
\* the bounds of each part are used up in the end
CHECK_DEADLOCK FALSE
