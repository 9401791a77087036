------------------------ MODULE MCNotificationOutbox ------------------------
EXTENDS NotificationOutbox
CONSTANTS alice, bob, none, phone, t1, t2, o1, o2, p1, p2, e1, e2, e3

\* e1 is about a booking of the two, e2 about a support ticket of bob, e3 names its
\* recipient.
MCAddress ==
  [e \in Events |->
     CASE e = e1 -> [recipient |-> none, participants |-> {alice, bob}, author |-> none]
       [] e = e2 -> [recipient |-> none, participants |-> {}, author |-> bob]
       [] e = e3 -> [recipient |-> alice, participants |-> {alice, bob}, author |-> none]]
=============================================================================
