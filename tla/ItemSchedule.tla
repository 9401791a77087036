----------------------------- MODULE ItemSchedule -----------------------------
(***************************************************************************)
(* What the calendar of items promises, without transactions and locks:    *)
(* every claim asks for a slot, days of one item, and at any moment the    *)
(* days of an item belong to one accepted claim, or to the owner, or to    *)
(* nobody.  One claim is accepted at a time, and only for free days.       *)
(***************************************************************************)
EXTENDS Integers

CONSTANTS
  Claims,   \* what may reserve days
  Slots,    \* the item and the days of each claim
  Periods   \* days an owner may keep

VARIABLES
  reserved, \* accepted claims that have not ended
  closed    \* periods the owner keeps

schedule == <<reserved, closed>>

Clash(p, q) == p.item = q.item /\ p.first <= q.last /\ q.first <= p.last

ScheduleInit == reserved = {} /\ closed = {}

Accept(c) ==
  /\ c \notin reserved
  /\ \A d \in reserved : ~Clash(Slots[c], Slots[d])
  /\ \A p \in closed : ~Clash(Slots[c], p)
  /\ reserved' = reserved \cup {c}
  /\ UNCHANGED closed

Release(c) ==
  /\ c \in reserved
  /\ reserved' = reserved \ {c}
  /\ UNCHANGED closed

Close(p) ==
  /\ \A c \in reserved : ~Clash(Slots[c], p)
  /\ \A q \in closed : ~Clash(p, q)
  /\ closed' = closed \cup {p}
  /\ UNCHANGED reserved

Open(p) ==
  /\ p \in closed
  /\ closed' = closed \ {p}
  /\ UNCHANGED reserved

ScheduleNext ==
  \/ \E c \in Claims : Accept(c) \/ Release(c)
  \/ \E p \in Periods : Close(p) \/ Open(p)

ScheduleSpec == ScheduleInit /\ [][ScheduleNext]_schedule
=============================================================================
