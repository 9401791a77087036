------------------------------ MODULE InboxFeed ------------------------------
(***************************************************************************)
(* What the notification outbox promises to the users: an event that some  *)
(* component has published appears once in the inbox of each of its        *)
(* recipients, in all of them together, and once read it stays read.       *)
(***************************************************************************)
EXTENDS Naturals

CONSTANTS
  Events, Users,
  Addressees     \* the recipients of each event

VARIABLES
  announced,     \* events that were published
  entry          \* the state of an event in a user's inbox

feedVars == <<announced, entry>>

Init ==
  /\ announced = {}
  /\ entry = [k \in Events \X Users |-> "none"]

Announce(e) ==
  /\ e \notin announced
  /\ announced' = announced \cup {e}
  /\ UNCHANGED entry

\* The event reaches all of its recipients in one step, and only once.
Arrive(e) ==
  /\ e \in announced
  /\ \A u \in Addressees[e] : entry[<<e, u>>] = "none"
  /\ entry' = [k \in Events \X Users |->
                 IF k[1] = e /\ k[2] \in Addressees[e] THEN "unread" ELSE entry[k]]
  /\ UNCHANGED announced

\* A user reads some of the entries of his inbox.
Read(u) ==
  \E E \in SUBSET Events :
    /\ \A e \in E : entry[<<e, u>>] # "none"
    /\ entry' = [k \in Events \X Users |->
                   IF k[1] \in E /\ k[2] = u THEN "read" ELSE entry[k]]
    /\ UNCHANGED announced

Next ==
  \/ \E e \in Events : Announce(e) \/ Arrive(e)
  \/ \E u \in Users : Read(u)

Spec == Init /\ [][Next]_feedVars
=============================================================================
