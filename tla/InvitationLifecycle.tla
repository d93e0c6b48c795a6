------------------------- MODULE InvitationLifecycle -------------------------
(***************************************************************************)
(* What invitations promise, in however many calls they are handled: each  *)
(* is issued once, makes a collaborator of its invitee only while it is    *)
(* pending, and when it is closed it is not opened again.                  *)
(*                                                                         *)
(* The enum has PENDING, ACCEPTED, REVOKED and EXPIRED; "none" is before   *)
(* the insert, "joined" between the new membership and the save of         *)
(* ACCEPTED.  revoke tests no status: it closes what is closed as well.    *)
(***************************************************************************)
CONSTANT Ids
VARIABLE phase

Init == phase = [n \in Ids |-> "none"]

Step(n, before, after) ==
    /\ phase[n] \in before
    /\ phase' = [phase EXCEPT ![n] = after]

Issue(n) == Step(n, {"none"}, "PENDING")

\* The invitee becomes a collaborator ...
Join(n) == Step(n, {"PENDING"}, "joined")

\* ... and the invitation is closed, or the request fails and leaves it open.
\* Who was a collaborator before has nothing to join.
Accept(n) == Step(n, {"PENDING", "joined"}, "ACCEPTED")
GiveUp(n) == Step(n, {"joined"}, "PENDING")

Revoke(n) == Step(n, {"PENDING", "ACCEPTED", "EXPIRED"}, "REVOKED")

Expire(n) == Step(n, {"PENDING"}, "EXPIRED")

Next ==
    \E n \in Ids :
        Issue(n) \/ Join(n) \/ Accept(n) \/ GiveUp(n) \/ Revoke(n) \/ Expire(n)

Spec == Init /\ [][Next]_phase
=============================================================================
