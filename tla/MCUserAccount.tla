--------------------------- MODULE MCUserAccount ---------------------------
(* Instances of UserAccount for TLC. *)
EXTENDS UserAccount, TLC

CONSTANT Parts \* which of the two parts a run checks: TRUE is the calm one

ASSUME PartsAssumption == Parts \subseteq BOOLEAN

\* All the identities are interchangeable.
Symmetry == Permutations(Requests) \cup Permutations(Users)
                \cup Permutations(Passwords) \cup Permutations(Tokens)

VARIABLE calm

\* Nothing fails.
CalmNext == Expire \/ \E i \in Requests : Arrive(i) \/ RequestStep(i)
Failure == ~ calm /\ \E i \in Requests : Abort(i)

MCInit == Init /\ calm \in Parts
MCNext == (CalmNext \/ Failure) /\ UNCHANGED calm

MCSpec == MCInit /\ [][MCNext]_<<vars, calm>>

\* UserAccount's LastMailWorks and TokenResetsOnce, of the part for which they
\* are stated: forgotPassword and the verification mails leave a mail that
\* works, and resetPassword takes a token once (auth.service.ts).
CalmMailsWorkOnce == calm => LastMailWorks /\ TokenResetsOnce
=============================================================================
