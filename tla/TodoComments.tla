---------------------------- MODULE TodoComments ----------------------------
(***************************************************************************)
(* The comments and attachments that one user adds to one todo, and the    *)
(* activities that tell of them (tables todo_comment, todo_attachment and  *)
(* todo_activity, and the use cases on them).                              *)
(*                                                                         *)
(* A comment is named by the request that creates it, an attachment by its *)
(* storage key, of which the table has one row ever.  Saving a comment     *)
(* that was read with its attachments also sets the comment of those that  *)
(* it holds and clears that of the others.  Requests on comments and       *)
(* attachments of other users are refused at once and left out.            *)
(***************************************************************************)
EXTENDS Naturals, FiniteSets

CONSTANTS
    Requests, \* identities of the requests, each used at most once
    Keys,     \* the storage keys that clients upload to
    None,     \* no row, no comment
    Faults    \* whether a call of a request may reject

Ops == {"create", "update", "delete", "complete", "discard"}

VARIABLES
    comments,    \* todo_comment: the row of the comment that i created, or None
    attachments, \* todo_attachment: the row with each storage key, or None
    activities,  \* todo_activity: the requests it tells of
    telling,     \* the requests whose activity is being saved, not awaited
    pc, arg,     \* of request i: its next await, its operation and input
    held,        \* the attachments that it has read
    before       \* the requests that had ended when it started

tables == <<comments, attachments, activities, telling>>
vars == <<tables, pc, arg, held, before>>

Comment == [content : Requests, deleted : BOOLEAN]
Attachment == [of : Requests \cup {None}, deleted : BOOLEAN]
Awaits == {"insert", "find", "attach", "save", "erase", "upload", "drop"}

TypeOK ==
    /\ comments \in [Requests -> Comment \cup {None}]
    /\ attachments \in [Keys -> Attachment \cup {None}]
    /\ activities \subseteq Requests
    /\ telling \subseteq Requests \ activities \* once each
    /\ pc \in [Requests -> Awaits \cup {"new", "done", "failed"}]
    /\ arg \in [Requests -> [op : Ops \cup {"none"}, on : Requests \cup {None},
                             keys : SUBSET Keys]]
    /\ held \in [Requests -> SUBSET Keys]
    /\ before \in [Requests -> SUBSET Requests]
    /\ \A k \in Keys : attachments[k] # None /\ attachments[k].of # None =>
          comments[attachments[k].of] # None

Init ==
    /\ comments = [c \in Requests |-> None]
    /\ attachments = [k \in Keys |-> None]
    /\ activities = {} /\ telling = {}
    /\ pc = [i \in Requests |-> "new"]
    /\ arg = [i \in Requests |-> [op |-> "none", on |-> None, keys |-> {}]]
    /\ held = [i \in Requests |-> {}]
    /\ before = [i \in Requests |-> {}]

-----------------------------------------------------------------------------
Op(i) == arg[i].op
Done == {i \in Requests : pc[i] = "done"}
Live(row) == row # None /\ ~ row.deleted
LiveComments == {c \in Requests : Live(comments[c])}
LiveKeys == {k \in Keys : Live(attachments[k])}
Overlap(i, j) == i \notin before[j] /\ j \notin before[i]

Start(i, where, op, on, keys, read) ==
    /\ pc[i] = "new"
    /\ pc' = [pc EXCEPT ![i] = where]
    /\ arg' = [arg EXCEPT ![i] = [op |-> op, on |-> on, keys |-> keys]]
    /\ held' = [held EXCEPT ![i] = read]
    /\ before' = [before EXCEPT ![i] = {j \in Requests : pc[j] \in {"done", "failed"}}]
    /\ UNCHANGED tables

At(i, where, next) == pc[i] = where /\ pc' = [pc EXCEPT ![i] = next] /\ UNCHANGED <<arg, before>>

\* TodoActivityService.record: the save is not awaited, its failure logged.
Tell(i) == telling' = telling \cup {i} /\ UNCHANGED activities
TellNothing == UNCHANGED <<activities, telling>>
RecordActivity(i) ==
    /\ i \in telling
    /\ telling' = telling \ {i}
    /\ activities' \in {activities \cup {i}} \cup IF Faults THEN {activities} ELSE {}
    /\ UNCHANGED <<comments, attachments, pc, arg, held, before>>

\* Content or keys are given, and every key is that of an attachment.
StartCreate(i) == \E keys \in SUBSET LiveKeys : Start(i, "insert", "create", None, keys, {})

InsertComment(i) ==
    /\ comments' = [comments EXCEPT ![i] = [content |-> i, deleted |-> FALSE]]
    /\ IF arg[i].keys = {} THEN At(i, "insert", "done") /\ Tell(i)
                           ELSE At(i, "insert", "find") /\ TellNothing
    /\ UNCHANGED <<attachments, held>>

\* attachToComment reads the attachments again ...
FindAttachments(i) ==
    /\ At(i, "find", "attach")
    /\ held' = [held EXCEPT ![i] = arg[i].keys \cap LiveKeys]
    /\ UNCHANGED tables

\* Mutant of Attach: a failure is logged like that of an activity.
AttachSwallowed(i) ==
    /\ At(i, "attach", "done") /\ Tell(i)
    /\ attachments' \in
          {[k \in Keys |-> IF k \in held[i] THEN [of |-> i, deleted |-> FALSE] ELSE attachments[k]]}
          \cup IF Faults THEN {attachments} ELSE {}
    /\ UNCHANGED <<comments, held>>

\* ... and saves them whole, whatever comment they had.
Attach(i) ==
    /\ At(i, "attach", "done") /\ Tell(i)
    /\ attachments' = [k \in Keys |-> IF k \in held[i] THEN [of |-> i, deleted |-> FALSE]
                                      ELSE attachments[k]]
    /\ UNCHANGED <<comments, held>>

\* The relation that findOwnedById loads.
Shown(c) == {k \in LiveKeys : attachments[k].of = c}

StartUpdate(i) == \E c \in LiveComments : Start(i, "save", "update", c, {}, Shown(c))

\* The row is saved as it was read, not deleted, and its attachments are
\* those that were read.
SaveComment(i) ==
    LET c == arg[i].on
    IN /\ At(i, "save", "done") /\ Tell(i)
       /\ comments' = [comments EXCEPT ![c] = [content |-> i, deleted |-> FALSE]]
       /\ attachments' = [k \in Keys |->
              IF k \in held[i] THEN [attachments[k] EXCEPT !.of = c]
              ELSE IF attachments[k] # None /\ attachments[k].of = c
                   THEN [attachments[k] EXCEPT !.of = None]
                   ELSE attachments[k]]
       /\ UNCHANGED held

StartDelete(i) == \E c \in LiveComments : Start(i, "erase", "delete", c, {}, {})

EraseComment(i) ==
    /\ At(i, "erase", "done") /\ Tell(i)
    /\ comments' = [comments EXCEPT ![arg[i].on].deleted = TRUE]
    /\ UNCHANGED <<attachments, held>>

\* Completing an upload.  The comment may be any whose identifier is known.
StartComplete(i) == \E k \in Keys, c \in {j \in Requests : comments[j] # None} \cup {None} :
    Start(i, "upload", "complete", c, {k}, {})

\* Mutant of InsertAttachment: the unique key is only of rows that live.
InsertAttachmentAnew(i) == \E k \in arg[i].keys :
    /\ At(i, "upload", IF Live(attachments[k]) THEN "failed" ELSE "done")
    /\ attachments' = IF Live(attachments[k]) THEN attachments
                      ELSE [attachments EXCEPT ![k] = [of |-> arg[i].on, deleted |-> FALSE]]
    /\ UNCHANGED <<comments, activities, telling, held>>

\* UNIQUE (storage_key) counts rows that are deleted.
InsertAttachment(i) == \E k \in arg[i].keys :
    LET fits == attachments[k] = None
    IN /\ At(i, "upload", IF fits THEN "done" ELSE "failed")
       /\ attachments' = IF fits THEN [attachments EXCEPT ![k] = [of |-> arg[i].on, deleted |-> FALSE]]
                         ELSE attachments
       /\ UNCHANGED <<comments, activities, telling, held>>

StartDiscard(i) == \E k \in LiveKeys : Start(i, "drop", "discard", None, {k}, {})
DropAttachment(i) == \E k \in arg[i].keys :
    /\ At(i, "drop", "done")
    /\ attachments' = [attachments EXCEPT ![k].deleted = TRUE]
    /\ UNCHANGED <<comments, activities, telling, held>>

Fault(i) ==
    /\ Faults
    /\ pc[i] \in Awaits
    /\ At(i, pc[i], "failed")
    /\ UNCHANGED <<tables, held>>

Next == \E i \in Requests :
    \/ StartCreate(i) \/ InsertComment(i) \/ FindAttachments(i) \/ Attach(i)
    \/ StartUpdate(i) \/ SaveComment(i) \/ StartDelete(i) \/ EraseComment(i)
    \/ StartComplete(i) \/ InsertAttachment(i) \/ StartDiscard(i) \/ DropAttachment(i)
    \/ RecordActivity(i) \/ Fault(i)

Spec == Init /\ [][Next]_vars

-----------------------------------------------------------------------------
\* A comment that was answered has its images until another request takes them
\* away by name: the images are discarded or used by another comment.  Only an
\* update that overlapped the creation, or an update of another comment that
\* had the image before, loses them.
CommentKeepsItsImages == \A i \in Done : Op(i) = "create" =>
    \A k \in arg[i].keys :
        \/ k \in Shown(i)
        \/ \E j \in Requests \ {i} : k \in arg[j].keys /\ Op(j) \in {"create", "discard"}
        \/ \E j \in Requests : Op(j) = "update" /\ Overlap(i, j)

\* What was deleted stays deleted, a comment as well as an attachment: only a
\* request that overlapped the deletion brings it back, by saving what it had
\* read.
DeletedStaysDeleted == [][
    /\ \A c \in LiveComments' \ LiveComments : comments[c] # None =>
          \E i, j \in Requests : /\ Op(i) = "update" /\ Op(j) = "delete"
                                 /\ arg[i].on = c /\ arg[j].on = c /\ Overlap(i, j)
    /\ \A k \in LiveKeys' \ LiveKeys : attachments[k] # None =>
          \E i, j \in Requests : /\ Op(i) = "create" /\ Op(j) = "discard"
                                 /\ k \in arg[i].keys \cap arg[j].keys /\ Overlap(i, j)]_tables
=============================================================================
