-------------------------- MODULE RagChat_proofs --------------------------
(***************************************************************************)
(* Theorems about RagChat, for any number of requests, things, tools and   *)
(* messages, whatever the agent calls and whatever fails.                  *)
(***************************************************************************)
EXTENDS RagChat, TLAPS

Ended == {"done", "failed"}

Starts(i) == StartQuery(i) \/ StartConfirm(i) \/ StartDelete(i)
Steps(i) ==
    \/ Fault(i) \/ Confirm(i) \/ ClassifyQuery(i) \/ ReadHistory(i) \/ CallTool(i)
    \/ FinishAgent(i) \/ SaveUser(i) \/ SaveAssistant(i) \/ LosesConversation(i)
    \/ SetTitle(i) \/ RemoveConversation(i)

-----------------------------------------------------------------------------
(***************************************************************************)
(* Type correctness, with what the operation of a request has to do with   *)
(* where it is.                                                            *)
(***************************************************************************)
OpFits(i) ==
    /\ pc[i] = "new" <=> Op(i) = "none"
    /\ pc[i] \in {"classify", "history", "agent", "title"} => Op(i) = "query"
    /\ pc[i] = "confirm" => Op(i) = "confirm"
    /\ pc[i] = "remove" => Op(i) = "delete"
    /\ pc[i] \in {"saveUser", "saveAssistant"} => Op(i) # "delete"
    /\ Op(i) = "confirm" => arg[i].on \in Things

OpsFit == \A i \in Requests : OpFits(i)

TInv == TypeOK /\ OpsFit

\* The history that a request reads: a beginning of the messages, and all of
\* them unless the limit cut it.
LEMMA RecentIsPrefix ==
    ASSUME TypeOK
    PROVE  /\ Recent \in Seq(Message) /\ Len(Recent) <= HistoryLimit
           /\ \A k \in DOMAIN messages : Len(Recent) = HistoryLimit \/ k \in DOMAIN Recent
           /\ \A k \in DOMAIN Recent : Recent[k] = messages[k]
<1> DEFINE n == Min({HistoryLimit, Len(messages)})
<1>1. HistoryLimit \in Nat /\ Len(messages) \in Nat /\ messages \in Seq(Message)
  BY ConstantsAssumption DEF TypeOK
<1>2. n \in {HistoryLimit, Len(messages)} /\ n <= HistoryLimit /\ n <= Len(messages)
  BY <1>1 DEF Min
<1>3. \A k \in 1 .. n : messages[k] \in Message
  BY <1>1, <1>2
<1> HIDE DEF n
<1>4. Recent = SubSeq(messages, 1, n)
  BY DEF Recent, n
<1>5. Recent = [k \in 1 .. n |-> messages[k]] /\ Len(Recent) = n
  BY <1>1, <1>2, <1>4
<1>6. Recent \in Seq(Message)
  BY <1>1, <1>2, <1>3, <1>5
<1>7. QED
  BY <1>1, <1>2, <1>5, <1>6

\* What the agent's text turns into is one of the known wordings.
LEMMA SafeWording ==
    ASSUME NEW text, NEW t, NEW used, NEW named
    PROVE  Validate(BuildSafeAgentText(text, t, used, named), t).by
               \in {text.by, "count", "stats", "apology", "refusal"}
<1> DEFINE safe == BuildSafeAgentText(text, t, used, named)
<1>1. safe.by \in {text.by, "count", "stats", "apology"}
  BY DEF BuildSafeAgentText, Plain, Text
<1>2. Validate(safe, t).by \in {safe.by, "refusal"}
  BY DEF Validate, Plain, Text
<1>3. QED
  BY <1>1, <1>2

\* The tools that executeConfirmedTool knows are tools.
LEMMA ConfirmableTools == Confirmable \subseteq DOMAIN Tools
BY DEF Confirmable, Tools, ProjectTools, StatusTools, FindTools, TaskTools

LEMMA InitTInv == Init => TInv
<1>1. SUFFICES ASSUME Init PROVE TInv
  OBVIOUS
<1>2. HistoryLimit \in Nat /\ MaxCalls \in Nat
  BY ConstantsAssumption
<1>3. TypeOK
  BY <1>1, <1>2 DEF Init, TypeOK, Wordings
<1>4. OpsFit
  BY <1>1 DEF Init, OpsFit, OpFits, Op
<1>5. QED
  BY <1>3, <1>4 DEF TInv

\* The arrival of request i.
LEMMA StartFacts ==
    ASSUME TInv, NEW i \in Requests, Starts(i)
    PROVE  \E where \in {"classify", "confirm", "remove"}, op \in Ops,
              on \in Things \cup {None} :
              /\ Start(i, where, op, on)
              /\ where = "classify" <=> op = "query"
              /\ where = "confirm" <=> op = "confirm"
              /\ where = "remove" <=> op = "delete"
              /\ op = "confirm" => on \in Things
BY DEF Starts, StartQuery, StartConfirm, StartDelete, Ops

LEMMA StartTInv ==
    ASSUME TInv, NEW i \in Requests, Starts(i)
    PROVE  TInv'
<1>1. PICK where \in {"classify", "confirm", "remove"}, op \in Ops,
            on \in Things \cup {None} :
              /\ Start(i, where, op, on)
              /\ where = "classify" <=> op = "query"
              /\ where = "confirm" <=> op = "confirm"
              /\ where = "remove" <=> op = "delete"
              /\ op = "confirm" => on \in Things
  BY StartFacts
<1>2. TypeOK'
  BY <1>1 DEF TInv, TypeOK, Start, Awaits, conversation, world
<1>3. /\ pc'[i] = where /\ arg'[i] = [op |-> op, on |-> on]
      /\ \A j \in Requests : j # i => pc'[j] = pc[j] /\ arg'[j] = arg[j]
  BY <1>1 DEF TInv, TypeOK, Start
<1>4. OpsFit'
  BY <1>1, <1>3 DEF TInv, OpsFit, OpFits, Op, Ops
<1>5. QED
  BY <1>2, <1>4 DEF TInv

\* A step of request i: where it comes from and goes to, and what it keeps.
LEMMA StepMoves ==
    ASSUME TypeOK, NEW i \in Requests, Steps(i)
    PROVE  /\ pc[i] \in Awaits
           /\ UNCHANGED <<arg, before>>
           /\ \A j \in Requests : j # i => pc'[j] = pc[j]
           /\ pc'[i] \in Awaits \cup Ended
           /\ \A j \in Requests : j # i => /\ untitled'[j] = untitled[j]
                                           /\ seen'[j] = seen[j]
           /\ pc'[i] \in Awaits => untitled'[i] = untitled[i]
           /\ pc'[i] \in Ended => untitled'[i] = FALSE
<1> USE DEF TypeOK, At, End, Ended, Awaits, locals
<1>1. CASE Fault(i) \/ LosesConversation(i) \/ SetTitle(i) \/ RemoveConversation(i)
  BY <1>1 DEF Fault, LosesConversation, SetTitle, RemoveConversation
<1>2. CASE Confirm(i)
  BY <1>2 DEF Confirm
<1>3. CASE ClassifyQuery(i)
  <2>1. PICK where \in {"saveUser", "history"} :
              At(i, "classify", where) /\ UNCHANGED <<untitled, seen>>
    BY <1>3 DEF ClassifyQuery
  <2>2. QED
    BY <2>1
<1>4. CASE ReadHistory(i) \/ FinishAgent(i)
  BY <1>4 DEF ReadHistory, FinishAgent
<1>5. CASE CallTool(i)
  BY <1>5 DEF CallTool
<1>6. CASE SaveUser(i) \/ SaveAssistant(i)
  BY <1>6 DEF SaveUser, SaveAssistant
<1>7. QED
  BY <1>1, <1>2, <1>3, <1>4, <1>5, <1>6 DEF Steps

LEMMA MessageAppended ==
    ASSUME TypeOK, NEW i \in Requests, NEW role \in Role, Insert(i, role)
    PROVE  /\ live
           /\ messages' \in Seq(Message)
           /\ Len(messages') = Len(messages) + 1
           /\ messages'[Len(messages) + 1] = [role |-> role, by |-> i]
           /\ \A k \in DOMAIN messages : k \in DOMAIN messages' /\ messages'[k] = messages[k]
           /\ DOMAIN messages' = 1 .. (Len(messages) + 1)
           /\ DOMAIN messages = 1 .. Len(messages)
<1>1. [role |-> role, by |-> i] \in Message
  BY DEF Message
<1>2. messages \in Seq(Message) /\ messages' = Append(messages, [role |-> role, by |-> i])
  BY DEF Insert, TypeOK
<1>3. QED
  BY <1>1, <1>2 DEF Insert

\* The variables that End resets.
LEMMA EndType ==
    ASSUME TypeOK, NEW i \in Requests, NEW where, NEW how \in Ended, End(i, where, how)
    PROVE  /\ pc' \in [Requests -> Awaits \cup {"new", "done", "failed"}]
           /\ intent' \in [Requests -> AiIntent \cup {"none"}]
           /\ untitled' \in [Requests -> BOOLEAN]
           /\ seen' \in [Requests -> Seq(Message)]
           /\ calls' \in [Requests -> Seq(Call)]
           /\ \A j \in Requests : Len(seen'[j]) <= HistoryLimit /\ Len(calls'[j]) <= MaxCalls
           /\ answer' \in [Requests -> Wordings]
           /\ arg' = arg /\ before' = before
<1>1. <<>> \in Seq(Message) /\ <<>> \in Seq(Call) /\ Len(<<>>) = 0
  OBVIOUS
<1>2. HistoryLimit \in Nat /\ MaxCalls \in Nat
  BY ConstantsAssumption
<1>3. \A j \in Requests : /\ seen'[j] = IF j = i THEN <<>> ELSE seen[j]
                          /\ calls'[j] = IF j = i THEN <<>> ELSE calls[j]
  BY DEF TypeOK, End
<1>4. seen' \in [Requests -> Seq(Message)] /\ calls' \in [Requests -> Seq(Call)]
  BY <1>1 DEF TypeOK, End
<1>5. \A j \in Requests : Len(seen'[j]) <= HistoryLimit /\ Len(calls'[j]) <= MaxCalls
  BY <1>1, <1>2, <1>3 DEF TypeOK
<1>6. QED
  BY <1>4, <1>5 DEF TypeOK, End, At, Ended, Wordings

LEMMA StepTypeOK ==
    ASSUME TInv, NEW i \in Requests, Steps(i)
    PROVE  TypeOK'
<1> USE DEF TInv, conversation, world, locals
<1>1. CASE Fault(i) \/ LosesConversation(i)
  <2>1. End(i, pc[i], "failed")
    BY <1>1 DEF Fault, LosesConversation
  <2>2. UNCHANGED <<live, title, messages, things, changes>>
    BY <1>1 DEF Fault, LosesConversation
  <2>3. QED
    BY <2>1, <2>2, EndType DEF TypeOK, Ended
<1>2. CASE SetTitle(i) \/ RemoveConversation(i)
  <2>1. \E where : End(i, where, "done")
    BY <1>2 DEF SetTitle, RemoveConversation
  <2>2. /\ live' \in BOOLEAN /\ title' \in Requests \cup {None, "given"}
        /\ messages' \in Seq(Message) /\ UNCHANGED <<things, changes>>
    <3>1. <<>> \in Seq(Message)
      OBVIOUS
    <3>2. CASE SetTitle(i)
      BY <3>2 DEF SetTitle, TypeOK
    <3>3. CASE RemoveConversation(i)
      BY <3>1, <3>3 DEF RemoveConversation, TypeOK
    <3>4. QED
      BY <1>2, <3>2, <3>3
  <2>3. QED
    BY <2>1, <2>2, EndType DEF TypeOK, Ended
<1>3. CASE Confirm(i)
  <2>1. CASE arg[i].on \in things
    <3>1. arg[i].on \in Things
      BY <2>1 DEF TypeOK
    <3>2. DeletedBy[arg[i].on] \in DOMAIN Tools
      BY <3>1, ConfirmableTools, ConstantsAssumption
    <3>3. /\ At(i, "confirm", "saveUser")
          /\ things' = things \ {arg[i].on}
          /\ changes' = changes \cup {[by |-> i, tool |-> DeletedBy[arg[i].on]]}
          /\ answer' = [answer EXCEPT ![i] = "confirmed"]
          /\ UNCHANGED <<live, title, messages, intent, untitled, seen, calls>>
      BY <1>3, <2>1 DEF Confirm
    <3>4. changes' \subseteq [by : Requests, tool : DOMAIN Tools]
      BY <3>2, <3>3 DEF TypeOK
    <3>5. QED
      BY <3>3, <3>4 DEF At, TypeOK, Awaits, Wordings
  <2>2. CASE arg[i].on \notin things
    BY <1>3, <2>2, EndType DEF Confirm, TypeOK, Ended
  <2>3. QED
    BY <2>1, <2>2
<1>4. CASE ClassifyQuery(i)
  <2>1. PICK t \in Said, where \in {"saveUser", "history"}, how \in {"refusal", "unclear", answer[i]} :
            /\ At(i, "classify", where)
            /\ intent' = [intent EXCEPT ![i] = t]
            /\ answer' = [answer EXCEPT ![i] = how]
    BY <1>4 DEF ClassifyQuery, TypeOK
  <2>2. UNCHANGED <<live, title, messages, things, changes, untitled, seen, calls>>
    BY <1>4 DEF ClassifyQuery
  <2>3. t \in AiIntent
    BY ConstantsAssumption
  <2>4. how \in Wordings
    BY DEF TypeOK, Wordings
  <2>5. QED
    BY <2>1, <2>2, <2>3, <2>4 DEF At, TypeOK, Awaits
<1>5. CASE ReadHistory(i)
  <2>1. seen' \in [Requests -> Seq(Message)]
    BY <1>5, RecentIsPrefix DEF ReadHistory, TypeOK
  <2>2. \A j \in Requests : Len(seen'[j]) <= HistoryLimit
    <3>1. \A j \in Requests : seen'[j] = IF j = i THEN Recent ELSE seen[j]
      BY <1>5 DEF ReadHistory, TypeOK
    <3>2. QED
      BY <3>1, RecentIsPrefix DEF TypeOK
  <2>3. QED
    BY <1>5, <2>1, <2>2 DEF ReadHistory, At, TypeOK, Awaits
<1>6. CASE CallTool(i)
  <2>1. PICK tool \in Used, on \in Things \cup {None}, failed \in BOOLEAN :
          /\ calls' = [calls EXCEPT ![i] =
                 Append(@, [tool |-> tool, on |-> on, failed |-> failed])]
          /\ changes' \in {changes, changes \cup {[by |-> i, tool |-> tool]}}
    <3>1. PICK tool \in Permitted(i) \cap Used :
             \E on \in IF Tools[tool] = "propose"
                    THEN {thing \in Things : DeletedBy[thing] = tool} ELSE {None},
                failed \in IF Tools[tool] = "propose" THEN {FALSE} ELSE BOOLEAN :
              /\ calls' = [calls EXCEPT ![i] =
                     Append(@, [tool |-> tool, on |-> on, failed |-> failed])]
              /\ changes' = IF Tools[tool] = "write" /\ ~ failed
                            THEN changes \cup {[by |-> i, tool |-> tool]} ELSE changes
      BY <1>6 DEF CallTool
    <3>2. QED
      BY <3>1
  <2>2. tool \in DOMAIN Tools
    BY ConstantsAssumption
  <2> DEFINE call == [tool |-> tool, on |-> on, failed |-> failed]
  <2>3. call \in Call
    BY <2>2 DEF Call
  <2>4. /\ calls[i] \in Seq(Call) /\ Len(calls[i]) < MaxCalls /\ MaxCalls \in Nat
    BY <1>6, ConstantsAssumption DEF CallTool, TypeOK
  <2> HIDE DEF call
  <2>5. Append(calls[i], call) \in Seq(Call) /\ Len(Append(calls[i], call)) <= MaxCalls
    BY <2>3, <2>4
  <2>6. calls' = [calls EXCEPT ![i] = Append(calls[i], call)]
    BY <2>1 DEF call, TypeOK
  <2>7. /\ calls' \in [Requests -> Seq(Call)]
        /\ \A j \in Requests : Len(calls'[j]) <= MaxCalls
    BY <2>5, <2>6 DEF TypeOK
  <2>8. changes' \subseteq [by : Requests, tool : DOMAIN Tools]
    BY <2>1, <2>2 DEF TypeOK
  <2>9. QED
    BY <1>6, <2>7, <2>8 DEF CallTool, TypeOK
<1>7. CASE FinishAgent(i)
  <2>1. PICK a \in Wordings : answer' = [answer EXCEPT ![i] = a]
    <3>1. PICK code, leak, named \in BOOLEAN :
            answer' = [answer EXCEPT ![i] =
              Validate(BuildSafeAgentText(
                 IF Proposed(i) # <<>> THEN Plain("proposal") ELSE Text("agent", code, leak),
                 intent[i], calls[i], [code |-> named, leak |-> FALSE]), intent[i]).by]
      BY <1>7 DEF FinishAgent
    <3> DEFINE text == IF Proposed(i) # <<>> THEN Plain("proposal") ELSE Text("agent", code, leak)
               a == Validate(BuildSafeAgentText(text,
                 intent[i], calls[i], [code |-> named, leak |-> FALSE]), intent[i]).by
    <3>2. text.by \in {"proposal", "agent"}
      BY DEF Plain, Text
    <3> HIDE DEF text
    <3>3. a \in Wordings
      BY <3>2, SafeWording DEF Wordings
    <3>4. answer' = [answer EXCEPT ![i] = a]
      BY <3>1 DEF text
    <3>5. QED
      BY <3>3, <3>4
  <2>2. QED
    BY <1>7, <2>1 DEF FinishAgent, At, TypeOK, Awaits
<1>8. CASE SaveUser(i)
  BY <1>8, MessageAppended DEF SaveUser, At, TypeOK, Awaits, Role
<1>9. CASE SaveAssistant(i)
  <2>1. messages' \in Seq(Message) /\ UNCHANGED <<live, title, things, changes>>
    BY <1>9, MessageAppended DEF SaveAssistant, Role
  <2>2. CASE At(i, "saveAssistant", "title") /\ UNCHANGED locals
    BY <2>1, <2>2 DEF At, TypeOK, Awaits
  <2>3. CASE End(i, "saveAssistant", "done")
    BY <2>1, <2>3, EndType DEF TypeOK, Ended
  <2>4. QED
    BY <1>9, <2>2, <2>3 DEF SaveAssistant
<1>10. QED
  BY <1>1, <1>2, <1>3, <1>4, <1>5, <1>6, <1>7, <1>8, <1>9 DEF Steps

LEMMA StepTInv ==
    ASSUME TInv, NEW i \in Requests, Steps(i)
    PROVE  TInv'
<1>1. TypeOK'
  BY StepTypeOK
<1>2. /\ UNCHANGED arg /\ pc[i] \in Awaits /\ pc'[i] \in Awaits \cup Ended
      /\ \A j \in Requests : j # i => pc'[j] = pc[j]
  BY StepMoves DEF TInv
<1>3. OpFits(i)'
  <2>1. OpFits(i) /\ pc \in [Requests -> Awaits \cup {"new", "done", "failed"}]
    BY DEF TInv, OpsFit, TypeOK
  <2>2. \/ pc'[i] = pc[i]
        \/ pc'[i] \in Ended
        \/ pc[i] = "confirm" /\ pc'[i] = "saveUser"
        \/ pc[i] = "classify" /\ pc'[i] \in {"saveUser", "history"}
        \/ pc[i] = "history" /\ pc'[i] = "agent"
        \/ pc[i] = "agent" /\ pc'[i] = "saveUser"
        \/ pc[i] = "saveUser" /\ pc'[i] = "saveAssistant"
        \/ pc[i] = "saveAssistant" /\ pc'[i] = "title" /\ Op(i) = "query"
    BY <2>1
    DEF Steps, Fault, Confirm, ClassifyQuery, ReadHistory, CallTool, FinishAgent,
        SaveUser, SaveAssistant, Titles, LosesConversation, SetTitle,
        RemoveConversation, At, End, Ended
  <2>3. QED
    BY <1>2, <2>1, <2>2 DEF OpFits, Op, Awaits, Ended
<1>4. OpsFit'
  BY <1>2, <1>3 DEF TInv, OpsFit, OpFits, Op
<1>5. QED
  BY <1>1, <1>4 DEF TInv

LEMMA NextTInv == TInv /\ [Next]_vars => TInv'
<1>1. ASSUME TInv, UNCHANGED vars PROVE TInv'
  BY <1>1
  DEF vars, conversation, world, locals, TInv, TypeOK, OpsFit, OpFits, Op
<1>2. Next => \E i \in Requests : Starts(i) \/ Steps(i)
  BY DEF Next, Starts, Steps
<1>3. QED
  BY <1>1, <1>2, StartTInv, StepTInv

\* Every variable keeps its type.
THEOREM TypeCorrect == Spec => []TypeOK
<1>1. TInv => TypeOK
  BY DEF TInv
<1>2. QED
  BY InitTInv, NextTInv, <1>1, PTL DEF Spec

-----------------------------------------------------------------------------
(***************************************************************************)
(* What needs no assumption on arrivals.  A request that another began     *)
(* after stays ended; a thing goes when a confirmation names it; and who   *)
(* still takes the conversation for untitled overlaps whoever titled it.   *)
(***************************************************************************)
Past == \A i \in Requests : before[i] \subseteq {j \in Requests : pc[j] \in Ended}

Named == \A thing \in Things \ things :
    \E i \in Requests : Op(i) = "confirm" /\ arg[i].on = thing /\ pc[i] # "confirm"

Carried == \A i \in Requests :
    Op(i) = "confirm" /\ pc[i] \in {"saveUser", "saveAssistant", "done"} =>
        [by |-> i, tool |-> DeletedBy[arg[i].on]] \in changes

Titled(i) == title = None \/ \E j \in Requests :
    title = j /\ pc[j] # "new" /\ Overlap(i, j)

TitleKnown == \A i \in Requests :
    /\ pc[i] = "title" => untitled[i]
    /\ untitled[i] => pc[i] \in Awaits /\ Titled(i)

HInv == TInv /\ Past /\ Named /\ Carried /\ TitleKnown

(***************************************************************************)
(* What needs that the conversation is not removed while a query runs: a   *)
(* query in flight keeps it alive, so no title brings it back.  As long as *)
(* it lives, a request that has put its question has it in the transcript, *)
(* with requests only that overlap it behind.                              *)
(***************************************************************************)
RemovalApart == {"delete", "query"} \in Apart

AdmittedPairs == \A i, j \in InFlight : i # j => {Op(i), Op(j)} \notin Apart

QueriesLive == \A i \in InFlight : Op(i) = "query" => live

Authors == \A k \in DOMAIN messages : pc[messages[k].by] # "new"

AskedAt(i, j) ==
    /\ messages[j] = [role |-> "user", by |-> i]
    /\ \A l \in j + 1 .. Len(messages) : Overlap(messages[l].by, i)

Asking == live => \A i \in Requests :
    pc[i] = "saveAssistant" => \E j \in DOMAIN messages : AskedAt(i, j)

Pairs == live => \A i \in Requests :
    pc[i] \in {"done", "title"} /\ Op(i) # "delete" => Recorded(i)

Knows(i, j) ==
    \/ Len(seen[i]) = HistoryLimit
    \/ \E k \in DOMAIN seen[i] : seen[i][k] = [role |-> "assistant", by |-> j]

Knowing == \A i, j \in Requests :
    pc[i] = "agent" /\ j \in before[i] \cap Answered => Knows(i, j)

CInv == /\ HInv
        /\ AdmittedPairs /\ QueriesLive
        /\ Authors /\ Asking /\ AnswersFollowQuestions /\ Pairs /\ Knowing

LEMMA InitHInv == Init => HInv
BY InitTInv
DEF Init, HInv, Past, Named, Carried, TitleKnown, Op, Ended, Awaits

\* The arrival of request i, variable by variable.
LEMMA StartChanges ==
    ASSUME TInv, NEW i \in Requests, Starts(i)
    PROVE  /\ pc[i] = "new" /\ live
           /\ pc'[i] \in {"classify", "confirm", "remove"}
           /\ Op(i)' \in Ops /\ Admitted(Op(i)')
           /\ untitled'[i] = (title = None)
           /\ before'[i] = {j \in Requests : pc[j] \in Ended}
           /\ \A j \in Requests : j # i =>
                 /\ pc'[j] = pc[j] /\ arg'[j] = arg[j]
                 /\ untitled'[j] = untitled[j] /\ before'[j] = before[j]
           /\ UNCHANGED <<live, title, messages, things, changes, seen>>
<1>1. PICK where \in {"classify", "confirm", "remove"}, op \in Ops,
            on \in Things \cup {None} : Start(i, where, op, on)
  BY StartFacts
<1>2. arg'[i] = [op |-> op, on |-> on]
  BY <1>1 DEF Start, TInv, TypeOK
<1>3. Op(i)' = op
  BY <1>2 DEF Op
<1>4. QED
  BY <1>1, <1>3 DEF Start, TInv, TypeOK, conversation, world, Ended

\* Where a step takes its request.
LEMMA StepGoes ==
    ASSUME TypeOK, NEW i \in Requests, Steps(i)
    PROVE  \/ pc'[i] = pc[i] /\ pc[i] = "agent" /\ CallTool(i)
           \/ pc'[i] = "failed"
           \/ pc[i] = "confirm" /\ pc'[i] = "saveUser" /\ Confirm(i) /\ arg[i].on \in things
           \/ pc[i] = "classify" /\ pc'[i] \in {"saveUser", "history"} /\ ClassifyQuery(i)
           \/ pc[i] = "history" /\ pc'[i] = "agent" /\ ReadHistory(i)
           \/ pc[i] = "agent" /\ pc'[i] = "saveUser" /\ FinishAgent(i)
           \/ pc[i] = "saveUser" /\ pc'[i] = "saveAssistant" /\ SaveUser(i)
           \/ pc[i] = "saveAssistant" /\ pc'[i] = "title" /\ Titles(i) /\ SaveAssistant(i)
           \/ pc[i] = "saveAssistant" /\ pc'[i] = "done" /\ SaveAssistant(i)
           \/ pc[i] = "title" /\ pc'[i] = "done" /\ SetTitle(i)
           \/ pc[i] = "remove" /\ pc'[i] = "done" /\ RemoveConversation(i)
<1> USE DEF TypeOK, At, End
<1>1. CASE Fault(i) \/ LosesConversation(i)
  BY <1>1 DEF Fault, LosesConversation
<1>2. CASE SetTitle(i) \/ RemoveConversation(i)
  BY <1>2 DEF SetTitle, RemoveConversation
<1>3. CASE Confirm(i)
  BY <1>3 DEF Confirm
<1>4. CASE ClassifyQuery(i)
  <2>1. PICK where \in {"saveUser", "history"} : At(i, "classify", where)
    BY <1>4 DEF ClassifyQuery
  <2>2. QED
    BY <1>4, <2>1
<1>5. CASE ReadHistory(i) \/ FinishAgent(i)
  BY <1>5 DEF ReadHistory, FinishAgent
<1>6. CASE CallTool(i)
  BY <1>6 DEF CallTool
<1>7. CASE SaveUser(i)
  BY <1>7 DEF SaveUser
<1>8. CASE SaveAssistant(i)
  BY <1>8 DEF SaveAssistant
<1>9. QED
  BY <1>1, <1>2, <1>3, <1>4, <1>5, <1>6, <1>7, <1>8 DEF Steps

\* What a step does to the conversation and to the things.
LEMMA StepEffects ==
    ASSUME TypeOK, NEW i \in Requests, Steps(i)
    PROVE  /\ SetTitle(i) \/ UNCHANGED title
           /\ SetTitle(i) \/ RemoveConversation(i) \/ UNCHANGED live
           /\ \/ SaveUser(i) \/ SaveAssistant(i) \/ RemoveConversation(i)
              \/ UNCHANGED messages
           /\ Confirm(i) \/ UNCHANGED things
           /\ changes \subseteq changes'
<1> USE DEF conversation, world
<1>1. CASE Fault(i) \/ LosesConversation(i)
  BY <1>1 DEF Fault, LosesConversation
<1>2. CASE SetTitle(i) \/ RemoveConversation(i)
  BY <1>2 DEF SetTitle, RemoveConversation
<1>3. CASE Confirm(i)
  BY <1>3 DEF Confirm
<1>4. CASE ClassifyQuery(i)
  BY <1>4 DEF ClassifyQuery
<1>5. CASE ReadHistory(i) \/ FinishAgent(i)
  BY <1>5 DEF ReadHistory, FinishAgent
<1>6. CASE CallTool(i)
  BY <1>6 DEF CallTool
<1>7. CASE SaveUser(i) \/ SaveAssistant(i)
  BY <1>7 DEF SaveUser, SaveAssistant
<1>8. QED
  BY <1>1, <1>2, <1>3, <1>4, <1>5, <1>6, <1>7 DEF Steps

\* Two requests in flight overlap.
LEMMA FlightsOverlap ==
    ASSUME Past, NEW i \in Requests, NEW j \in Requests,
           pc[i] \in Awaits, pc[j] \in Awaits
    PROVE  Overlap(i, j)
BY DEF Past, Overlap, Awaits, Ended

\* Whether two requests overlap is settled when both have begun.
LEMMA OverlapKept ==
    ASSUME TInv, NEW k \in Requests, Starts(k) \/ Steps(k),
           NEW i \in Requests, NEW j \in Requests, pc[i] # "new", pc[j] # "new"
    PROVE  Overlap(i, j)' <=> Overlap(i, j)
<1>1. before'[i] = before[i] /\ before'[j] = before[j]
  BY StartChanges, StepMoves DEF TInv
<1>2. QED
  BY <1>1 DEF Overlap

LEMMA StartHInv ==
    ASSUME HInv, NEW i \in Requests, Starts(i)
    PROVE  HInv'
<1> USE DEF HInv
<1>1. TInv'
  BY StartTInv
<1>a. /\ pc[i] = "new" /\ Op(i) = "none"
      /\ pc'[i] \in {"classify", "confirm", "remove"}
      /\ untitled'[i] = (title = None)
      /\ before'[i] = {j \in Requests : pc[j] \in Ended}
      /\ \A j \in Requests : j # i =>
            /\ pc'[j] = pc[j] /\ arg'[j] = arg[j]
            /\ untitled'[j] = untitled[j] /\ before'[j] = before[j]
      /\ UNCHANGED <<title, things, changes>>
  BY StartChanges DEF TInv, OpsFit, OpFits
<1>2. Past'
  BY <1>a DEF Past, Ended
<1>3. Named'
  BY <1>a DEF Named, Op
<1>4. Carried'
  BY <1>a DEF Carried, Op
<1>5. ASSUME NEW j \in Requests
      PROVE  /\ pc'[j] = "title" => untitled'[j]
             /\ untitled'[j] => pc'[j] \in Awaits /\ Titled(j)'
  <2>1. CASE j = i
    BY <1>a, <2>1 DEF Titled, Awaits
  <2>2. CASE j # i
    <3>1. pc[j] = "title" => untitled[j]
      BY DEF TitleKnown
    <3>2. ASSUME untitled[j]
          PROVE  pc[j] \in Awaits /\ Titled(j)'
      <4>1. pc[j] \in Awaits /\ Titled(j)
        BY <3>2 DEF TitleKnown
      <4>2. CASE title = None
        BY <1>a, <4>1, <4>2 DEF Titled
      <4>3. CASE title # None
        <5>1. PICK k \in Requests : title = k /\ pc[k] # "new" /\ Overlap(j, k)
          BY <4>1, <4>3 DEF Titled
        <5>2. Overlap(j, k)'
          BY <4>1, <5>1, OverlapKept DEF Awaits
        <5>3. pc'[k] # "new" /\ title' = k
          BY <1>a, <5>1
        <5>4. QED
          BY <4>1, <5>2, <5>3 DEF Titled
      <4>4. QED
        BY <4>2, <4>3
    <3>3. QED
      BY <1>a, <2>2, <3>1, <3>2
  <2>3. QED
    BY <2>1, <2>2
<1>6. QED
  BY <1>1, <1>2, <1>3, <1>4, <1>5 DEF TitleKnown

LEMMA StepHInv ==
    ASSUME HInv, NEW i \in Requests, Steps(i)
    PROVE  HInv'
<1> USE DEF HInv
<1>1. TInv'
  BY StepTInv
<1>a. TypeOK /\ OpFits(i)
  BY DEF TInv, OpsFit
<1>b. /\ pc[i] \in Awaits
      /\ UNCHANGED <<arg, before>>
      /\ \A j \in Requests : j # i => pc'[j] = pc[j] /\ untitled'[j] = untitled[j]
      /\ pc'[i] \in Awaits \cup Ended
      /\ pc'[i] \in Awaits => untitled'[i] = untitled[i]
      /\ pc'[i] \in Ended => untitled'[i] = FALSE
  BY <1>a, StepMoves
<1>2. Past'
  BY <1>b DEF Past, Awaits, Ended
<1>3. Named'
  <2>1. SUFFICES ASSUME NEW thing \in Things, thing \notin things'
                 PROVE  \E j \in Requests : /\ Op(j)' = "confirm" /\ arg'[j].on = thing
                                            /\ pc'[j] # "confirm"
    BY DEF Named
  <2>2. pc[i] # "confirm" => pc'[i] # "confirm"
    BY <1>a, StepGoes
  <2>3. CASE thing \notin things
    BY <1>b, <2>2, <2>3 DEF Named, Op
  <2>4. CASE thing \in things
    <3>1. Confirm(i)
      BY <1>a, <2>1, <2>4, StepEffects
    <3>2. thing = arg[i].on /\ pc[i] = "confirm" /\ pc'[i] = "saveUser"
      BY <1>a, <2>1, <2>4, <3>1 DEF Confirm, At, End, TypeOK, world
    <3>3. QED
      BY <1>a, <1>b, <3>2 DEF OpFits, Op
  <2>5. QED
    BY <2>3, <2>4
<1>4. Carried'
  <2>1. SUFFICES ASSUME NEW j \in Requests, Op(j) = "confirm",
                        pc'[j] \in {"saveUser", "saveAssistant", "done"}
                 PROVE  [by |-> j, tool |-> DeletedBy[arg[j].on]] \in changes'
    BY <1>b DEF Carried, Op
  <2>2. changes \subseteq changes'
    BY <1>a, StepEffects
  <2>3. CASE pc[j] \in {"saveUser", "saveAssistant", "done"}
    BY <2>1, <2>2, <2>3 DEF Carried
  <2>4. CASE pc[j] \notin {"saveUser", "saveAssistant", "done"}
    <3>1. j = i
      BY <1>b, <2>1, <2>4
    <3>2. pc[i] = "confirm" /\ Confirm(i) /\ arg[i].on \in things
      BY <1>a, <2>1, <2>4, <3>1, StepGoes DEF OpFits
    <3>3. QED
      BY <3>1, <3>2 DEF Confirm
  <2>5. QED
    BY <2>3, <2>4
<1>5. ASSUME NEW j \in Requests
      PROVE  /\ pc'[j] = "title" => untitled'[j]
             /\ untitled'[j] => pc'[j] \in Awaits /\ Titled(j)'
  <2>1. pc'[j] = "title" => untitled'[j]
    <3>1. CASE j # i
      BY <1>b, <3>1 DEF TitleKnown
    <3>2. CASE j = i /\ pc'[j] = "title"
      BY <1>a, <1>b, <3>2, StepGoes DEF Titles, Awaits
    <3>3. QED
      BY <3>1, <3>2
  <2>2. ASSUME untitled'[j]
        PROVE  pc'[j] \in Awaits /\ Titled(j)'
    <3>1. untitled[j] /\ pc'[j] \in Awaits
      <4>1. CASE j = i
        BY <1>b, <2>2, <4>1
      <4>2. CASE j # i
        BY <1>b, <2>2, <4>2 DEF TitleKnown
      <4>3. QED
        BY <4>1, <4>2
    <3>2. pc[j] \in Awaits /\ Titled(j)
      BY <3>1 DEF TitleKnown
    <3>3. CASE SetTitle(i)
      <4>1. j # i
        BY <1>b, <2>2, <3>3 DEF SetTitle, End, At, TInv, TypeOK, Ended
      <4>2. title' = i /\ pc'[i] # "new"
        BY <1>b, <3>3 DEF SetTitle, Awaits, Ended
      <4>3. Overlap(j, i)
        BY <1>b, <3>2, FlightsOverlap
      <4>4. Overlap(j, i)'
        BY <1>b, <4>3 DEF Overlap
      <4>5. QED
        BY <3>1, <4>2, <4>4 DEF Titled
    <3>4. CASE ~ SetTitle(i)
      <4>1. title' = title
        BY <1>a, <3>4, StepEffects
      <4>2. \A k \in Requests : pc[k] # "new" => pc'[k] # "new"
        BY <1>b DEF Awaits, Ended
      <4>3. \A k \in Requests : Overlap(j, k) => Overlap(j, k)'
        BY <1>b DEF Overlap
      <4>4. QED
        BY <3>1, <3>2, <4>1, <4>2, <4>3 DEF Titled
    <3>5. QED
      BY <3>3, <3>4
  <2>3. QED
    BY <2>1, <2>2
<1>6. QED
  BY <1>1, <1>2, <1>3, <1>4, <1>5 DEF TitleKnown

LEMMA NextSteps == Next => \E i \in Requests : Starts(i) \/ Steps(i)
BY DEF Next, Starts, Steps

LEMMA NextHInv == HInv /\ [Next]_vars => HInv'
<1>1. ASSUME HInv, UNCHANGED vars PROVE HInv'
  <2>1. TInv'
    BY <1>1, NextTInv DEF HInv
  <2>2. QED
    BY <1>1, <2>1
    DEF vars, conversation, world, locals, HInv, Past, Named, Carried, TitleKnown,
        Titled, Overlap, Op
<1>2. QED
  BY <1>1, NextSteps, StartHInv, StepHInv

\* Whatever is gone was named by a confirmation, and a confirmation that was
\* answered has deleted what it named, however requests interleave and fail.
THEOREM DeletionsConfirmed == Spec => []DeletionsAreConfirmed
<1>1. HInv => DeletionsAreConfirmed
  BY DEF HInv, Named, Carried, DeletionsAreConfirmed, Answered
<1>2. QED
  BY InitHInv, NextHInv, <1>1, PTL DEF Spec

LEMMA TitleStep ==
    ASSUME HInv, [Next]_vars, title' # title, title # None
    PROVE  \E i, j \in Requests : title = j /\ title' = i /\ Overlap(i, j)
<1>1. PICK i \in Requests : Starts(i) \/ Steps(i)
  BY NextSteps DEF vars, conversation
<1>2. SetTitle(i)
  BY <1>1, StartChanges, StepEffects DEF HInv, TInv
<1>3. Titled(i) /\ title' = i
  BY <1>2 DEF HInv, TitleKnown, SetTitle, End, At
<1>4. QED
  BY <1>3 DEF Titled

-----------------------------------------------------------------------------
(* The transcript, if no query overlaps the removal of the conversation. *)

LEMMA InitCInv == Init => CInv
BY InitHInv
DEF Init, CInv, AdmittedPairs, QueriesLive, Authors, Asking, AnswersFollowQuestions,
    Pairs, Knowing, InFlight, Awaits

\* A request that took part stays recorded as long as messages are only added.
LEMMA RecordedKept ==
    ASSUME NEW j \in Requests, Recorded(j),
           \A k \in DOMAIN messages : k \in DOMAIN messages' /\ messages'[k] = messages[k]
    PROVE  Recorded(j)'
BY DEF Recorded

LEMMA MessageBy ==
    ASSUME TypeOK
    PROVE  /\ DOMAIN messages = 1 .. Len(messages) /\ Len(messages) \in Nat
           /\ \A k \in DOMAIN messages : messages[k].by \in Requests
<1>1. messages \in Seq(Message)
  BY DEF TypeOK
<1>2. \A k \in DOMAIN messages : messages[k] \in Message
  BY <1>1
<1>3. QED
  BY <1>1, <1>2 DEF Message

LEMMA StartCInv ==
    ASSUME CInv, NEW i \in Requests, Starts(i)
    PROVE  CInv'
<1> USE DEF CInv
<1>1. HInv' /\ TInv
  BY StartHInv DEF HInv
<1>a. /\ pc[i] = "new" /\ live
      /\ pc'[i] \in {"classify", "confirm", "remove"}
      /\ Admitted(Op(i)')
      /\ \A j \in Requests : j # i =>
            pc'[j] = pc[j] /\ arg'[j] = arg[j] /\ before'[j] = before[j]
      /\ UNCHANGED <<live, messages, seen>>
  BY <1>1, StartChanges
<1>b. /\ DOMAIN messages = 1 .. Len(messages) /\ Len(messages) \in Nat
      /\ \A k \in DOMAIN messages : messages[k].by \in Requests
  BY <1>1, MessageBy DEF TInv
<1>c. \A j, k \in Requests :
         pc[j] # "new" /\ pc[k] # "new" => (Overlap(j, k)' <=> Overlap(j, k))
  BY <1>1, OverlapKept
<1>2. AdmittedPairs'
  <2>1. SUFFICES ASSUME NEW j \in InFlight', NEW k \in InFlight', j # k
                 PROVE  {Op(j)', Op(k)'} \notin Apart
    BY DEF AdmittedPairs
  <2>2. \A l \in InFlight' : l # i => l \in InFlight /\ Op(l)' = Op(l)
    BY <1>a DEF InFlight, Op
  <2>3. CASE j # i /\ k # i
    BY <2>1, <2>2, <2>3 DEF AdmittedPairs
  <2>4. CASE j = i
    BY <1>a, <2>1, <2>2, <2>4 DEF Admitted
  <2>5. CASE k = i
    <3>1. {Op(k)', Op(j)'} \notin Apart
      BY <1>a, <2>1, <2>2, <2>5 DEF Admitted
    <3>2. {Op(j)', Op(k)'} = {Op(k)', Op(j)'}
      OBVIOUS
    <3>3. QED
      BY <3>1, <3>2
  <2>6. QED
    BY <2>3, <2>4, <2>5
<1>3. QueriesLive'
  BY <1>a DEF QueriesLive
<1>4. Authors'
  BY <1>a, <1>b DEF Authors
<1>5. Asking'
  <2>1. SUFFICES ASSUME live, NEW j \in Requests, pc'[j] = "saveAssistant"
                 PROVE  \E k \in DOMAIN messages : AskedAt(j, k)'
    BY <1>a DEF Asking
  <2>2. pc[j] = "saveAssistant"
    BY <1>a, <2>1
  <2>3. PICK k \in DOMAIN messages : AskedAt(j, k)
    BY <2>1, <2>2 DEF Asking
  <2>4. ASSUME NEW l \in k + 1 .. Len(messages)
        PROVE  Overlap(messages[l].by, j)'
    <3>1. l \in DOMAIN messages
      BY <1>b
    <3>2. Overlap(messages[l].by, j) /\ pc[messages[l].by] # "new"
      BY <2>3, <3>1 DEF AskedAt, Authors
    <3>3. PICK m \in Requests : m = messages[l].by
      BY <1>b, <3>1
    <3>4. Overlap(m, j)'
      BY <1>c, <2>2, <3>2, <3>3
    <3>5. QED
      BY <1>a, <3>3, <3>4
  <2>5. AskedAt(j, k)'
    BY <1>a, <2>3, <2>4 DEF AskedAt
  <2>6. QED
    BY <2>5
<1>6. AnswersFollowQuestions'
  <2>1. SUFFICES ASSUME NEW k \in DOMAIN messages, messages[k].role = "assistant"
                 PROVE  \E j \in 1 .. k - 1 :
                          /\ messages[j] = [role |-> "user", by |-> messages[k].by]
                          /\ \A l \in j + 1 .. k - 1 :
                                Overlap(messages[l].by, messages[k].by)'
    BY <1>a DEF AnswersFollowQuestions
  <2>2. PICK j \in 1 .. k - 1 :
            /\ messages[j] = [role |-> "user", by |-> messages[k].by]
            /\ \A l \in j + 1 .. k - 1 : Overlap(messages[l].by, messages[k].by)
    BY <2>1 DEF AnswersFollowQuestions
  <2>3. ASSUME NEW l \in j + 1 .. k - 1
        PROVE  Overlap(messages[l].by, messages[k].by)'
    <3>1. l \in DOMAIN messages
      BY <1>b
    <3>2. PICK m \in Requests, n \in Requests : m = messages[l].by /\ n = messages[k].by
      BY <1>b, <3>1
    <3>3. pc[m] # "new" /\ pc[n] # "new" /\ Overlap(m, n)
      BY <2>2, <3>1, <3>2 DEF Authors
    <3>4. QED
      BY <1>a, <1>c, <3>2, <3>3
  <2>4. QED
    BY <2>2, <2>3
<1>7. Pairs'
  BY <1>a DEF Pairs, Recorded, Op
<1>8. Knowing'
  <2>1. SUFFICES ASSUME NEW j \in Requests, NEW k \in Requests, pc'[j] = "agent",
                        k \in before'[j], pc'[k] = "done", Op(k)' # "delete"
                 PROVE  Knows(j, k)'
    BY DEF Knowing, Answered
  <2>2. /\ pc[j] = "agent" /\ k \in before[j] /\ pc[k] = "done" /\ Op(k) # "delete"
    BY <1>a, <2>1 DEF Op
  <2>3. Knows(j, k)
    BY <2>2 DEF Knowing, Answered
  <2>4. QED
    BY <1>a, <2>3 DEF Knows
<1>9. QED
  BY <1>1, <1>2, <1>3, <1>4, <1>5, <1>6, <1>7, <1>8

\* No step brings the conversation back.
LEMMA LiveKept ==
    ASSUME RemovalApart, CInv, NEW i \in Requests, Steps(i)
    PROVE  /\ live' => live
           /\ QueriesLive'
           /\ ~ RemoveConversation(i) => live' = live
<1>1. TypeOK /\ OpFits(i)
  BY DEF CInv, HInv, TInv, OpsFit
<1>2. /\ i \in InFlight /\ InFlight' \subseteq InFlight
      /\ \A j \in Requests : Op(j)' = Op(j)
  BY <1>1, StepMoves DEF InFlight, Op
<1>3. CASE SetTitle(i)
  <2>1. Op(i) = "query" /\ live' = TRUE
    BY <1>1, <1>3 DEF SetTitle, End, At, OpFits
  <2>2. live
    BY <1>2, <2>1 DEF CInv, QueriesLive
  <2>3. QED
    BY <1>2, <2>1, <2>2 DEF QueriesLive
<1>4. CASE RemoveConversation(i)
  <2>1. Op(i) = "delete" /\ live' = FALSE
    BY <1>1, <1>4 DEF RemoveConversation, End, At, OpFits
  <2>2. ASSUME NEW j \in InFlight, Op(j) = "query"
        PROVE  FALSE
    <3>1. {Op(i), Op(j)} \notin Apart
      BY <1>2, <2>1, <2>2 DEF CInv, AdmittedPairs
    <3>2. QED
      BY <2>1, <2>2, <3>1 DEF RemovalApart
  <2>3. QED
    BY <1>2, <1>4, <2>1, <2>2 DEF QueriesLive, InFlight
<1>5. CASE ~ SetTitle(i) /\ ~ RemoveConversation(i)
  <2>1. live' = live
    BY <1>1, <1>5, StepEffects
  <2>2. QED
    BY <1>2, <2>1 DEF CInv, QueriesLive, InFlight
<1>6. QED
  BY <1>3, <1>4, <1>5

\* A step that inserts no message.
LEMMA QuietCInv ==
    ASSUME RemovalApart, CInv, NEW i \in Requests, Steps(i), UNCHANGED messages,
           live' = live, pc'[i] # "saveAssistant",
           pc'[i] = "done" /\ Op(i) # "delete" => pc[i] = "title",
           pc'[i] # "title"
    PROVE  Authors' /\ Asking' /\ AnswersFollowQuestions' /\ Pairs'
<1> USE DEF CInv
<1>a. /\ UNCHANGED <<arg, before>> /\ pc[i] \in Awaits /\ pc'[i] \in Awaits \cup Ended
      /\ \A j \in Requests : j # i => pc'[j] = pc[j]
  BY StepMoves DEF HInv, TInv
<1>b. \A k \in DOMAIN messages : messages[k].by \in Requests
  BY MessageBy DEF HInv, TInv
<1>1. Authors'
  BY <1>a, <1>b DEF Authors, Awaits, Ended
<1>2. Asking' /\ AnswersFollowQuestions'
  BY <1>a DEF Asking, AskedAt, AnswersFollowQuestions, Overlap
<1>3. Pairs'
  BY <1>a DEF Pairs, Recorded, Op
<1>4. QED
  BY <1>1, <1>2, <1>3

\* A step that inserts a message of request i: those of the others, behind which
\* it is put, are of requests that it overlaps.
LEMMA InsertCInv ==
    ASSUME RemovalApart, CInv, NEW i \in Requests, Steps(i),
           NEW role \in Role, Insert(i, role), UNCHANGED live,
           role = "user" => pc'[i] = "saveAssistant",
           role = "assistant" => pc[i] = "saveAssistant" /\ pc'[i] \in {"title", "done"}
    PROVE  Authors' /\ Asking' /\ AnswersFollowQuestions' /\ Pairs'
<1> USE DEF CInv
<1>t. TypeOK
  BY DEF HInv, TInv
<1>a. /\ UNCHANGED <<arg, before>> /\ pc[i] \in Awaits /\ pc'[i] \in Awaits \cup Ended
      /\ \A j \in Requests : j # i => pc'[j] = pc[j]
  BY <1>t, StepMoves
<1>n. PICK n \in Nat : n = Len(messages)
  BY <1>t DEF TypeOK
<1>b. /\ live /\ Len(messages') = n + 1
      /\ messages'[n + 1] = [role |-> role, by |-> i]
      /\ \A k \in 1 .. n : k \in DOMAIN messages' /\ messages'[k] = messages[k]
      /\ DOMAIN messages' = 1 .. n + 1 /\ DOMAIN messages = 1 .. n
  BY <1>t, <1>n, MessageAppended
<1>c. \A k \in DOMAIN messages : messages[k].by \in Requests
  BY <1>t, MessageBy
<1>o. \A j, k : Overlap(j, k)' <=> Overlap(j, k)
  BY <1>a DEF Overlap
<1>k. \A k \in 1 .. n + 1 : k = n + 1 \/ k \in 1 .. n
  OBVIOUS
<1>1. Authors'
  <2>1. ASSUME NEW k \in 1 .. n + 1
        PROVE  pc'[messages'[k].by] # "new"
    <3>1. CASE k = n + 1
      BY <1>a, <1>b, <3>1 DEF Awaits, Ended
    <3>2. CASE k \in 1 .. n
      BY <1>a, <1>b, <1>c, <3>2 DEF Authors, Awaits, Ended
    <3>3. QED
      BY <1>k, <3>1, <3>2
  <2>2. QED
    BY <1>b, <2>1 DEF Authors
\* The question of a request that goes on.
<1>2. ASSUME NEW j \in Requests, pc[j] = "saveAssistant"
      PROVE  \E k \in 1 .. n :
                /\ messages[k] = [role |-> "user", by |-> j]
                /\ \A l \in k + 1 .. n : Overlap(messages[l].by, j)
  BY <1>b, <1>n, <1>2 DEF Asking, AskedAt
<1>3. Asking'
  <2>1. SUFFICES ASSUME NEW j \in Requests, pc'[j] = "saveAssistant"
                 PROVE  \E k \in 1 .. n + 1 : AskedAt(j, k)'
    BY <1>b DEF Asking
  <2>2. CASE j = i
    <3>1. role = "user"
      BY <2>1, <2>2 DEF Role
    <3>2. AskedAt(j, n + 1)'
      <4>1. \A l \in n + 2 .. n + 1 : FALSE
        OBVIOUS
      <4>2. PICK m \in Nat : m = n + 1
        OBVIOUS
      <4>3. AskedAt(j, m)'
        BY <1>b, <2>2, <3>1, <4>1, <4>2 DEF AskedAt
      <4>4. QED
        BY <4>2, <4>3
    <3>3. QED
      BY <3>2
  <2>3. CASE j # i
    <3>1. pc[j] = "saveAssistant"
      BY <1>a, <2>1, <2>3
    <3>2. PICK k \in 1 .. n :
            /\ messages[k] = [role |-> "user", by |-> j]
            /\ \A l \in k + 1 .. n : Overlap(messages[l].by, j)
      BY <1>2, <3>1
    <3>3. Overlap(i, j)
      BY <1>a, <3>1, FlightsOverlap DEF HInv, Awaits
    <3>4. ASSUME NEW l \in k + 1 .. n + 1
          PROVE  Overlap(messages'[l].by, j)
      <4>1. CASE l = n + 1
        BY <1>b, <3>3, <4>1
      <4>2. CASE l # n + 1
        <5>1. l \in k + 1 .. n /\ l \in 1 .. n
          BY <3>2, <3>4, <4>2
        <5>2. QED
          BY <1>b, <3>2, <5>1
      <4>3. QED
        BY <4>1, <4>2
    <3>5. AskedAt(j, k)'
      BY <1>a, <1>b, <3>2, <3>4 DEF AskedAt, Overlap
    <3>6. QED
      BY <3>2, <3>5
  <2>4. QED
    BY <2>2, <2>3
<1>4. AnswersFollowQuestions'
  <2>1. SUFFICES ASSUME NEW k \in 1 .. n + 1, messages'[k].role = "assistant"
                 PROVE  \E j \in 1 .. k - 1 :
                          /\ messages'[j] = [role |-> "user", by |-> messages'[k].by]
                          /\ \A l \in j + 1 .. k - 1 :
                                Overlap(messages'[l].by, messages'[k].by)
    BY <1>b, <1>o DEF AnswersFollowQuestions
  <2>2. CASE k = n + 1
    <3>1. pc[i] = "saveAssistant" /\ messages'[k].by = i
      BY <1>b, <2>1, <2>2
    <3>2. PICK j \in 1 .. n :
            /\ messages[j] = [role |-> "user", by |-> i]
            /\ \A l \in j + 1 .. n : Overlap(messages[l].by, i)
      BY <1>2, <3>1
    <3>3. /\ messages'[j] = messages[j] /\ j \in 1 .. k - 1
          /\ \A l \in j + 1 .. k - 1 : l \in j + 1 .. n /\ l \in 1 .. n
      BY <1>b, <2>2, <3>2
    <3>4. \A l \in j + 1 .. k - 1 : Overlap(messages'[l].by, i)
      BY <1>b, <3>2, <3>3
    <3>5. QED
      BY <3>1, <3>2, <3>3, <3>4
  <2>3. CASE k \in 1 .. n
    <3>1. messages'[k] = messages[k]
      BY <1>b, <2>3
    <3>2. PICK j \in 1 .. k - 1 :
            /\ messages[j] = [role |-> "user", by |-> messages[k].by]
            /\ \A l \in j + 1 .. k - 1 : Overlap(messages[l].by, messages[k].by)
      BY <1>b, <2>1, <2>3, <3>1 DEF AnswersFollowQuestions
    <3>3. \A l \in 1 .. k - 1 : messages'[l] = messages[l]
      BY <1>b, <2>3
    <3>4. \A l \in j + 1 .. k - 1 : messages'[l] = messages[l]
      BY <3>2, <3>3
    <3>5. QED
      BY <3>1, <3>2, <3>3, <3>4
  <2>4. QED
    BY <1>k, <2>2, <2>3
<1>5. Pairs'
  <2>1. SUFFICES ASSUME NEW j \in Requests, pc'[j] \in {"done", "title"},
                        Op(j) # "delete"
                 PROVE  Recorded(j)'
    BY <1>a DEF Pairs, Op
  <2>2. CASE j = i
    <3>1. pc[i] = "saveAssistant" /\ role = "assistant"
      BY <2>1, <2>2 DEF Role
    <3>2. PICK k \in 1 .. n : messages[k] = [role |-> "user", by |-> i]
      BY <1>2, <3>1
    <3>3. k < n + 1 /\ n + 1 \in 1 .. n + 1 /\ messages'[k] = messages[k]
      BY <1>b, <3>2
    <3>4. QED
      BY <1>b, <2>2, <3>1, <3>2, <3>3 DEF Recorded
  <2>3. CASE j # i
    BY <1>a, <1>b, <2>1, <2>3, RecordedKept DEF Pairs
  <2>4. QED
    BY <2>2, <2>3
<1>6. QED
  BY <1>1, <1>3, <1>4, <1>5

LEMMA StepKnowing ==
    ASSUME CInv, NEW i \in Requests, Steps(i)
    PROVE  Knowing'
<1> USE DEF CInv
<1>t. TypeOK /\ OpFits(i)
  BY DEF HInv, TInv, OpsFit
<1>a. /\ UNCHANGED <<arg, before>> /\ pc[i] \in Awaits
      /\ \A j \in Requests : j # i => pc'[j] = pc[j] /\ seen'[j] = seen[j]
  BY <1>t, StepMoves
<1>1. SUFFICES ASSUME NEW j \in Requests, NEW k \in Requests, pc'[j] = "agent",
                      k \in before[j], pc'[k] = "done", Op(k) # "delete"
               PROVE  Knows(j, k)'
  BY <1>a DEF Knowing, Answered, Op
<1>2. pc[k] = "done"
  BY <1>a, <1>1 DEF HInv, Past, Awaits, Ended
<1>3. CASE pc[j] = "agent"
  <2>1. Knows(j, k)
    BY <1>1, <1>2, <1>3 DEF Knowing, Answered
  <2>2. seen'[j] = seen[j]
    <3>1. CASE j # i
      BY <1>a, <3>1
    <3>2. CASE j = i
      BY <1>t, <1>1, <1>3, <3>2, StepGoes DEF CallTool
    <3>3. QED
      BY <3>1, <3>2
  <2>3. QED
    BY <2>1, <2>2 DEF Knows
<1>4. CASE pc[j] # "agent"
  <2>1. j = i /\ pc[i] = "history" /\ ReadHistory(i)
    BY <1>t, <1>a, <1>1, <1>4, StepGoes
  <2>2. live
    BY <1>t, <2>1 DEF OpFits, QueriesLive, InFlight, Awaits
  <2>3. Recorded(k)
    BY <1>1, <1>2, <2>2 DEF Pairs
  <2>4. PICK n \in DOMAIN messages : messages[n] = [role |-> "assistant", by |-> k]
    BY <2>3 DEF Recorded
  <2>5. seen'[i] = Recent
    BY <1>t, <2>1 DEF ReadHistory, TypeOK
  <2>6. \/ Len(Recent) = HistoryLimit
        \/ n \in DOMAIN Recent /\ Recent[n] = [role |-> "assistant", by |-> k]
    BY <1>t, <2>4, RecentIsPrefix
  <2>7. QED
    BY <2>1, <2>5, <2>6 DEF Knows
<1>5. QED
  BY <1>3, <1>4

LEMMA StepCInv ==
    ASSUME RemovalApart, CInv, NEW i \in Requests, Steps(i)
    PROVE  CInv'
<1>1. HInv' /\ Knowing' /\ QueriesLive' /\ TypeOK /\ OpFits(i)
  BY StepHInv, StepKnowing, LiveKept DEF CInv, HInv, TInv, OpsFit
<1>a. /\ UNCHANGED arg /\ InFlight' \subseteq InFlight
      /\ pc[i] \in Awaits /\ pc'[i] \in Awaits \cup Ended
      /\ \A j \in Requests : j # i => pc'[j] = pc[j]
  BY <1>1, StepMoves DEF InFlight
<1>2. AdmittedPairs'
  BY <1>a DEF CInv, AdmittedPairs, Op
<1>3. Authors' /\ Asking' /\ AnswersFollowQuestions' /\ Pairs'
  <2>1. CASE SaveUser(i)
    <3>1. Insert(i, "user") /\ UNCHANGED live /\ pc'[i] = "saveAssistant"
      BY <1>1, <2>1 DEF SaveUser, At, TypeOK
    <3>2. QED
      BY <3>1, InsertCInv DEF Role
  <2>2. CASE SaveAssistant(i)
    <3>1. /\ Insert(i, "assistant") /\ UNCHANGED live
          /\ pc[i] = "saveAssistant" /\ pc'[i] \in {"title", "done"}
      BY <1>1, <2>2 DEF SaveAssistant, At, End, TypeOK
    <3>2. QED
      BY <3>1, InsertCInv DEF Role
  <2>3. CASE RemoveConversation(i)
    <3>1. live' = FALSE /\ messages' = <<>>
      BY <2>3 DEF RemoveConversation
    <3>2. QED
      BY <3>1 DEF Authors, Asking, AnswersFollowQuestions, Pairs
  <2>4. CASE ~ SaveUser(i) /\ ~ SaveAssistant(i) /\ ~ RemoveConversation(i)
    <3>1. UNCHANGED messages /\ live' = live
      BY <1>1, <2>4, StepEffects, LiveKept
    <3>2. /\ pc'[i] \notin {"saveAssistant", "title"}
          /\ pc'[i] = "done" => pc[i] = "title"
      BY <1>1, <2>4, StepGoes
    <3>3. QED
      BY <3>1, <3>2, QuietCInv
  <2>5. QED
    BY <2>1, <2>2, <2>3, <2>4
<1>4. QED
  BY <1>1, <1>2, <1>3 DEF CInv

LEMMA NextCInv ==
    ASSUME RemovalApart, CInv, [Next]_vars
    PROVE  CInv' /\ (live' => live)
<1>1. CASE UNCHANGED vars
  <2>1. HInv'
    BY <1>1, NextHInv DEF CInv
  <2>2. QED
    BY <1>1, <2>1
    DEF vars, conversation, world, locals, CInv, AdmittedPairs, QueriesLive, Authors,
        Asking, AskedAt, AnswersFollowQuestions, Pairs, Recorded, Knowing, Knows,
        Overlap, InFlight, Answered, Op
<1>2. ASSUME NEW i \in Requests, Starts(i)
      PROVE  CInv' /\ (live' => live)
  BY <1>2, StartCInv, StartChanges DEF CInv, HInv
<1>3. ASSUME NEW i \in Requests, Steps(i)
      PROVE  CInv' /\ (live' => live)
  BY <1>3, StepCInv, LiveKept
<1>4. QED
  BY <1>1, <1>2, <1>3, NextSteps

\* If no query overlaps the removal of the conversation, every answer that was
\* given is in the transcript as long as the conversation lives, behind its
\* question, and only messages of requests that overlapped are between the two.
THEOREM Transcript ==
    ASSUME RemovalApart
    PROVE  Spec => []TranscriptIsFaithful
<1>1. CInv => TranscriptIsFaithful
  BY DEF CInv, Pairs, Answered, TranscriptIsFaithful, AnsweredIsRecorded
<1>2. CInv /\ [Next]_vars => CInv'
  BY NextCInv
<1>3. QED
  BY InitCInv, <1>1, <1>2, PTL DEF Spec

\* Under the same condition the agent knows every exchange that ended before its
\* request began, until the history is full.
THEOREM AgentKnows ==
    ASSUME RemovalApart
    PROVE  Spec => []AgentKnowsAnswered
<1>1. CInv => AgentKnowsAnswered
  BY DEF CInv, Knowing, Knows, AgentKnowsAnswered
<1>2. CInv /\ [Next]_vars => CInv'
  BY NextCInv
<1>3. QED
  BY InitCInv, <1>1, <1>2, PTL DEF Spec

\* A title stays, whatever overlaps, but for a question that overlapped the first;
\* and if no query overlaps the removal, the removed conversation stays removed,
\* although setTitleIfEmpty saves the row as it was read.
THEOREM TitleKept == Spec => TitleStays
<1>1. HInv /\ [Next]_vars =>
        [title # None => \E i, j \in Requests : title = j /\ title' = i /\ Overlap(i, j)]_title
  BY TitleStep
<1>2. QED
  BY InitHInv, NextHInv, <1>1, PTL DEF Spec, TitleStays

THEOREM ConversationKept ==
    ASSUME RemovalApart
    PROVE  Spec => ConversationStays
<1>1. CInv /\ [Next]_vars => [live' => live]_live
  BY NextCInv
<1>2. CInv /\ [Next]_vars => CInv'
  BY NextCInv
<1>3. Spec => RemovedStaysRemoved
  BY InitCInv, <1>1, <1>2, PTL DEF Spec, RemovedStaysRemoved
<1>4. QED
  BY <1>3, TitleKept DEF ConversationStays
=============================================================================
