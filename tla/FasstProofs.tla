----------------------------- MODULE FasstProofs -----------------------------
(***************************************************************************)
(* Proofs about Fasst, for any bounds on the rounds, the tool calls and    *)
(* the runs of Backpropagation.py.                                         *)
(***************************************************************************)
EXTENDS Fasst, TLAPS

LEMMA StageFields ==
    ASSUME NEW i \in 1..7
    PROVE  Stages[i].chat \in Chats /\ Stages[i].needs \in Tags
<1>1. i = 1 \/ i = 2 \/ i = 3 \/ i = 4 \/ i = 5 \/ i = 6 \/ i = 7
    OBVIOUS
<1>2. QED
    BY <1>1 DEF Stages, Chats, Tags

-----------------------------------------------------------------------------
(* The rounds of the Reasoning model: what is left and what was used add   *)
(* up, and a request is only made while a round is left.                   *)

RoundsInv ==
    /\ script # "Reasoning_ST" => asked = 0 /\ cnt = MaxReasoning
    /\ script = "Reasoning_ST" =>
         /\ step \in {"send", "act"} => asked + cnt = MaxReasoning /\ cnt >= 1
         /\ step \in {"reply", "replied"} =>
                asked + cnt = MaxReasoning + 1 /\ cnt >= 1
         /\ step \in {"truncate", "write"} => asked + cnt = MaxReasoning
         /\ step \in {"send", "act", "reply", "replied", "truncate", "write"}
    /\ asked \in Nat /\ cnt \in 0..MaxReasoning /\ iteration \in 0..MaxTool

LEMMA InitRounds == Init => RoundsInv
BY IterationsAssumption DEF Init, RoundsInv

LEMMA StepRounds == RoundsInv /\ [Next]_vars => RoundsInv'
<1> SUFFICES ASSUME RoundsInv, [Next]_vars PROVE RoundsInv'
    OBVIOUS
<1> USE IterationsAssumption DEF RoundsInv, reasoner, action
<1>1. CASE StartReasoning
    BY <1>1 DEF StartReasoning
<1>2. CASE AskReasoning
    BY <1>2 DEF AskReasoning, Reasoning, Request
<1>3. CASE ReasoningReply
    BY <1>3 DEF ReasoningReply, Reply
<1>4. CASE ReasoningFails \/ StageFails \/ BackpropagationEnds \/ Killed
    BY <1>4 DEF ReasoningFails, StageFails, BackpropagationEnds, Killed, Exit,
                Forget
<1>5. CASE ReasoningDecides
    BY <1>5 DEF ReasoningDecides, Reasoning, RoundsUsed
<1>6. CASE TruncateST
    BY <1>6 DEF TruncateST, Reasoning
<1>7. CASE WriteST \/ WriteCode
  <2>1. Forget
    BY <1>7 DEF WriteST, WriteCode
  <2>2. QED
    BY <2>1 DEF Forget
<1>8. CASE ActionAnswers
    BY <1>8 DEF ActionAnswers, Reasoning, Answered
<1>9. CASE ActionCallsTools
    BY <1>9 DEF ActionCallsTools, Reasoning, IterationsLeft
<1>10. CASE ToolCall
    BY <1>10 DEF ToolCall, Reasoning
<1>11. CASE StartGeneration \/ StartBackpropagation
    BY <1>11 DEF StartGeneration, StartBackpropagation
<1>12. CASE AskCode \/ AskStage
    BY <1>12 DEF AskCode, AskStage, Propagating, Request
<1>13. CASE CodeReply \/ StageReply
    BY <1>13 DEF CodeReply, StageReply, Reply
<1>14. CASE TruncateCode
    BY <1>14 DEF TruncateCode
<1>15. CASE StageSucceeds
    BY <1>15 DEF StageSucceeds, Propagating
<1>16. CASE SavePrompts
    BY <1>16 DEF SavePrompts, WritePrompts, Propagating
<1>17. CASE UNCHANGED vars
    BY <1>17 DEF vars
<1> QED
    BY <1>1, <1>2, <1>3, <1>4, <1>5, <1>6, <1>7, <1>8, <1>9, <1>10, <1>11,
       <1>12, <1>13, <1>14, <1>15, <1>16, <1>17 DEF Next

(* Whatever the models reply, Reasoning_ST.py makes at most                *)
(* max_reasoning_iterations requests and the Action model is called at     *)
(* most max_tool_iterations times with tools for one task.                 *)
THEOREM CallsAreBounded == Spec => []CallsBounded
<1>1. RoundsInv => CallsBounded
    BY IterationsAssumption DEF RoundsInv, CallsBounded
<1>2. QED
    BY <1>1, InitRounds, StepRounds, PTL DEF Spec

-----------------------------------------------------------------------------
(* The prompt files: while one of them is being written the first already  *)
(* has the number of the run.                                              *)

PromptsInv ==
    /\ PromptsTogether
    /\ step \in Writing => script = "Backpropagation"
    /\ step \in {"truncateGeneration", "writeGeneration"} =>
           reasoning_prompt = runs

LEMMA StepPrompts == PromptsInv /\ [Next]_vars => PromptsInv'
<1> SUFFICES ASSUME PromptsInv, [Next]_vars PROVE PromptsInv'
    OBVIOUS
<1> USE DEF PromptsInv, PromptsTogether, Writing, files
<1>1. CASE StartReasoning \/ StartGeneration \/ StartBackpropagation
    BY <1>1 DEF StartReasoning, StartGeneration, StartBackpropagation
<1>2. CASE AskReasoning \/ AskCode \/ AskStage
    BY <1>2 DEF AskReasoning, AskCode, AskStage, Reasoning, Propagating, Request
<1>3. CASE ReasoningReply \/ CodeReply \/ StageReply
    BY <1>3 DEF ReasoningReply, CodeReply, StageReply, Reply
<1>4. CASE ReasoningFails \/ StageFails \/ BackpropagationEnds
    BY <1>4 DEF ReasoningFails, StageFails, BackpropagationEnds, Exit, Forget,
                Reasoning, Propagating
<1>5. CASE Killed
    BY <1>5 DEF Killed, Forget
<1>6. CASE ReasoningDecides
    BY <1>6 DEF ReasoningDecides, Reasoning
<1>7. CASE TruncateST \/ TruncateCode
    BY <1>7 DEF TruncateST, TruncateCode, Reasoning
<1>8. CASE WriteST \/ WriteCode
    BY <1>8 DEF WriteST, WriteCode, Forget, Reasoning
<1>9. CASE ActionAnswers \/ ActionCallsTools \/ ToolCall
    BY <1>9 DEF ActionAnswers, Answered, ActionCallsTools, ToolCall, Reasoning
<1>10. CASE StageSucceeds
    BY <1>10 DEF StageSucceeds, Propagating
<1>11. CASE SavePrompts
    BY <1>11 DEF SavePrompts, WritePrompts, Propagating
<1>12. CASE UNCHANGED vars
    BY <1>12 DEF vars
<1> QED
    BY <1>1, <1>2, <1>3, <1>4, <1>5, <1>6, <1>7, <1>8, <1>9, <1>10, <1>11,
       <1>12 DEF Next

(* However Backpropagation.py ends, unless it is killed while it writes    *)
(* them, the reasoning and the generation prompt come from the same run.   *)
THEOREM PromptsStayTogether == Spec => []PromptsTogether
<1>1. Init => PromptsInv
    BY DEF Init, PromptsInv, PromptsTogether, Writing
<1>2. PromptsInv => PromptsTogether
    BY DEF PromptsInv
<1>3. QED
    BY <1>1, <1>2, StepPrompts, PTL DEF Spec

-----------------------------------------------------------------------------
(* Types: the messages, the messages of the Action model, and the rest.    *)

Roles == {"system", "user", "assistant"}
Turn == [role : {"system", "user", "assistant", "tool"},
         calls : 0..MaxToolCalls]

MessagesType == messages \in [Chats -> Seq(Roles)]
TalkType == talk \in Seq(Turn)
ScalarType ==
    /\ script \in {"none", "Reasoning_ST", "Generation_Code",
                   "Backpropagation"}
    /\ step \in Steps
    /\ calls \in 0..MaxToolCalls
    /\ stage \in 1..7 /\ runs \in 0..MaxRuns
    /\ reasoning_prompt \in (0..MaxRuns) \cup {Empty}
    /\ generation_prompt \in (0..MaxRuns) \cup {Empty}
    /\ ST_file \in {"missing", "empty", "ST", "NoST"}
    /\ code_file \in {"missing", "empty", "code", "text"}
FlagsType == /\ flag \in BOOLEAN /\ tools \in BOOLEAN /\ cut \in BOOLEAN
             /\ result \in SUBSET Tags

LEMMA TypeParts ==
    MessagesType /\ TalkType /\ ScalarType /\ FlagsType /\ RoundsInv => TypeOK
BY DEF TypeOK, MessagesType, TalkType, ScalarType, FlagsType, RoundsInv, Roles,
       Turn

(* The same steps, by what they do.                                        *)
Starts == StartReasoning \/ StartGeneration \/ StartBackpropagation
Asks == AskReasoning \/ AskCode \/ AskStage
Replies == ReasoningReply \/ CodeReply \/ StageReply
Acts == ActionAnswers \/ ActionCallsTools \/ ToolCall
Saves == TruncateST \/ TruncateCode \/ SavePrompts
Ends == \/ ReasoningFails \/ WriteST \/ WriteCode
        \/ StageFails \/ BackpropagationEnds \/ Killed

LEMMA StepsByKind ==
    ASSUME [Next]_vars
    PROVE  \/ Starts \/ Asks \/ Replies \/ ReasoningDecides \/ Acts \/ Saves
           \/ StageSucceeds \/ Ends \/ UNCHANGED vars
BY Zenon DEF Next, Starts, Asks, Replies, Acts, Saves, Ends

LEMMA EndsForget == Ends => Forget
BY DEF Ends, ReasoningFails, WriteST, WriteCode, StageFails,
       BackpropagationEnds, Killed, Exit

(* The Chat that is asked or answers.                                      *)
Current == IF script = "Reasoning_ST" THEN "reasoning"
           ELSE IF script = "Generation_Code" THEN "code"
           ELSE Stages[stage].chat

LEMMA CurrentChat == ScalarType => Current \in Chats
BY StageFields DEF ScalarType, Current, Chats

LEMMA AsksCurrent == Asks => Request(Current) /\ step = "send"
BY DEF Asks, AskReasoning, AskCode, AskStage, Reasoning, Propagating, Current

LEMMA RepliesCurrent ==
    ASSUME Replies, ScalarType
    PROVE  \E P \in SUBSET Tags, to \in {"replied", "truncate"} :
               Reply(Current, P, to)
BY StageFields
DEF Replies, ReasoningReply, CodeReply, StageReply, Current, ScalarType, Tags

LEMMA StepScalarType ==
    ASSUME ScalarType, [Next]_vars PROVE ScalarType'
<1> USE RunsAssumption, IterationsAssumption DEF files, Writing, Empty
<1>1. CASE Starts
    BY <1>1 DEF Starts, StartReasoning, StartGeneration, StartBackpropagation,
                ScalarType, action, reasoner, Steps
<1>2. CASE Asks
    BY <1>2, AsksCurrent DEF Request, ScalarType, action, Steps, Asks,
       AskReasoning, AskCode, AskStage, reasoner
<1>3. CASE Replies
    BY <1>3, RepliesCurrent DEF Reply, ScalarType, action, reasoner, Steps
<1>4. CASE ReasoningDecides
    BY <1>4 DEF ReasoningDecides, ScalarType, Steps
<1>5. CASE Acts
  <2>1. CASE ActionAnswers \/ ToolCall
    BY <2>1 DEF ActionAnswers, Answered, ToolCall, ScalarType, reasoner, Steps
  <2>2. CASE ActionCallsTools
    <3>1. calls' \in 0..MaxToolCalls
      BY <2>2 DEF ActionCallsTools
    <3>2. QED
      BY <2>2, <3>1 DEF ActionCallsTools, ScalarType, reasoner
  <2>3. QED
    BY <1>5, <2>1, <2>2 DEF Acts
<1>6. CASE TruncateST \/ TruncateCode
    BY <1>6 DEF TruncateST, TruncateCode, ScalarType, reasoner, action, Steps
<1>7. CASE SavePrompts
    BY <1>7 DEF SavePrompts, WritePrompts, ScalarType, reasoner, action, Steps,
                Writing
<1>8. CASE StageSucceeds
    BY <1>8 DEF StageSucceeds, StagesDone, ScalarType, reasoner, action, Steps
<1>9. CASE Ends
  <2>1. script' = "none" /\ step' = "start" /\ calls' = 0 /\ stage' = 1
    BY <1>9, EndsForget, Zenon DEF Forget
  <2>2. /\ ST_file' \in {"missing", "empty", "ST", "NoST"}
        /\ code_file' \in {"missing", "empty", "code", "text"}
        /\ UNCHANGED <<runs, reasoning_prompt, generation_prompt>>
    BY <1>9 DEF Ends, ReasoningFails, WriteST, WriteCode, StageFails,
                BackpropagationEnds, Killed, Exit, ScalarType
  <2>3. QED
    BY <2>1, <2>2 DEF ScalarType, Steps
<1>10. CASE UNCHANGED vars
    BY <1>10 DEF vars, ScalarType, action, reasoner
<1> QED
    BY <1>1, <1>2, <1>3, <1>4, <1>5, <1>6, <1>7, <1>8, <1>9, <1>10,
       StepsByKind DEF Saves

(* Between two runs there is no step to take but the start of one.         *)
IdleInv == script = "none" => step = "start"

LEMMA StepIdle == ASSUME IdleInv, [Next]_vars PROVE IdleInv'
<1>1. CASE Starts
    BY <1>1 DEF Starts, StartReasoning, StartGeneration, StartBackpropagation,
                IdleInv
<1>2. CASE Asks
    BY <1>2 DEF Asks, AskReasoning, AskCode, AskStage, Request, Reasoning,
                Propagating, IdleInv
<1>3. CASE Replies
    BY <1>3 DEF Replies, ReasoningReply, CodeReply, StageReply, Reply, IdleInv
<1>4. CASE ReasoningDecides
    BY <1>4 DEF ReasoningDecides, Reasoning, IdleInv
<1>5. CASE Acts
    BY <1>5 DEF Acts, ActionAnswers, Answered, ActionCallsTools, ToolCall,
                Reasoning, IdleInv
<1>6. CASE Saves
    BY <1>6 DEF Saves, TruncateST, TruncateCode, SavePrompts, WritePrompts,
                Reasoning, Propagating, IdleInv
<1>7. CASE StageSucceeds
    BY <1>7 DEF StageSucceeds, Propagating, IdleInv
<1>8. CASE Ends
    BY <1>8, EndsForget, Zenon DEF Forget, IdleInv
<1>9. CASE UNCHANGED vars
    BY <1>9 DEF vars, IdleInv
<1> QED
    BY <1>1, <1>2, <1>3, <1>4, <1>5, <1>6, <1>7, <1>8, <1>9, StepsByKind

(* Steps that keep the messages of the Chats.                              *)
LEMMA MessagesKept ==
    ASSUME Starts \/ ReasoningDecides \/ Acts \/ Saves \/ StageSucceeds
           \/ UNCHANGED vars
    PROVE  messages' = messages
BY DEF Starts, StartReasoning, StartGeneration, StartBackpropagation,
       ReasoningDecides, Acts, ActionAnswers, Answered, ActionCallsTools,
       ToolCall, Saves, TruncateST, TruncateCode, SavePrompts, WritePrompts,
       StageSucceeds, vars

LEMMA StepFlagsType ==
    ASSUME ScalarType, FlagsType, [Next]_vars PROVE FlagsType'
<1>1. CASE Starts
    BY <1>1 DEF Starts, StartReasoning, StartGeneration, StartBackpropagation,
                FlagsType, reasoner
<1>2. CASE Asks
    BY <1>2, AsksCurrent DEF Request, FlagsType, Asks, AskReasoning, AskCode,
       AskStage, reasoner
<1>3. CASE Replies
    BY <1>3, RepliesCurrent DEF Reply, FlagsType, reasoner
<1>4. CASE ReasoningDecides \/ StageSucceeds
    BY <1>4 DEF ReasoningDecides, StageSucceeds, FlagsType, reasoner
<1>5. CASE Acts
    BY <1>5 DEF Acts, ActionAnswers, Answered, ActionCallsTools, ToolCall,
                FlagsType, reasoner
<1>6. CASE TruncateST \/ TruncateCode
    BY <1>6 DEF TruncateST, TruncateCode, FlagsType, reasoner
<1>7. CASE SavePrompts
    BY <1>7 DEF SavePrompts, WritePrompts, FlagsType, reasoner
<1>8. CASE Ends
  <2>1. flag' = FALSE /\ tools' = FALSE /\ result' = {}
    BY <1>8, EndsForget, Zenon DEF Forget
  <2>2. cut' \in BOOLEAN
    BY <1>8 DEF Ends, ReasoningFails, WriteST, WriteCode, StageFails,
                BackpropagationEnds, Killed, Exit, FlagsType
  <2>3. QED
    BY <2>1, <2>2 DEF FlagsType
<1>9. CASE UNCHANGED vars
    BY <1>9 DEF vars, FlagsType, reasoner
<1> QED
    BY <1>1, <1>2, <1>3, <1>4, <1>5, <1>6, <1>7, <1>8, <1>9, StepsByKind
    DEF Saves

-----------------------------------------------------------------------------
(* The conversations.  The Chat whose reply is awaited is the only one     *)
(* that ends in a request.                                                 *)

Role(i) == IF i = 1 THEN "system"
           ELSE IF i % 2 = 0 THEN "user" ELSE "assistant"
Alternate(s) == Len(s) > 0 /\ \A i \in 1..Len(s) : s[i] = Role(i)
Awaiting(c) == step = "reply" /\ c = Current
ChatsInv ==
    \A c \in Chats : /\ Alternate(messages[c])
                     /\ (Len(messages[c]) % 2 = 0) <=> Awaiting(c)

(* A request after a reply, and a reply after a request, keep the order;   *)
(* so does taking the request back.                                        *)
LEMMA AppendAlternates ==
    ASSUME NEW s \in Seq(Roles), Alternate(s), NEW r \in Roles,
           r = Role(Len(s) + 1)
    PROVE  /\ Append(s, r) \in Seq(Roles) /\ Alternate(Append(s, r))
           /\ Len(Append(s, r)) = Len(s) + 1
BY DEF Alternate

LEMMA PopAlternates ==
    ASSUME NEW s \in Seq(Roles), Alternate(s), Len(s) % 2 = 0
    PROVE  LET t == SubSeq(s, 1, Len(s) - 1)
           IN  t \in Seq(Roles) /\ Alternate(t) /\ Len(t) = Len(s) - 1
<1>1. Len(s) \in Nat /\ Len(s) > 1
    BY DEF Alternate
<1>2. QED
    BY <1>1 DEF Alternate

LEMMA NextRole ==
    ASSUME NEW n \in Nat, n > 0
    PROVE  /\ n % 2 # 0 => Role(n + 1) = "user" /\ (n + 1) % 2 = 0
           /\ n % 2 = 0 => /\ Role(n + 1) = "assistant"
                           /\ (n + 1) % 2 # 0 /\ (n - 1) % 2 # 0
BY DEF Role

LEMMA ChatOf ==
    ASSUME MessagesType, ChatsInv, NEW c \in Chats
    PROVE  /\ messages[c] \in Seq(Roles) /\ Len(messages[c]) \in Nat
           /\ Alternate(messages[c]) /\ Len(messages[c]) > 0
           /\ (Len(messages[c]) % 2 = 0) <=> Awaiting(c)
<1>1. messages[c] \in Seq(Roles) /\ Alternate(messages[c])
    BY DEF MessagesType, ChatsInv
<1>2. (Len(messages[c]) % 2 = 0) <=> Awaiting(c)
    BY Zenon DEF ChatsInv
<1>3. Len(messages[c]) \in Nat /\ Len(messages[c]) > 0
    BY <1>1 DEF Alternate
<1>4. QED
    BY <1>1, <1>2, <1>3, Zenon

(* One Chat changes and the parity of its messages is what it must be.     *)
LEMMA OneChat ==
    ASSUME MessagesType, ChatsInv, NEW k \in Chats, NEW t \in Seq(Roles),
           Alternate(t), messages' = [messages EXCEPT ![k] = t],
           Current = k, Current' = k, step = "reply" \/ step' = "reply",
           (Len(t) % 2 = 0) <=> (step' = "reply")
    PROVE  MessagesType' /\ ChatsInv'
<1>1. MessagesType'
    BY DEF MessagesType
<1>2. ASSUME NEW c \in Chats
      PROVE  /\ Alternate(messages'[c])
             /\ (Len(messages'[c]) % 2 = 0) <=> (step' = "reply" /\ c = k)
  <2>1. CASE c = k
    BY <2>1 DEF MessagesType
  <2>2. CASE c # k
    BY <2>2 DEF MessagesType, ChatsInv, Awaiting
  <2>3. QED
    BY <2>1, <2>2
<1>3. QED
    BY <1>1, <1>2 DEF ChatsInv, Awaiting

LEMMA StepChats ==
    ASSUME MessagesType, ScalarType, IdleInv, ChatsInv, [Next]_vars
    PROVE  MessagesType' /\ ChatsInv'
<1>0. Current \in Chats
    BY CurrentChat
<1>1. CASE Asks
  <2>1. /\ messages' = [messages EXCEPT ![Current] = Append(@, "user")]
        /\ step = "send" /\ step' = "reply" /\ UNCHANGED <<script, stage>>
    BY <1>1, AsksCurrent DEF Request
  <2>2. Current' = Current
    BY <2>1 DEF Current
  <2>3. /\ Len(messages[Current]) % 2 # 0 /\ Len(messages[Current]) \in Nat
        /\ Len(messages[Current]) > 0
    BY <1>0, <2>1, ChatOf, Zenon DEF Awaiting
  <2>4. /\ "user" = Role(Len(messages[Current]) + 1)
        /\ (Len(messages[Current]) + 1) % 2 = 0
    BY <2>3, NextRole
  <2>5. /\ Append(messages[Current], "user") \in Seq(Roles)
        /\ Alternate(Append(messages[Current], "user"))
        /\ Len(Append(messages[Current], "user")) = Len(messages[Current]) + 1
    BY <1>0, <2>4, AppendAlternates DEF ChatsInv, MessagesType, Roles
  <2>6. QED
    BY <1>0, <2>1, <2>2, <2>4, <2>5, OneChat
<1>2. CASE Replies
  <2>1. PICK to \in {"replied", "truncate"} :
            /\ \/ messages' = [messages EXCEPT ![Current] =
                                   Append(@, "assistant")]
               \/ messages' = Pop(Current)
            /\ step = "reply" /\ step' = to /\ UNCHANGED <<script, stage>>
    BY <1>2, RepliesCurrent DEF Reply
  <2>2. Current' = Current
    BY <2>1 DEF Current
  <2>3. /\ Len(messages[Current]) % 2 = 0 /\ Alternate(messages[Current])
        /\ messages[Current] \in Seq(Roles)
        /\ Len(messages[Current]) \in Nat /\ Len(messages[Current]) > 0
    BY <1>0, <2>1, ChatOf, Zenon DEF Awaiting
  <2>4. /\ Role(Len(messages[Current]) + 1) = "assistant"
        /\ (Len(messages[Current]) + 1) % 2 # 0
        /\ (Len(messages[Current]) - 1) % 2 # 0
    BY <2>3, NextRole
  <2>5. CASE messages' = [messages EXCEPT ![Current] = Append(@, "assistant")]
    <3>1. /\ Append(messages[Current], "assistant") \in Seq(Roles)
          /\ Alternate(Append(messages[Current], "assistant"))
          /\ Len(Append(messages[Current], "assistant"))
                 = Len(messages[Current]) + 1
      BY <2>3, <2>4, AppendAlternates DEF Roles
    <3>2. QED
      BY <1>0, <2>1, <2>2, <2>4, <2>5, <3>1, OneChat
  <2>6. CASE messages' = Pop(Current)
    <3> DEFINE t == SubSeq(messages[Current], 1, Len(messages[Current]) - 1)
    <3>1. t \in Seq(Roles) /\ Alternate(t) /\ Len(t) = Len(messages[Current]) - 1
      BY <2>3, PopAlternates
    <3>2. messages' = [messages EXCEPT ![Current] = t]
      BY <2>6 DEF Pop
    <3> HIDE DEF t
    <3>3. QED
      BY <1>0, <2>1, <2>2, <2>4, <3>1, <3>2, OneChat
  <2>7. QED
    BY <2>1, <2>5, <2>6
<1>3. CASE Ends
  <2>1. messages' = [c \in Chats |-> <<"system">>] /\ step' = "start"
    BY <1>3, EndsForget, Zenon DEF Forget, NoChat
  <2>2. <<"system">> \in Seq(Roles) /\ Alternate(<<"system">>)
        /\ Len(<<"system">>) = 1
    BY DEF Roles, Alternate, Role
  <2>3. QED
    BY <2>1, <2>2 DEF ChatsInv, Awaiting, MessagesType
<1>4. CASE Starts \/ ReasoningDecides \/ Acts \/ Saves \/ StageSucceeds
  <2>1. messages' = messages
    BY <1>4, MessagesKept
  <2>2. step # "reply" /\ step' # "reply"
    BY <1>4 DEF Starts, StartReasoning, StartGeneration, StartBackpropagation,
       ReasoningDecides, Acts, ActionAnswers, Answered, ActionCallsTools,
       ToolCall, Saves, TruncateST, TruncateCode, SavePrompts, WritePrompts,
       StageSucceeds, Reasoning, Propagating, IdleInv
  <2>3. QED
    BY <2>1, <2>2 DEF ChatsInv, Awaiting, MessagesType
<1>5. CASE UNCHANGED vars
    BY <1>5 DEF vars, ChatsInv, Awaiting, MessagesType, Current
<1> QED
    BY <1>1, <1>2, <1>3, <1>4, <1>5, StepsByKind

-----------------------------------------------------------------------------
(* The Action model: the tool calls that are not answered yet are those of *)
(* its last reply.                                                         *)

CallsAnswered(i, n) ==
    /\ i + talk[i].calls <= n + calls
    /\ \A j \in i + 1..i + talk[i].calls : j <= n => talk[j].role = "tool"
TalkInv ==
    step = "act" => \A i \in 1..Len(talk) :
                        talk[i].role = "assistant" => CallsAnswered(i, Len(talk))

LEMMA TurnType ==
    ASSUME NEW r \in {"system", "user", "assistant", "tool"},
           NEW k \in 0..MaxToolCalls
    PROVE  /\ [role |-> r, calls |-> k] \in Turn
           /\ [role |-> r, calls |-> k].role = r
           /\ [role |-> r, calls |-> k].calls = k
BY DEF Turn

(* A message of the Action model or of a tool is added at the end.         *)
LEMMA AppendTurn ==
    ASSUME TalkType, NEW m \in Turn
    PROVE  /\ Append(talk, m) \in Seq(Turn)
           /\ Len(talk) \in Nat /\ Len(Append(talk, m)) = Len(talk) + 1
           /\ Append(talk, m)[Len(talk) + 1] = m
           /\ \A i \in 1..Len(talk) : Append(talk, m)[i] = talk[i]
BY DEF TalkType

LEMMA TalkCalls ==
    ASSUME TalkType, NEW i \in 1..Len(talk)
    PROVE  talk[i].calls \in 0..MaxToolCalls
<1>1. talk[i] \in Turn
    BY DEF TalkType
<1>2. QED
    BY <1>1 DEF Turn

LEMMA StepTalk ==
    ASSUME TalkType, TalkInv, ScalarType, [Next]_vars
    PROVE  TalkType' /\ TalkInv'
<1> USE IterationsAssumption
<1>0. calls \in 0..MaxToolCalls
    BY DEF ScalarType
<1>1. CASE Starts \/ Asks \/ Replies \/ Saves \/ StageSucceeds
  <2>1. talk' = talk /\ step' # "act"
    BY <1>1, RepliesCurrent
    DEF Starts, StartReasoning, StartGeneration, StartBackpropagation,
        Asks, AskReasoning, AskCode, AskStage, Request, Reply,
        Saves, TruncateST, TruncateCode, SavePrompts, WritePrompts,
        StageSucceeds, action
  <2>2. QED
    BY <2>1 DEF TalkType, TalkInv
<1>2. CASE ReasoningDecides
  <2> DEFINE t == <<[role |-> "system", calls |-> 0],
                    [role |-> "user", calls |-> 0]>>
  <2>1. CASE step' = "truncate" /\ talk' = talk
    BY <2>1 DEF TalkType, TalkInv
  <2>2. CASE step' = "act" /\ talk' = t
    <3>1. /\ [role |-> "system", calls |-> 0] \in Turn
          /\ [role |-> "user", calls |-> 0] \in Turn
      BY TurnType
    <3>2. /\ t \in Seq(Turn) /\ Len(t) = 2
          /\ t[1] = [role |-> "system", calls |-> 0]
          /\ t[2] = [role |-> "user", calls |-> 0]
      BY <3>1
    <3>3. \A i \in 1..Len(t) : t[i].role # "assistant"
      BY <3>2
    <3>4. QED
      BY <2>2, <3>2, <3>3 DEF TalkType, TalkInv
  <2>3. QED
    BY <1>2, <2>1, <2>2 DEF ReasoningDecides
<1>3. CASE ActionAnswers
    BY <1>3 DEF ActionAnswers, Answered, TalkType, TalkInv
<1>4. CASE ActionCallsTools
  <2>1. PICK k \in 1..MaxToolCalls :
            /\ talk' = Append(talk, [role |-> "assistant", calls |-> k])
            /\ calls' = k
    BY <1>4 DEF ActionCallsTools
  <2>2. step = "act" /\ calls = 0
    BY <1>4 DEF ActionCallsTools, Reasoning
  <2> DEFINE m == [role |-> "assistant", calls |-> k]
  <2>3. m \in Turn /\ m.role = "assistant" /\ m.calls = k
    BY TurnType
  <2> HIDE DEF m
  <2>4. /\ talk' \in Seq(Turn) /\ Len(talk) \in Nat
        /\ Len(talk') = Len(talk) + 1 /\ talk'[Len(talk) + 1] = m
        /\ \A i \in 1..Len(talk) : talk'[i] = talk[i]
    BY <2>1, <2>3, AppendTurn DEF m
  <2>5. ASSUME NEW i \in 1..Len(talk'), talk'[i].role = "assistant"
        PROVE  CallsAnswered(i, Len(talk))'
    <3>1. CASE i = Len(talk) + 1
      BY <2>1, <2>3, <2>4, <3>1 DEF CallsAnswered
    <3>2. CASE i \in 1..Len(talk)
      <4>1. talk[i].calls \in 0..MaxToolCalls
        BY <3>2, TalkCalls
      <4>2. CallsAnswered(i, Len(talk)) /\ talk'[i] = talk[i]
        BY <2>2, <2>4, <2>5, <3>2 DEF TalkInv
      <4>3. i + talk[i].calls <= Len(talk)
        BY <2>2, <2>4, <4>1, <4>2 DEF CallsAnswered
      <4>4. ASSUME NEW j \in i + 1..i + talk[i].calls
            PROVE  talk'[j].role = "tool"
        <5>1. j \in 1..Len(talk) /\ j <= Len(talk)
          BY <2>4, <3>2, <4>1, <4>3
        <5>2. talk[j].role = "tool"
          BY <4>2, <5>1 DEF CallsAnswered
        <5>3. QED
          BY <2>4, <5>1, <5>2
      <4>5. QED
        BY <2>1, <2>4, <3>2, <4>1, <4>2, <4>3, <4>4 DEF CallsAnswered
    <3>3. QED
      BY <2>4, <3>1, <3>2
  <2>6. QED
    BY <2>4, <2>5 DEF TalkType, TalkInv
<1>5. CASE ToolCall
  <2> DEFINE m == [role |-> "tool", calls |-> 0]
  <2>1. /\ talk' = Append(talk, m) /\ calls' = calls - 1 /\ calls > 0
        /\ step = "act"
    BY <1>5 DEF ToolCall, ToolMessage, Reasoning
  <2>2. m \in Turn /\ m.role = "tool" /\ m.calls = 0
    BY TurnType
  <2> HIDE DEF m
  <2>3. /\ talk' \in Seq(Turn) /\ Len(talk) \in Nat
        /\ Len(talk') = Len(talk) + 1 /\ talk'[Len(talk) + 1] = m
        /\ \A i \in 1..Len(talk) : talk'[i] = talk[i]
    BY <2>1, <2>2, AppendTurn
  <2>4. ASSUME NEW i \in 1..Len(talk'), talk'[i].role = "assistant"
        PROVE  CallsAnswered(i, Len(talk))'
    <3>1. i \in 1..Len(talk)
      BY <2>2, <2>3, <2>4
    <3>2. talk[i].calls \in 0..MaxToolCalls
      BY <3>1, TalkCalls
    <3>3. CallsAnswered(i, Len(talk)) /\ talk'[i] = talk[i]
      BY <2>1, <2>3, <2>4, <3>1 DEF TalkInv
    <3>4. \A j \in i + 1..i + talk[i].calls :
              j <= Len(talk) + 1 => talk'[j].role = "tool"
      BY <2>2, <2>3, <3>1, <3>2, <3>3 DEF CallsAnswered
    <3>5. QED
      BY <1>0, <2>1, <2>3, <3>1, <3>2, <3>3, <3>4 DEF CallsAnswered
  <2>5. QED
    BY <2>3, <2>4 DEF TalkType, TalkInv
<1>6. CASE Ends
  <2>1. talk' = <<>> /\ step' = "start"
    BY <1>6, EndsForget, Zenon DEF Forget
  <2>2. QED
    BY <2>1 DEF TalkType, TalkInv
<1>7. CASE UNCHANGED vars
    BY <1>7 DEF vars, action, TalkType, TalkInv, CallsAnswered
<1> QED
    BY <1>1, <1>2, <1>3, <1>4, <1>5, <1>6, <1>7, StepsByKind DEF Acts

(* The inductive invariant behind TranscriptIsValid.                       *)
TranscriptInv ==
    /\ RoundsInv /\ IdleInv /\ ScalarType /\ FlagsType
    /\ MessagesType /\ ChatsInv
    /\ TalkType /\ TalkInv

LEMMA TranscriptFollows == TranscriptInv => TranscriptIsValid
<1> SUFFICES ASSUME TranscriptInv PROVE TranscriptIsValid
    OBVIOUS
<1>1. TypeOK
    BY TypeParts DEF TranscriptInv
<1>2. HistoryAlternates
  <2>1. ASSUME NEW c \in Chats, NEW i \in 1..Len(messages[c])
        PROVE  /\ messages[c][i] = Role(i)
               /\ i = Len(messages[c]) /\ i % 2 = 0 => step = "reply"
    BY <2>1, ChatOf DEF TranscriptInv, Alternate, Awaiting
  <2>2. QED
    BY <2>1 DEF HistoryAlternates, Role
<1>3. ToolCallsAnswered
  <2> SUFFICES ASSUME step = "act", calls = 0, NEW i \in 1..Len(talk),
                      talk[i].role = "assistant"
               PROVE  /\ i + talk[i].calls <= Len(talk)
                      /\ \A j \in i + 1..i + talk[i].calls :
                             talk[j].role = "tool"
    BY DEF ToolCallsAnswered
  <2>1. CallsAnswered(i, Len(talk)) /\ Len(talk) \in Nat
    BY DEF TranscriptInv, TalkInv, TalkType
  <2>2. talk[i].calls \in 0..MaxToolCalls
    BY TalkCalls DEF TranscriptInv
  <2>3. i + talk[i].calls <= Len(talk)
    BY <2>1, <2>2 DEF CallsAnswered
  <2>4. QED
    BY <2>1, <2>2, <2>3, IterationsAssumption DEF CallsAnswered
<1>4. QED
    BY <1>1, <1>2, <1>3 DEF TranscriptIsValid

LEMMA InitTranscript == Init => TranscriptInv
<1> SUFFICES ASSUME Init PROVE TranscriptInv
    OBVIOUS
<1>1. RoundsInv /\ IdleInv
    BY InitRounds DEF Init, IdleInv
<1>2. ScalarType
    BY IterationsAssumption, RunsAssumption DEF Init, ScalarType, Steps, Empty
<1>3. FlagsType
    BY DEF Init, FlagsType
<1>4. MessagesType /\ ChatsInv
  <2>1. <<"system">> \in Seq(Roles) /\ Alternate(<<"system">>)
        /\ Len(<<"system">>) = 1
    BY DEF Roles, Alternate, Role
  <2>2. messages = [c \in Chats |-> <<"system">>] /\ step = "start"
    BY DEF Init, NoChat
  <2>3. QED
    BY <2>1, <2>2 DEF ChatsInv, Awaiting, MessagesType
<1>5. TalkType /\ TalkInv
    BY DEF Init, TalkType, TalkInv
<1>6. QED
    BY <1>1, <1>2, <1>3, <1>4, <1>5 DEF TranscriptInv

(* At every request of every script the model is sent a conversation its   *)
(* API accepts: in each Chat the roles alternate and only the awaited Chat *)
(* ends in a request; every tool call of the Action model has its message. *)
THEOREM TranscriptsAreValid == Spec => []TranscriptIsValid
<1>1. TranscriptInv /\ [Next]_vars => TranscriptInv'
    BY StepRounds, StepIdle, StepScalarType, StepFlagsType, StepChats, StepTalk
    DEF TranscriptInv
<1>2. QED
    BY <1>1, InitTranscript, TranscriptFollows, PTL DEF Spec
=============================================================================
