-------------------------------- MODULE Fasst --------------------------------
(***************************************************************************)
(* FASST-LLM (code/): the three scripts that make and improve a scanner,   *)
(* run by hand in any order, one at a time, over four files:               *)
(*   Reasoning_ST.py     reads the reasoning prompt, writes the Scanning   *)
(*                       Tree; its Reasoning model may ask the Action      *)
(*                       model, which may call the document tools;         *)
(*   Generation_Code.py  reads the generation prompt and the Scanning      *)
(*                       Tree, writes the code;                            *)
(*   Backpropagation.py  reads all four, rewrites both prompts.            *)
(*                                                                         *)
(* A reply of a model is abstracted to the tags found in it; a prompt to   *)
(* the number of the Backpropagation run that wrote it.  A script can be   *)
(* killed at any point, and opening a file for writing empties it.         *)
(***************************************************************************)
EXTENDS Integers, Sequences

CONSTANTS
    MaxReasoning,       \* max_reasoning_iterations
    MaxTool,            \* max_tool_iterations
    MaxToolCalls,       \* bound: tool calls in one reply of the Action model
    MaxRuns             \* bound: how often Backpropagation.py is run

ASSUME IterationsAssumption ==
    MaxReasoning \in Nat \ {0} /\ MaxTool \in Nat /\ MaxToolCalls \in Nat
ASSUME RunsAssumption == MaxRuns \in Nat

Chats == {"reasoning", "code", "loss", "grad", "optimizer"}
Tags == {"ST", "Task", "Code", "Loss", "Grad", "Prompt"}
Empty == -1             \* a file that was opened for writing and not written

VARIABLES
    script, step,       \* the script that runs and where it is
    messages,           \* the roles of the messages of each Chat
    flag, result,       \* what sendMessage returned: the tags of the reply
    cnt, asked,         \* reasoning: rounds left, requests made
    tools,              \* reasoning: are document tools registered?
    iteration,          \* action: calls of the model made for this task
    talk,               \* action: roles and tool calls of its messages
    calls,              \* action: tool calls of the last reply left to do
    stage,              \* backpropagation: the stage it is at
    runs,               \* Backpropagation runs so far
    reasoning_prompt, generation_prompt, ST_file, code_file,
    cut                 \* was the last writer of prompts killed at it?

files == <<reasoning_prompt, generation_prompt, ST_file, code_file>>
action == <<iteration, talk, calls>>
reasoner == <<cnt, asked, tools>>
vars == <<script, step, messages, flag, result, reasoner, action, stage, runs,
          files, cut>>

NoChat == [c \in Chats |-> <<"system">>]

Init ==
    /\ script = "none" /\ step = "start"
    /\ messages = NoChat /\ flag = FALSE /\ result = {}
    /\ cnt = MaxReasoning /\ asked = 0 /\ tools = FALSE
    /\ iteration = 0 /\ talk = <<>> /\ calls = 0
    /\ stage = 1 /\ runs = 0
    /\ reasoning_prompt = 0 /\ generation_prompt = 0
    /\ ST_file = "missing" /\ code_file = "missing"
    /\ cut = FALSE

-----------------------------------------------------------------------------
(* The end of a script, by itself or by force; its memory is gone.         *)

Forget ==
    /\ script' = "none" /\ step' = "start"
    /\ messages' = NoChat /\ flag' = FALSE /\ result' = {}
    /\ cnt' = MaxReasoning /\ asked' = 0 /\ tools' = FALSE
    /\ iteration' = 0 /\ talk' = <<>> /\ calls' = 0
    /\ stage' = 1

Exit == Forget /\ UNCHANGED <<runs, files, cut>>

(* A kill, or an exception that no script catches: no answer, an answer    *)
(* that is not JSON, one with neither choices nor an error.                *)
Writing == {"writeReasoning", "truncateGeneration", "writeGeneration"}
Killed ==
    /\ script # "none"
    /\ Forget
    /\ cut' = (cut \/ step \in Writing)
    /\ UNCHANGED <<runs, files>>

-----------------------------------------------------------------------------
(* Chat.sendMessage: the request, and the reply or the error.              *)

NoPop(c) == messages                                            \* mutant
Pop(c) == [messages EXCEPT ![c] = SubSeq(@, 1, Len(@) - 1)]

Request(c) ==
    /\ messages' = [messages EXCEPT ![c] = Append(@, "user")]
    /\ step' = "reply"
    /\ UNCHANGED <<script, flag, result, action, stage, runs, files, cut>>

Reply(c, possible, to) ==
    /\ step = "reply"
    /\ \/ /\ messages' = [messages EXCEPT ![c] = Append(@, "assistant")]
          /\ flag' = TRUE /\ result' \in SUBSET possible
       \/ messages' = Pop(c) /\ flag' = FALSE /\ result' = {}
    /\ step' = to
    /\ UNCHANGED <<script, reasoner, action, stage, runs, files, cut>>

-----------------------------------------------------------------------------
(* Reasoning_ST.py and ReasoningModule.                                    *)

Reasoning(s) == script = "Reasoning_ST" /\ step = s

StartReasoning ==       \* initialize: without the server there are no tools
    /\ script = "none"
    /\ script' = "Reasoning_ST" /\ step' = "send"
    /\ tools' \in BOOLEAN
    /\ UNCHANGED <<messages, flag, result, cnt, asked, action, stage, runs,
                   files, cut>>

AskReasoning ==
    /\ Reasoning("send") /\ Request("reasoning")
    /\ asked' = asked + 1
    /\ UNCHANGED <<cnt, tools>>

ReasoningReply ==
    script = "Reasoning_ST" /\ Reply("reasoning", {"ST", "Task"}, "replied")

ReasoningFails ==       \* return None: the Scanning Tree is not written
    Reasoning("replied") /\ ~flag /\ Exit

LastRound == cnt < 1                                            \* mutant
RoundsUsed == cnt = 1   \* cnt -= 1 makes it 0

(* After the last round, or without a Task, the Scanning Tree is saved.    *)
ReasoningDecides ==
    /\ Reasoning("replied") /\ flag
    /\ cnt' = cnt - 1
    /\ IF RoundsUsed \/ "Task" \notin result
       THEN step' = "truncate" /\ UNCHANGED talk
       ELSE step' = "act" /\ talk' = <<[role |-> "system", calls |-> 0],
                                       [role |-> "user", calls |-> 0]>>
    /\ iteration' = 0 /\ calls' = 0
    /\ UNCHANGED <<script, messages, flag, result, asked, tools, stage, runs,
                   files, cut>>

TruncateST ==
    /\ Reasoning("truncate")
    /\ step' = "write" /\ ST_file' = "empty"
    /\ UNCHANGED <<script, messages, flag, result, reasoner, action, stage,
                   runs, reasoning_prompt, generation_prompt, code_file, cut>>

(* get_ST, the write, and stop.                                            *)
WriteST ==
    /\ Reasoning("write")
    /\ ST_file' = IF "ST" \in result THEN "ST" ELSE "NoST"
    /\ Forget
    /\ UNCHANGED <<runs, reasoning_prompt, generation_prompt, code_file, cut>>

-----------------------------------------------------------------------------
(* ACTIONLLM.process_task.                                                 *)

Answered ==             \* the answer becomes the next reasoning request
    /\ step' = "send" /\ iteration' = 0 /\ talk' = <<>>
    /\ UNCHANGED <<script, messages, flag, result, reasoner, calls, stage,
                   runs, files, cut>>

(* The request to the model fails, it answers without tool calls, or no    *)
(* iteration is left.                                                      *)
ActionAnswers == Reasoning("act") /\ calls = 0 /\ Answered

(* It asks for tools, which it can only if some are registered.            *)
IterationsLeft == iteration < MaxTool

ActionCallsTools ==
    /\ Reasoning("act") /\ calls = 0
    /\ tools /\ IterationsLeft
    /\ \E k \in 1..MaxToolCalls :
           /\ talk' = Append(talk, [role |-> "assistant", calls |-> k])
           /\ calls' = k
    /\ iteration' = iteration + 1
    /\ UNCHANGED <<script, step, messages, flag, result, reasoner, stage,
                   runs, files, cut>>

(* Each tool call gets one message: the result, or that the tool is not    *)
(* known, the arguments are no JSON, or the call failed.                   *)
ToolMessage == talk' = Append(talk, [role |-> "tool", calls |-> 0])

ToolCall ==
    /\ Reasoning("act") /\ calls > 0
    /\ ToolMessage
    /\ calls' = calls - 1
    /\ UNCHANGED <<script, step, messages, flag, result, reasoner, iteration,
                   stage, runs, files, cut>>

-----------------------------------------------------------------------------
(* Generation_Code.py.                                                     *)

StartGeneration ==
    /\ script = "none" /\ ST_file # "missing"
    /\ script' = "Generation_Code" /\ step' = "send"
    /\ UNCHANGED <<messages, flag, result, reasoner, action, stage, runs,
                   files, cut>>

AskCode == /\ script = "Generation_Code" /\ step = "send"
           /\ Request("code") /\ UNCHANGED reasoner

CodeReply == script = "Generation_Code" /\ Reply("code", {"Code"}, "truncate")

TruncateCode ==
    /\ script = "Generation_Code" /\ step = "truncate"
    /\ step' = "write" /\ code_file' = "empty"
    /\ UNCHANGED <<script, messages, flag, result, reasoner, action, stage,
                   runs, reasoning_prompt, generation_prompt, ST_file, cut>>

WriteCode ==            \* whatever the flag: the code, a reply or an error
    /\ script = "Generation_Code" /\ step = "write"
    /\ code_file' = IF "Code" \in result THEN "code" ELSE "text"
    /\ Forget
    /\ UNCHANGED <<runs, reasoning_prompt, generation_prompt, ST_file, cut>>

-----------------------------------------------------------------------------
(* Backpropagation.py: seven requests, then the two prompts.               *)

Stages == << [chat |-> "loss",      needs |-> "Loss"],      \* get_loss
             [chat |-> "grad",      needs |-> "Grad"],      \* code
             [chat |-> "grad",      needs |-> "Grad"],      \* generation prompt
             [chat |-> "grad",      needs |-> "Grad"],      \* Scanning Tree
             [chat |-> "grad",      needs |-> "Grad"],      \* reasoning prompt
             [chat |-> "optimizer", needs |-> "Prompt"],    \* reasoning prompt
             [chat |-> "optimizer", needs |-> "Prompt"] >>  \* generation prompt

Propagating(s) == script = "Backpropagation" /\ step = s

StartBackpropagation ==
    /\ script = "none" /\ runs < MaxRuns
    /\ ST_file # "missing" /\ code_file # "missing"
    /\ script' = "Backpropagation" /\ step' = "send" /\ runs' = runs + 1
    /\ UNCHANGED <<messages, flag, result, reasoner, action, stage, files,
                   cut>>

AskStage == /\ Propagating("send") /\ Request(Stages[stage].chat)
            /\ UNCHANGED reasoner

StageReply ==
    /\ script = "Backpropagation"
    /\ Reply(Stages[stage].chat, {Stages[stage].needs}, "replied")

StageFails ==           \* exit(0) without a usable reply
    Propagating("replied") /\ Stages[stage].needs \notin result /\ Exit

StagesDone == stage = 7

SaveAtOnce ==                                                   \* mutant
    /\ Propagating("replied") /\ Stages[stage].needs \in result
    /\ stage' = IF StagesDone THEN stage ELSE stage + 1
    /\ step' = IF StagesDone THEN "truncateReasoning" ELSE "send"
    /\ reasoning_prompt' = IF stage = 6 THEN runs ELSE reasoning_prompt
    /\ UNCHANGED <<script, messages, flag, result, reasoner, action, runs,
                   generation_prompt, ST_file, code_file, cut>>

StageSucceeds ==
    /\ Propagating("replied") /\ Stages[stage].needs \in result
    /\ stage' = IF StagesDone THEN stage ELSE stage + 1
    /\ step' = IF StagesDone THEN "truncateReasoning" ELSE "send"
    /\ UNCHANGED <<script, messages, flag, result, reasoner, action, runs,
                   files, cut>>

WritePrompts(from, to, rp, gp) ==
    /\ Propagating(from) /\ step' = to
    /\ reasoning_prompt' = rp /\ generation_prompt' = gp
    /\ cut' = (cut /\ to # "saved")
    /\ UNCHANGED <<script, messages, flag, result, reasoner, action, stage,
                   runs, ST_file, code_file>>

SavePrompts ==
    \/ WritePrompts("truncateReasoning", "writeReasoning", Empty,
                    generation_prompt)
    \/ WritePrompts("writeReasoning", "truncateGeneration", runs,
                    generation_prompt)
    \/ WritePrompts("truncateGeneration", "writeGeneration", reasoning_prompt,
                    Empty)
    \/ WritePrompts("writeGeneration", "saved", reasoning_prompt, runs)

BackpropagationEnds == Propagating("saved") /\ Exit

-----------------------------------------------------------------------------
Next == \/ StartReasoning \/ AskReasoning \/ ReasoningReply
        \/ ReasoningFails \/ ReasoningDecides \/ TruncateST \/ WriteST
        \/ ActionAnswers \/ ActionCallsTools \/ ToolCall
        \/ StartGeneration \/ AskCode \/ CodeReply \/ TruncateCode \/ WriteCode
        \/ StartBackpropagation \/ AskStage \/ StageReply \/ StageFails
        \/ StageSucceeds \/ SavePrompts \/ BackpropagationEnds
        \/ Killed

Spec == Init /\ [][Next]_vars

-----------------------------------------------------------------------------
(* Properties.                                                             *)

Steps == {"start", "send", "reply", "replied", "act", "truncate", "write",
          "truncateReasoning", "saved"} \cup Writing

(* Every variable has its type.                                            *)
TypeOK ==
    /\ script \in {"none", "Reasoning_ST", "Generation_Code",
                   "Backpropagation"}
    /\ step \in Steps
    /\ messages \in [Chats -> Seq({"system", "user", "assistant"})]
    /\ flag \in BOOLEAN /\ result \in SUBSET Tags
    /\ cnt \in 0..MaxReasoning /\ asked \in Nat /\ tools \in BOOLEAN
    /\ iteration \in 0..MaxTool /\ calls \in 0..MaxToolCalls
    /\ talk \in Seq([role : {"system", "user", "assistant", "tool"},
                     calls : 0..MaxToolCalls])
    /\ stage \in 1..7 /\ runs \in 0..MaxRuns
    /\ {reasoning_prompt, generation_prompt} \subseteq (0..MaxRuns) \cup {Empty}
    /\ ST_file \in {"missing", "empty", "ST", "NoST"}
    /\ code_file \in {"missing", "empty", "code", "text"}
    /\ cut \in BOOLEAN

(* Every request sent to a model is followed by its own reply, or is taken *)
(* back: get_Task and get_ST, and every later request of the same Chat,    *)
(* see a conversation in which user and assistant alternate.               *)
HistoryAlternates ==
    \A c \in Chats : \A i \in 1..Len(messages[c]) :
        /\ messages[c][i] = IF i = 1 THEN "system"
                            ELSE IF i % 2 = 0 THEN "user" ELSE "assistant"
        /\ i = Len(messages[c]) /\ i % 2 = 0 => step = "reply"

(* When the Action model is called again, every tool call of its replies   *)
(* has been answered by exactly one message, in place.                     *)
ToolCallsAnswered ==
    step = "act" /\ calls = 0 =>
        \A i \in 1..Len(talk) : talk[i].role = "assistant" =>
            /\ i + talk[i].calls <= Len(talk)
            /\ \A j \in i + 1..i + talk[i].calls : talk[j].role = "tool"

(* No reply of a model makes the scripts call one without end: at most     *)
(* MaxReasoning requests to the Reasoning model per run, at most MaxTool   *)
(* rounds of tools per task.                                               *)
CallsBounded ==
    /\ asked <= MaxReasoning
    /\ step = "send" /\ script = "Reasoning_ST" => asked + cnt = MaxReasoning
    /\ iteration <= MaxTool

(* The two prompts always come from the same Backpropagation run: one that *)
(* fails at any of its stages, or is killed before it starts to write,     *)
(* changes neither.                                                        *)
PromptsTogether ==
    ~cut /\ step \notin Writing => reasoning_prompt = generation_prompt

(* What a model is sent is a conversation its API accepts, at every        *)
(* request of every script: requests and replies alternate, and the tool   *)
(* messages answer the tool calls (Chat.get_response, Action.get_result).  *)
TranscriptIsValid == TypeOK /\ HistoryAlternates /\ ToolCallsAnswered
=============================================================================
