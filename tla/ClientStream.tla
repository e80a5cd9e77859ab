------------------------------ MODULE ClientStream ------------------------------
(***************************************************************************)
(* One streamed answer on its way from the provider to the client:         *)
(*   open-sse/utils/stream.js           the transform of one stream        *)
(*   open-sse/utils/streamHandler.js    stall timer, disconnects, errors   *)
(*   translator/response/openai-to-claude.js, openai-responses.js          *)
(*                                                                         *)
(* route says what is transformed into what:                               *)
(*   claude     OpenAI chunks into the content blocks of a Claude message  *)
(*   responses  OpenAI chunks into the items of a Responses stream         *)
(*   codex      a Responses stream handed on event by event                *)
(*   raw        a Responses stream handed on line by line (to codex-cli    *)
(*              and droid)                                                 *)
(*   openai     OpenAI chunks handed on line by line                       *)
(*                                                                         *)
(* The client is a machine that follows the events and notes what they     *)
(* break.  Blocks and items are numbers; an event of several blocks stands *)
(* for one event each, in any order.  Texts, names and usage are left out. *)
(* The provider sends one finish_reason and nothing but [DONE] after it,   *)
(* and think tags in chunks of their own; its last line may lack the       *)
(* newline, and is then left to the flush.                                 *)
(***************************************************************************)
EXTENDS Integers

CONSTANTS
    Tools,      \* indices of the tool calls of the answer
    MaxBlocks   \* bound: blocks of a Claude message

ASSUME StreamAssumption == Tools \subseteq Nat /\ MaxBlocks \in Nat

VARIABLES
    route,
    translator, \* state of the translator: Claude's or the Responses one
    client,     \* what the client has seen
    finished,   \* has the provider sent its finish_reason or terminal event, in a whole line?
    gotDone,    \* has it sent [DONE], in a whole line?
    terminalSeen, \* openAIResponsesTerminalSeen
    phase,      \* flowing; flushed: all is handed on; complete; broken; closed by the client
    doneSent,   \* streamDoneSent
    tails,      \* calls of onStreamComplete: usage and request record
    settled,    \* calls of trackPendingRequest(..., false)
    stallArmed,
    stale       \* has the stall timer aborted a stream that was over?

streamVars == <<route, translator, client, finished, gotDone, terminalSeen, phase, doneSent, tails,
                settled, stallArmed, stale>>

Routes == {"claude", "responses", "codex", "raw", "openai"}

\* The client speaks the format of the provider, which is Responses.
SameResponses == {"codex", "raw"}

\* STREAM_MODE.PASSTHROUGH: what comes is handed on in lines.
Passthrough == {"raw", "openai"}

Texts == {"none", "text", "<think>", "</think>"}

NoTool == [index |-> -1, id |-> FALSE, name |-> FALSE, args |-> FALSE]

\* A chunk brings reasoning, text and a piece of a tool call, each or none.
StreamChunks ==
    [think : BOOLEAN, content : Texts,
     tool : {NoTool} \cup [index : Tools, id : BOOLEAN, name : BOOLEAN, args : BOOLEAN],
     finish : BOOLEAN]
-----------------------------------------------------------------------------
(* The client. *)

Faults == {"late", "reopened", "delta on closed", "unknown stop", "stopped twice", "open at end",
           "begun twice"}

NewClient == [open |-> {}, closed |-> {}, begun |-> FALSE, ends |-> 0, failures |-> 0,
              dones |-> 0, faults |-> {}]

\* What an event breaks of the order begin, (start delta* stop)*, end.
Breaches(c, e) ==
    {f \in Faults :
        CASE f = "late"            -> c.ends > 0 /\ e.kind \in {"begin", "start", "delta", "stop", "end"}
          [] f = "reopened"        -> e.kind = "start" /\ e.blocks \cap (c.open \cup c.closed) # {}
          [] f = "delta on closed" -> e.kind = "delta" /\ ~(e.blocks \subseteq c.open)
          [] f = "unknown stop"    -> e.kind = "stop" /\ ~(e.blocks \subseteq c.open \cup c.closed)
          [] f = "stopped twice"   -> e.kind = "stop" /\ e.blocks \cap c.closed # {}
          [] f = "open at end"     -> e.kind = "end" /\ c.open # {}
          [] f = "begun twice"     -> e.kind = "begin" /\ c.begun}

\* Two ends are as bad as more.
Follow(c, e) ==
    [open |-> IF e.kind = "start" THEN c.open \cup e.blocks
              ELSE IF e.kind = "stop" THEN c.open \ e.blocks ELSE c.open,
     closed |-> IF e.kind = "stop" THEN c.closed \cup e.blocks ELSE c.closed,
     begun |-> c.begun \/ e.kind = "begin",
     ends |-> IF e.kind = "end" /\ c.ends < 2 THEN c.ends + 1 ELSE c.ends,
     failures |-> IF e.kind = "failure" THEN c.failures + 1 ELSE c.failures,
     dones |-> IF e.kind = "done" THEN c.dones + 1 ELSE c.dones,
     faults |-> c.faults \cup Breaches(c, e)]

Event(kind) == [kind |-> kind, blocks |-> {}]
-----------------------------------------------------------------------------
(* A translation in progress: the translator's state t, and the client c    *)
(* that is sent what has been translated so far.                            *)

Emit(p, kind, blocks) == [t |-> p.t, c |-> Follow(p.c, [kind |-> kind, blocks |-> blocks])]

Begin(p) == IF p.t.begun THEN p ELSE [Emit(p, "begin", {}) EXCEPT !.t.begun = TRUE]

(* openaiToClaudeResponse *)

ClaudeStart ==
    [begun |-> FALSE, thinking |-> 0, text |-> 0, tools |-> [i \in Tools |-> 0], buffered |-> {},
     next |-> 0]

\* stopThinkingBlock, stopTextBlock: part is "thinking" or "text".
StopBlock(p, part) ==
    IF p.t[part] = 0 THEN p ELSE [Emit(p, "stop", {p.t[part]}) EXCEPT !.t[part] = 0]

\* Blocks are counted from 1: 0 means that none is open.
WriteBlock(p, part) ==
    LET q == IF p.t[part] # 0 THEN p
             ELSE [Emit(p, "start", {p.t.next + 1}) EXCEPT !.t[part] = p.t.next + 1,
                                                         !.t.next = @ + 1]
    IN Emit(q, "delta", {q.t[part]})

ClaudeReasoning(p, c) == IF c.think THEN WriteBlock(StopBlock(p, "text"), "thinking") ELSE p

ClaudeText(p, c) ==
    IF c.content = "none" THEN p ELSE WriteBlock(StopBlock(p, "thinking"), "text")

\* Mutant: every chunk with an id opens a block.
OpensToolAlways(t, tool) == tool.id

\* Some providers repeat the id on every chunk of the arguments.
OpensTool(t, tool) == tool.id /\ t.tools[tool.index] = 0

ClaudeTool(p, c) ==
    IF c.tool = NoTool THEN p
    ELSE LET i == c.tool.index
             q == IF ~OpensTool(p.t, c.tool) THEN p
                  ELSE LET s == StopBlock(StopBlock(p, "thinking"), "text") IN
                       [Emit(s, "start", {s.t.next + 1}) EXCEPT !.t.tools[i] = s.t.next + 1,
                                                              !.t.next = @ + 1]
         IN IF c.tool.args /\ q.t.tools[i] # 0 THEN [q EXCEPT !.t.buffered = @ \cup {i}] ELSE q

BlocksOf(t, calls) == {t.tools[i] : i \in calls}

\* The blocks that are open are closed, those of the calls after their arguments,
\* which are sent in one piece.
ClaudeFinish(p, c) ==
    IF ~c.finish THEN p
    ELSE LET q == StopBlock(StopBlock(p, "thinking"), "text")
             opened == {i \in Tools : q.t.tools[i] # 0}
             r == Emit(q, "delta", BlocksOf(q.t, opened \cap q.t.buffered))
         IN Emit(Emit(r, "stop", BlocksOf(r.t, opened)), "end", {})

ClaudeChunk(p, c) == ClaudeFinish(ClaudeTool(ClaudeText(ClaudeReasoning(Begin(p), c), c), c), c)
-----------------------------------------------------------------------------
(* openaiToOpenAIResponsesResponse *)

Reasoning == 1
Message == 2
ToolItem(i) == 3 + i

ResponsesStart ==
    [begun |-> FALSE, added |-> {}, done |-> {}, inThinking |-> FALSE, ids |-> {}, names |-> {},
     completed |-> FALSE]

AddItem(p, item) ==
    IF item \in p.t.added THEN p ELSE [Emit(p, "start", {item}) EXCEPT !.t.added = @ \cup {item}]

\* closeReasoning, closeMessage
CloseItem(p, item) ==
    IF item \notin p.t.added \ p.t.done THEN p
    ELSE [Emit(p, "stop", {item}) EXCEPT !.t.done = @ \cup {item}]

\* closeToolCall asks for the id of the call only, not whether it was announced.
CloseTools(p) ==
    LET items == {ToolItem(i) : i \in p.t.ids} \ p.t.done
    IN  IF items = {} THEN p ELSE [Emit(p, "stop", items) EXCEPT !.t.done = @ \cup items]

CompleteResponse(p) ==
    IF p.t.completed THEN p ELSE [Emit(p, "end", {}) EXCEPT !.t.completed = TRUE]

\* What a finish_reason and flushEvents have in common.
CloseResponse(p) == CompleteResponse(CloseTools(CloseItem(CloseItem(p, Message), Reasoning)))

ResponsesReasoning(p, c) == IF c.think THEN Emit(AddItem(p, Reasoning), "delta", {Reasoning}) ELSE p

ResponsesContent(p, c) ==
    CASE c.content = "none"     -> p
      [] c.content = "<think>"  -> AddItem([p EXCEPT !.t.inThinking = TRUE], Reasoning)
      [] c.content = "</think>" -> [CloseItem(p, Reasoning) EXCEPT !.t.inThinking = FALSE]
      [] c.content = "text"     -> LET item == IF p.t.inThinking THEN Reasoning ELSE Message
                                   IN Emit(AddItem(p, item), "delta", {item})

\* A call is announced once its id and its name are known.
ResponsesTool(p, c) ==
    IF c.tool = NoTool THEN p
    ELSE LET i == c.tool.index
             q == [CloseItem(p, Message) EXCEPT
                       !.t.ids = IF c.tool.id THEN @ \cup {i} ELSE @,
                       !.t.names = IF c.tool.name THEN @ \cup {i} ELSE @]
             r == IF i \in q.t.ids \cap q.t.names THEN AddItem(q, ToolItem(i)) ELSE q
         IN IF c.tool.args /\ ToolItem(i) \in r.t.added THEN Emit(r, "delta", {ToolItem(i)}) ELSE r

\* Text inside think tags ends the call: tools and finish of that chunk are dropped.
ResponsesChunk(p, c) ==
    LET q == ResponsesContent(ResponsesReasoning(Begin(p), c), c)
        r == ResponsesTool(q, c)
    IN IF c.content = "text" /\ q.t.inThinking THEN q
       ELSE IF c.finish THEN CloseResponse(r) ELSE r

\* flushEvents
ResponsesFlush(p) == IF p.t.completed THEN p ELSE CloseResponse(p)
-----------------------------------------------------------------------------
(* The stream. *)

StreamTypeOK ==
    /\ route \in Routes
    /\ client.faults \subseteq Faults
    /\ client.ends \in 0 .. 2
    /\ client.failures \in 0 .. 2
    /\ client.dones \in 0 .. 2
    /\ {finished, gotDone, terminalSeen, doneSent, stallArmed, stale} \subseteq BOOLEAN
    /\ phase \in {"flowing", "flushed", "complete", "broken", "closed"}
    /\ tails \in Nat
    /\ settled \in Nat

\* initState, pipeWithDisconnect
StreamInit ==
    /\ route \in Routes
    /\ translator = IF route = "claude" THEN ClaudeStart ELSE ResponsesStart
    /\ client = NewClient
    /\ phase = "flowing"
    /\ stallArmed = TRUE
    /\ tails = 0
    /\ settled = 0
    /\ finished = FALSE /\ gotDone = FALSE /\ terminalSeen = FALSE /\ doneSent = FALSE /\ stale = FALSE

\* Mutant: the tail runs as often as it is called.
FinalizeAgain == tails' = tails + 1

\* finalizeStream runs once.
FinalizeStream == tails' = IF tails = 0 THEN 1 ELSE tails

Translation == [t |-> translator, c |-> client]

Translate(p) == translator' = p.t /\ client' = p.c

Tell(kind, due) == client' = IF due THEN Follow(client, Event(kind)) ELSE client

\* A chunk of an OpenAI stream is translated, or handed on as it is.
TransformChunk(c) ==
    /\ phase = "flowing" /\ ~finished /\ ~gotDone
    /\ stallArmed' = TRUE
    /\ finished' = c.finish
    /\ \/ /\ route = "claude" /\ translator.next + 3 <= MaxBlocks
          /\ Translate(ClaudeChunk(Translation, c))
       \/ /\ route = "responses"
          /\ Translate(ResponsesChunk(Translation, c))
       \/ /\ route = "openai"
          /\ Tell("end", c.finish)
          /\ UNCHANGED translator
    /\ UNCHANGED <<route, gotDone, terminalSeen, phase, doneSent, tails, settled, stale>>

\* An event of a Responses stream, with its framing or as it is.  Clients close the
\* stream on a terminal event: the tail is run before they can.
PassEvent(terminal) ==
    /\ phase = "flowing" /\ route \in SameResponses /\ ~gotDone
    /\ stallArmed' = TRUE
    /\ Tell("end", terminal)
    /\ finished' = (finished \/ terminal)
    /\ terminalSeen' = (terminalSeen \/ (terminal /\ route = "codex"))
    /\ IF terminal \/ terminalSeen THEN FinalizeStream ELSE UNCHANGED tails
    /\ UNCHANGED <<route, translator, gotDone, phase, doneSent, settled, stale>>

\* The failure a Responses client is told of when there was no terminal event.
MissingTerminal(c) == IF terminalSeen THEN c ELSE Follow(c, Event("failure"))

MissingDone(c) == IF doneSent THEN c ELSE Follow(c, Event("done"))

\* The line data: [DONE].
TransformDone ==
    /\ phase = "flowing" /\ ~gotDone
    /\ gotDone' = TRUE
    /\ stallArmed' = TRUE
    /\ CASE route = "codex"  -> client' = MissingDone(MissingTerminal(client))
         [] route \in Passthrough -> Tell("done", TRUE)
         [] OTHER            -> UNCHANGED client
    /\ doneSent' = (doneSent \/ route \notin Passthrough)
    /\ terminalSeen' = (terminalSeen \/ route = "codex")
    /\ UNCHANGED <<route, translator, finished, phase, tails, settled, stale>>

\* The flush of the tap, then that of the transform, whose translation has come to
\* p.  In passthrough the rest of a line is handed on without a newline: [DONE], put
\* behind it, is no line of its own, and the client reads neither.
Flush(p, rest) ==
    /\ phase = "flowing"
    /\ phase' = "flushed"
    /\ stallArmed' = FALSE
    /\ settled' = settled + 1
    /\ CASE route = "responses" -> Translate(ResponsesFlush(p))
         [] route = "claude"    -> Translate(p)
         [] route = "codex"     -> Translate([p EXCEPT !.c = MissingDone(MissingTerminal(p.c))])
         [] OTHER -> Translate(IF rest THEN p ELSE [p EXCEPT !.c = MissingDone(p.c)])
    /\ terminalSeen' = (terminalSeen \/ route = "codex")
    /\ doneSent' = (doneSent \/ route = "codex")
    /\ FinalizeStream
    /\ UNCHANGED <<route, finished, gotDone, stale>>

\* The provider is through, at the end of a line or not.  A last line that is cut
\* off or [DONE] is not translated, a chunk is, and an event of a Responses stream
\* is sent on without a look at whether it is a terminal one.
ProviderEnds ==
    \/ \E rest \in BOOLEAN : Flush(Translation, rest)
    \/ \E c \in StreamChunks :
         /\ ~finished /\ ~gotDone
         /\ \/ route = "claude" /\ translator.next + 3 <= MaxBlocks
               /\ Flush(ClaudeChunk(Translation, c), TRUE)
            \/ route = "responses" /\ Flush(ResponsesChunk(Translation, c), TRUE)
    \/ /\ route = "codex" /\ ~gotDone
       /\ Flush([Translation EXCEPT !.c = Follow(client, Event("end"))], TRUE)

\* The reader gets to the end: handleComplete.
Complete ==
    /\ phase = "flushed"
    /\ phase' = "complete"
    /\ stallArmed' = FALSE
    /\ UNCHANGED <<route, translator, client, finished, gotDone, terminalSeen, doneSent, tails,
                   settled, stale>>

\* handleError, and the end of the reader: onAbortTerminal tells a Responses
\* client of a failure, whatever it has been told before; an AbortError settles
\* nothing.
HandleError(aborted) ==
    /\ phase' = "broken"
    /\ settled' = IF aborted THEN settled ELSE settled + 1
    /\ client' = IF route \in SameResponses THEN Follow(Follow(client, Event("failure")), Event("done"))
                 ELSE client

\* The provider's connection breaks, or its request is aborted.
UpstreamBreaks ==
    /\ phase = "flowing"
    /\ stallArmed' = FALSE
    /\ \E aborted \in BOOLEAN : HandleError(aborted)
    /\ UNCHANGED <<route, translator, finished, gotDone, terminalSeen, doneSent, tails, stale>>

\* The stall timer aborts the upstream request.
StallFires ==
    /\ stallArmed
    /\ stallArmed' = FALSE
    /\ stale' = (phase # "flowing")
    /\ IF phase = "flowing" THEN HandleError(FALSE) ELSE UNCHANGED <<phase, settled, client>>
    /\ UNCHANGED <<route, translator, finished, gotDone, terminalSeen, doneSent, tails>>

\* cancel, handleDisconnect
ClientCloses ==
    /\ phase \in {"flowing", "flushed"}
    /\ phase' = "closed"
    /\ stallArmed' = FALSE
    /\ settled' = settled + 1
    /\ UNCHANGED <<route, translator, client, finished, gotDone, terminalSeen, doneSent, tails, stale>>

StreamNext ==
    \/ \E c \in StreamChunks : TransformChunk(c)
    \/ \E terminal \in BOOLEAN : PassEvent(terminal)
    \/ TransformDone
    \/ ProviderEnds
    \/ Complete
    \/ UpstreamBreaks
    \/ StallFires
    \/ ClientCloses
-----------------------------------------------------------------------------
(* Properties *)

\* Whatever order reasoning, text, tags and pieces of tool calls come in, a
\* Claude client sees blocks that open, get their deltas and close, each once,
\* and nothing open at the end of the message.  A Responses client sees every
\* item that is announced closed once before the response is completed; deltas
\* for an item already closed are known to happen there, as are closed calls
\* that were never announced.
StreamIsWellFormed ==
    /\ route = "claude" => client.faults = {}
    /\ route = "responses" => client.faults \subseteq {"delta on closed", "unknown stop"}

\* The tail of a stream (usage, request record) never runs twice, and it has run
\* when a terminal event has come, after which a Responses client closes, or the
\* stream is read to its end; one that breaks or is closed before has none.  A
\* stream that is read to its end leaves the pending counter once.  Its Responses
\* client, if events are translated, is told of one [DONE], and of a failure if and
\* only if no terminal event has come in a whole line.  The stall timer aborts no
\* stream that is over.
EndIsOrderly ==
    /\ tails <= 1
    /\ phase = "complete" => tails = 1 /\ settled = 1
    /\ route \in SameResponses /\ finished => tails = 1
    /\ route = "codex" /\ phase = "complete" =>
           client.dones = 1 /\ client.failures = (IF finished THEN 0 ELSE 1)
    /\ route = "responses" /\ phase = "complete" => client.ends = 1
    /\ ~stale

StreamSpec == StreamInit /\ [][StreamNext]_streamVars
=============================================================================
