------------------------------ MODULE ModelCall ------------------------------
(***************************************************************************)
(* One call of the model: the request is checked and sent, the reply comes  *)
(* whole or in frames, a failed try is repeated when repeating may help,    *)
(* and a host shows the answer while it arrives.                           *)
(*                                                                         *)
(*   base/reasoning.py        _call_llm, _call_llm_stream, _with_retries     *)
(*   base/clients.py          CoreChatCompletionClient.run                   *)
(*   capabilities/clients/    OpenAI, OpenRouter and Ollama                  *)
(*   errors/client.py         which errors are worth another try             *)
(*   cli/app.py               the answer on the screen                       *)
(***************************************************************************)
EXTENDS Naturals, Sequences, FiniteSets, SequencesExt

CONSTANTS
    Providers,    \* subset of {"openai", "openrouter", "ollama"}
    MaxTries,     \* max_connection_retries + 1
    MaxFrames     \* bound: frames of one reply

ASSUME ModelCallAssumption ==
    /\ Providers \subseteq {"openai", "openrouter", "ollama"}
    /\ MaxTries \in Nat \ {0} /\ MaxFrames \in Nat

VARIABLES
    provider, features,   \* the client and what its model supports
    request,              \* what is asked: media, tools, streaming
    callState,            \* "new", "asking", "open", or how the call ended
    try,                  \* number of the try, from 1
    sent,                 \* frames the provider sent in this try
    toolParts,            \* OpenAI's pieces of tool calls, by index
    gathered,             \* what the streaming call has put together
    screen,               \* what a host that follows the events shows
    reply,                \* the message that is recorded
    recovered,            \* a middleware answered for the model
    hopeless              \* a try failed in a way that repeating can not help

modelCallVars == <<provider, features, request, callState, try, sent, toolParts, gathered, screen,
                   reply, recovered, hopeless>>

-----------------------------------------------------------------------------
NoReply == [text |-> <<>>, thinking |-> <<>>, calls |-> <<>>]
EmptyScreen == [answer |-> <<>>, thinking |-> <<>>, open |-> FALSE]
NoParts == [i \in 1..2 |-> [id |-> <<>>, named |-> FALSE, arguments |-> <<>>, begun |-> FALSE]]

CallOver == {"answered", "raised", "cancelled"}

ModelCallTypeOK ==
    /\ provider \in Providers /\ callState \in {"new", "asking", "open"} \cup CallOver
    /\ try \in 1..MaxTries /\ Len(sent) <= MaxFrames
    /\ recovered \in BOOLEAN /\ hopeless \in BOOLEAN

ModelCallInit ==
    /\ provider \in Providers /\ features \in {{}, {"vision", "audio", "tools"}}
    /\ request \in [media : {"text", "image", "image_url", "audio", "file"},
                    tools : BOOLEAN, streaming : BOOLEAN]
    /\ callState = "new" /\ try = 1 /\ sent = <<>> /\ toolParts = NoParts
    /\ gathered = NoReply /\ screen = EmptyScreen /\ reply = NoReply
    /\ recovered = FALSE /\ hopeless = FALSE

-----------------------------------------------------------------------------
(* Errors.                                                                 *)

\* What can go wrong outside, with the status of the answer, 0 without one.
Status == [auth |-> 401, bad_request |-> 400, not_found |-> 404, rate_limit |-> 429,
           server |-> 500, connection |-> 0, timeout |-> 0, cut |-> 0]

ClientError(kind, status) == [kind |-> kind, status |-> status]

\* Ollama knows errors with a status; everything else is unexpected to it.
OllamaError(failure) ==
    ClientError(IF Status[failure] > 0 THEN "api_error" ELSE "unexpected", Status[failure])

\* A stream that breaks is no error of the SDK's own.
OpenAIError(failure) ==
    CASE failure = "auth"        -> ClientError("authentication", 0)
      [] failure = "rate_limit"  -> ClientError("rate_limit", 429)
      [] failure = "timeout"     -> ClientError("timeout", 0)
      [] failure = "bad_request" -> ClientError("invalid_request", 0)
      [] failure = "cut"         -> ClientError("unexpected", 0)
      [] OTHER                   -> ClientError("api_error", Status[failure])

\* OpenRouter also answers 200 with an error in the body, or in a frame.
BodyError(failure) ==
    IF failure = "rate_limit" THEN ClientError("rate_limit", 429) ELSE ClientError("api_error", Status[failure])

Transient(error) ==
    /\ error.kind \in {"rate_limit", "timeout", "stream_interrupted", "api_error", "provider"}
    /\ error.status \in 400..499 => error.status \in {408, 409, 429}

\* What a client does not even send: its error has a kind of its own, and no
\* status.
ToolsRefused == request.tools /\ "tools" \notin features
OllamaRefuses ==
    \/ request.media = "image" /\ "vision" \notin features
    \/ request.media = "audio" /\ "audio" \notin features
    \/ request.media \in {"image_url", "file"}
OpenAIRefuses ==
    \/ request.media \in {"image", "image_url"} /\ "vision" \notin features
    \/ request.media \in {"audio", "file"}
RequestRefused == ToolsRefused \/ IF provider = "ollama" THEN OllamaRefuses ELSE OpenAIRefuses

-----------------------------------------------------------------------------
(* The host's screen.                                                      *)

Shows(kind, piece) ==
    IF kind = "text"
    THEN [screen EXCEPT !.answer = Append(@, piece), !.open = FALSE]
    ELSE [screen EXCEPT !.thinking = Append(@, piece), !.open = TRUE]

\* Slip: the answer of the failed try stays.
KeptOnScreen == screen

\* The answer goes, and the thinking unless an answer has closed its block.
Discarded == [screen EXCEPT !.answer = <<>>, !.thinking = IF screen.open THEN <<>> ELSE @, !.open = FALSE]

-----------------------------------------------------------------------------
(* Tries.                                                                  *)

\* A try failed: another one, or a middleware's answer, or the error.
TryFails(error) ==
    /\ hopeless' = (hopeless \/ ~Transient(error))
    /\ \/ /\ Transient(error) /\ try < MaxTries
          /\ try' = try + 1 /\ callState' = "asking"
          /\ screen' = IF gathered.text \o gathered.thinking # <<>> THEN Discarded ELSE screen
          /\ UNCHANGED <<reply, recovered>>
       \/ /\ ~(Transient(error) /\ try < MaxTries)
          /\ \/ callState' = "answered" /\ recovered' = TRUE /\ reply' = NoReply
             \/ callState' = "raised" /\ UNCHANGED <<recovered, reply>>
          /\ UNCHANGED <<try, screen>>
    /\ UNCHANGED <<provider, features, request, sent, toolParts, gathered>>

\* The request hooks of the middlewares may raise; then nothing is sent.
PrepareCall ==
    /\ callState = "new" /\ callState' \in {"asking", "raised"}
    /\ UNCHANGED <<provider, features, request, try, sent, toolParts, gathered, screen, reply,
                   recovered, hopeless>>

\* A try begins with nothing gathered.
BeginTry ==
    /\ callState = "asking" /\ ~RequestRefused
    /\ callState' = "open" /\ sent' = <<>> /\ toolParts' = NoParts /\ gathered' = NoReply
    /\ UNCHANGED <<provider, features, request, try, screen, reply, recovered, hopeless>>

RefuseRequest ==
    /\ callState = "asking" /\ RequestRefused /\ TryFails(ClientError("generic", 0))

\* The request fails, or the stream breaks: some frames may have arrived.
ProviderFails(failure) ==
    /\ callState = "open" /\ failure \in DOMAIN Status
    /\ sent # <<>> => failure \in {"cut", "timeout", "server", "rate_limit"}
    /\ TryFails(IF provider = "ollama" THEN OllamaError(failure) ELSE OpenAIError(failure))

BodyFails(failure) ==
    /\ provider = "openrouter" /\ callState = "open"
    /\ failure \in {f \in DOMAIN Status : Status[f] > 0}
    /\ TryFails(BodyError(failure))

\* A whole reply without a choice.
EmptyResponse ==
    /\ callState = "open" /\ ~request.streaming /\ sent = <<>> /\ provider # "ollama"
    /\ TryFails(ClientError("invalid_response", 0))

CancelCall ==
    /\ callState \in {"new", "asking", "open"} /\ callState' = "cancelled"
    /\ UNCHANGED <<provider, features, request, try, sent, toolParts, gathered, screen, reply,
                   recovered, hopeless>>

-----------------------------------------------------------------------------
(* Frames.  A piece is named by its try and its place.  Without streaming   *)
(* the provider composes its reply and the client sees it at the end.       *)

Piece == <<try, Len(sent) + 1>>

FrameComes(frame) ==
    /\ callState = "open" /\ Len(sent) < MaxFrames
    /\ sent' = Append(sent, frame)
    /\ UNCHANGED <<provider, features, request, callState, try, reply, recovered, hopeless>>

\* Text or thinking: gathered, and shown at once.
TextFrame(kind) ==
    /\ kind = "thinking" => provider # "openai"
    /\ FrameComes([kind |-> kind, piece |-> Piece])
    /\ IF request.streaming
       THEN /\ gathered' = [gathered EXCEPT ![kind] = Append(@, Piece)]
            /\ screen' = Shows(kind, Piece)
       ELSE UNCHANGED <<gathered, screen>>
    /\ UNCHANGED toolParts

\* A call has the id its provider gave it, or one the client makes up.
Given(n) == <<"given", n>>
MadeUp(n) == <<"made up", n>>

\* The accumulator of the reasoning layer merges fragments of one id.
Merged(calls, fragment) ==
    IF \E k \in DOMAIN calls : calls[k].id = fragment.id
    THEN [k \in DOMAIN calls |->
            IF calls[k].id = fragment.id
            THEN [calls[k] EXCEPT !.arguments = @ \o fragment.arguments] ELSE calls[k]]
    ELSE Append(calls, fragment)

\* OpenAI: a piece of the call with this index, with or without id and name.
ToolFrame(index, id, named) ==
    /\ provider # "ollama" /\ request.tools
    /\ FrameComes([kind |-> "tool", index |-> index, id |-> id, named |-> named, piece |-> Piece])
    /\ IF request.streaming
       THEN toolParts' = [toolParts EXCEPT ![index] =
               [id |-> IF id = <<>> THEN @.id ELSE id, named |-> @.named \/ named,
                arguments |-> Append(@.arguments, Piece), begun |-> TRUE]]
       ELSE UNCHANGED toolParts
    /\ UNCHANGED <<gathered, screen>>

Fragment(id, arguments) == [id |-> id, arguments |-> arguments]

\* Ollama: a call comes in one frame and never with an id.
WholeCall ==
    /\ provider = "ollama" /\ request.tools
    /\ LET index == Cardinality({i \in DOMAIN sent : sent[i].kind = "tool"}) + 1
       IN  /\ FrameComes([kind |-> "tool", index |-> index, id |-> <<>>, named |-> TRUE, piece |-> Piece])
           /\ gathered' = IF request.streaming
                          THEN [gathered EXCEPT !.calls = Merged(@, Fragment(MadeUp(index), <<Piece>>))]
                          ELSE gathered
    /\ UNCHANGED <<toolParts, screen>>

-----------------------------------------------------------------------------
(* The end of a reply.                                                     *)

\* OpenAI's calls are handed on at the end, by index, those with a name.
HandOn(calls, i) ==
    LET part == toolParts[i]
    IN  IF part.named
        THEN Merged(calls, Fragment(IF part.id = <<>> THEN MadeUp(i) ELSE part.id, part.arguments))
        ELSE calls

HandedOn == HandOn(HandOn(gathered.calls, 1), 2)

\* The pieces of the frames at some places, in their order.
PiecesAt(frames, places) ==
    LET pieces[n \in 0..Len(frames)] ==
            IF n = 0 THEN <<>>
            ELSE IF n \in places THEN Append(pieces[n - 1], frames[n].piece) ELSE pieces[n - 1]
    IN  pieces[Len(frames)]

TextsOf(frames, kind) == PiecesAt(frames, {n \in DOMAIN frames : frames[n].kind = kind})
PiecesOf(kind) == TextsOf(sent, kind)

\* The call that the frames with an index make up.
PartsOf(frames, i) == {n \in DOMAIN frames : frames[n].kind = "tool" /\ frames[n].index = i}
Named(frames, i) == \E n \in PartsOf(frames, i) : frames[n].named
WithId(frames, i) == {n \in PartsOf(frames, i) : frames[n].id # <<>>}

CallOf(frames, i) ==
    Fragment(IF WithId(frames, i) = {} THEN MadeUp(i) ELSE frames[Max(WithId(frames, i))].id,
             PiecesAt(frames, PartsOf(frames, i)))

\* Every call as it is, by index, those with a name.
CallsOf(frames) ==
    LET made[i \in 0..MaxFrames + 2] ==
            IF i = 0 THEN <<>>
            ELSE IF Named(frames, i) THEN Append(made[i - 1], CallOf(frames, i)) ELSE made[i - 1]
    IN  made[MaxFrames + 2]

\* A reply that comes whole.
Parsed == [text |-> PiecesOf("text"), thinking |-> PiecesOf("thinking"), calls |-> CallsOf(sent)]

\* The stream closes, after its last frame or too early: the client can not
\* tell and makes a final chunk.  A middleware may drop that one too, and then
\* there was no reply.
StreamEnds ==
    /\ callState = "open" /\ request.streaming
    /\ \/ /\ reply' = [gathered EXCEPT !.calls = HandedOn] /\ callState' = "answered"
          /\ UNCHANGED <<provider, features, request, try, sent, toolParts, gathered, screen,
                         recovered, hopeless>>
       \/ TryFails(ClientError("stream_interrupted", 0))

WholeReply ==
    /\ callState = "open" /\ ~request.streaming
    /\ reply' = Parsed /\ callState' = "answered"
    /\ UNCHANGED <<provider, features, request, try, sent, toolParts, gathered, screen, recovered,
                   hopeless>>

ModelCallNext ==
    \/ PrepareCall \/ BeginTry \/ RefuseRequest \/ EmptyResponse \/ CancelCall
    \/ \E failure \in DOMAIN Status : ProviderFails(failure) \/ BodyFails(failure)
    \/ \E kind \in {"text", "thinking"} : TextFrame(kind)
    \/ \E index \in 1..2, id \in {<<>>, Given(1), Given(2)}, named \in BOOLEAN : ToolFrame(index, id, named)
    \/ WholeCall \/ StreamEnds \/ WholeReply

ModelCallSpec == ModelCallInit /\ [][ModelCallNext]_modelCallVars

-----------------------------------------------------------------------------
\* However the frames of several calls are mixed and whichever tries failed
\* half way: the recorded reply is exactly what the provider sent in the last
\* try, call by call (as long as it gives different calls different ids); a
\* host that follows the events never shows text of a try that failed, and at
\* the end shows the recorded text; and no request is sent again after an
\* error that says it would fail the same way.
ReplyFaithful ==
    LET ids(i)   == {sent[n].id : n \in WithId(sent, i)}
        distinct == ids(1) \cap ids(2) = {}
    IN  /\ callState = "answered" /\ ~recovered /\ distinct => reply = Parsed
        /\ request.streaming /\ callState \in {"open", "answered"} /\ ~recovered =>
              screen.answer = PiecesOf("text")
        /\ callState = "asking" => screen.answer = <<>>
        /\ hopeless => callState \in CallOver
=============================================================================
