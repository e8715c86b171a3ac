----------------------------- MODULE LlmService -----------------------------
(***************************************************************************)
(* Calls of the LLM service: StreamChat (llm/grpc_servicer.py) and its     *)
(* HTTP twins /chat/stream and /chat (llm/api/routes.py).  They share the  *)
(* availability check of one OllamaEngine, the tokens of a generation, and *)
(* chunk_stream, which cuts the text into sentences for speech             *)
(* (llm/utils/chunker.py).                                                 *)
(*                                                                         *)
(* Text is a sequence of characters of six kinds.  "mr" stands for the     *)
(* letters of an abbreviation without its period, and counts as one.       *)
(*                                                                         *)
(* Bounds: the finite sets Calls and Tokens, MaxSaid characters from which *)
(* on no token comes, MaxTime ticks.                                       *)
(***************************************************************************)
EXTENDS Integers, Sequences, FiniteSets, SequencesExt, FiniteSetsExt

CONSTANTS
    Calls,     \* concurrent calls
    Routes,    \* the routes they may use, of "grpc", "ndjson" and "chat"
    Tokens,    \* tokens Ollama may send (stream_response drops empty ones)
    MaxSaid,
    MinChunk,  \* min_chunk_chars
    MaxChunk,  \* max_chunk_chars
    Ttl,       \* availability_cache_seconds
    MaxTime

Chars == {"space", "letter", "digit", "mr", "dot", "mark"}
BoundaryChars == {"dot", "mark"}   \* "mark" is ? or !

Streaming == {"grpc", "ndjson"}   \* routes that send each event as it comes

ASSUME RoutesAssumption == Routes \subseteq Streaming \cup {"chat"}
ASSUME TokensAssumption == Tokens \subseteq Seq(Chars) \ {<<>>}
ASSUME BoundsAssumption == /\ {MaxSaid, MinChunk, Ttl, MaxTime} \subseteq Nat
                           /\ MaxChunk \in Nat \ {0}

Never == -1
Times == 0..MaxTime

VARIABLES
    clock,        \* time.monotonic()
    lastChecked,  \* OllamaEngine._last_checked_at
    lastSeen,     \* auxiliary: when Ollama last said it has the model
    route,        \* the route each call came by
    pc,           \* the coroutine that handles each call
    status,       \* the gRPC or HTTP status of its answer
    now,          \* the local of ensure_model_available, 0 outside it
    said,         \* auxiliary: all characters of the generation so far
    cuts,         \* auxiliary: the lengths of said at which a chunk was cut
    buffer,       \* the buffer of chunk_stream
    events,       \* events the call has yielded; response_chunks of a "chat"
    cancelled     \* calls whose handler is being cancelled

checkVars == <<clock, lastChecked, lastSeen, now>>
textVars  == <<said, cuts, buffer>>
callVars == <<pc, status>>
vars == <<checkVars, route, callVars, textVars, events, cancelled>>

\* Where a text is not blank, and str.strip.
Inked(text) == {i \in DOMAIN text : text[i] # "space"}

Strip(text) == IF Inked(text) = {} THEN <<>>
               ELSE SubSeq(text, Min(Inked(text)), Max(Inked(text)))

TypeOK ==
    /\ clock \in Times
    /\ lastChecked \in Times \cup {Never} /\ lastSeen \in Times \cup {Never}
    /\ route \in [Calls -> Routes]
    /\ pc \in [Calls -> {"new", "checking", "chatting", "ending", "refused", "done"}]
    /\ status \in [Calls -> {"none", "ok", "bad_request", "not_found",
                             "unavailable", "internal"}]
    /\ now \in [Calls -> Times]
    /\ \A c \in Calls : /\ said[c] \in Seq(Chars)
                        /\ cuts[c] \subseteq DOMAIN said[c]
                        /\ buffer[c] \in Seq(Chars)
                        /\ Len(Strip(buffer[c])) < MaxChunk
                        /\ events[c] \in Seq([type : {"CHUNK", "DONE", "ERROR"},
                                              text : Seq(Chars)])
    /\ cancelled \subseteq Calls

Init ==
    /\ clock = 0 /\ lastChecked = Never /\ lastSeen = Never
    /\ route \in [Calls -> Routes]
    /\ pc = [c \in Calls |-> "new"]
    /\ status = [c \in Calls |-> "none"]
    /\ now = [c \in Calls |-> 0]
    /\ said = [c \in Calls |-> <<>>]
    /\ cuts = [c \in Calls |-> {}]
    /\ buffer = [c \in Calls |-> <<>>]
    /\ events = [c \in Calls |-> <<>>]
    /\ cancelled = {}

Yield(c, type, text) ==
    events' = [events EXCEPT ![c] = Append(@, [type |-> type, text |-> text])]

-----------------------------------------------------------------------------
(* chunk_stream.                                                           *)

\* The last word of a text that ends in one, split at blanks.
LastWord(text) ==
    SubSeq(text, 1 + Max({0} \cup (DOMAIN text \ Inked(text))), Len(text))

EndsWithAbbreviation(text) == LastWord(text) = <<"mr", "dot">>

\* i is the last dot, and both its neighbours are digits.
IsMidNumber(text) ==
    /\ Last(text) = "dot"
    /\ \E i \in DOMAIN text :
          /\ i = Max({k \in DOMAIN text : text[k] = "dot"})
          /\ i > 1 /\ i < Len(text)
          /\ text[i - 1] = "digit" /\ text[i + 1] = "digit"

HitBoundary(text) == /\ Last(text) \in BoundaryChars
                     /\ ~IsMidNumber(text) /\ ~EndsWithAbbreviation(text)

LateFlushable(text) ==   \* mutant: the limit is passed before it is enforced
    /\ text # <<>>
    /\ \/ HitBoundary(text) /\ Len(text) >= MinChunk
       \/ Len(text) > MaxChunk

Flushable(text) ==
    /\ text # <<>>
    /\ \/ HitBoundary(text) /\ Len(text) >= MinChunk
       \/ Len(text) >= MaxChunk

--------------------------------------------------------------------------------------------------------
(* Validation and ensure_ready.                                            *)

Refuse(c, code) == /\ pc' = [pc EXCEPT ![c] = "refused"]
                   /\ status' = [status EXCEPT ![c] = code]

\* Only the HTTP routes look at the prompt.
BlankPrompt(c) ==
    /\ pc[c] = "new"
    /\ Refuse(c, "bad_request")
    /\ UNCHANGED <<checkVars, route, textVars, events, cancelled>>

\* A streaming route commits to its status before the first token.
StartChat(c) ==
    /\ pc' = [pc EXCEPT ![c] = "chatting"]
    /\ status' = IF route[c] \in Streaming THEN [status EXCEPT ![c] = "ok"] ELSE status

Cached == lastChecked # Never /\ clock - lastChecked < Ttl

\* The last successful check is recent enough.
SkipCheck(c) ==
    /\ pc[c] = "new" /\ Cached
    /\ StartChat(c)
    /\ UNCHANGED <<checkVars, route, textVars, events, cancelled>>

EagerAsk(c) ==   \* mutant: the check counts from when it is made, not passed
    /\ pc[c] = "new" /\ ~Cached
    /\ now' = [now EXCEPT ![c] = clock]
    /\ lastChecked' = clock
    /\ pc' = [pc EXCEPT ![c] = "checking"]
    /\ UNCHANGED <<clock, lastSeen, route, status, textVars, events, cancelled>>

\* Ollama is asked for its models; other calls go on meanwhile.
Ask(c) ==
    /\ pc[c] = "new" /\ ~Cached
    /\ now' = [now EXCEPT ![c] = clock]
    /\ pc' = [pc EXCEPT ![c] = "checking"]
    /\ UNCHANGED <<clock, lastChecked, lastSeen, route, status, textVars, events, cancelled>>

\* It has the model.
CheckPasses(c) ==
    /\ pc[c] = "checking"
    /\ lastChecked' = now[c] /\ lastSeen' = clock
    /\ now' = [now EXCEPT ![c] = 0]
    /\ StartChat(c)
    /\ UNCHANGED <<clock, route, textVars, events, cancelled>>

\* It has not, cannot be reached, or fails in another way.
CheckFails(c) ==
    /\ pc[c] = "checking"
    /\ \E code \in {"not_found", "unavailable", "internal"} : Refuse(c, code)
    /\ now' = [now EXCEPT ![c] = 0]
    /\ UNCHANGED <<clock, lastChecked, lastSeen, route, textVars, events, cancelled>>

-----------------------------------------------------------------------------
(* The generation.                                                         *)

HoardingToken(c, token) ==   \* mutant: the buffer is not cleared after a cut
    LET text == Strip(buffer[c] \o token) IN
    /\ pc[c] = "chatting" /\ Len(said[c]) < MaxSaid
    /\ said' = [said EXCEPT ![c] = @ \o token]
    /\ buffer' = [buffer EXCEPT ![c] = @ \o token]
    /\ IF Flushable(text)
       THEN /\ Yield(c, "CHUNK", text)
            /\ cuts' = [cuts EXCEPT ![c] = @ \cup {Len(said'[c])}]
       ELSE UNCHANGED <<events, cuts>>
    /\ UNCHANGED <<checkVars, route, callVars, cancelled>>

\* StreamChat looks whether it is cancelled before it sends a chunk.
Noticed(c) == route[c] = "grpc" /\ c \in cancelled

\* A token is buffered; a sentence long enough, or any long text, is cut.
Token(c, token) ==
    LET text == Strip(buffer[c] \o token) IN
    /\ pc[c] = "chatting" /\ Len(said[c]) < MaxSaid
    /\ Flushable(text) => ~Noticed(c)
    /\ said' = [said EXCEPT ![c] = @ \o token]
    /\ IF Flushable(text)
       THEN /\ Yield(c, "CHUNK", text)
            /\ cuts' = [cuts EXCEPT ![c] = @ \cup {Len(said'[c])}]
            /\ buffer' = [buffer EXCEPT ![c] = <<>>]
       ELSE /\ buffer' = [buffer EXCEPT ![c] = @ \o token]
            /\ UNCHANGED <<events, cuts>>
    /\ UNCHANGED <<checkVars, route, callVars, cancelled>>

\* The generation ends: the rest is flushed.
GenerationEnds(c) ==
    LET rest == Strip(buffer[c]) IN
    /\ pc[c] = "chatting"
    /\ rest # <<>> => ~Noticed(c)
    /\ IF rest # <<>> THEN Yield(c, "CHUNK", rest) ELSE events' = events
    /\ buffer' = [buffer EXCEPT ![c] = <<>>]
    /\ pc' = [pc EXCEPT ![c] = "ending"]
    /\ UNCHANGED <<checkVars, route, status, said, cuts, cancelled>>

\* DONE; /chat answers with all there is.
Finish(c) ==
    /\ pc[c] = "ending"
    /\ Yield(c, "DONE", <<>>)
    /\ pc' = [pc EXCEPT ![c] = "done"]
    /\ status' = [status EXCEPT ![c] = "ok"]
    /\ UNCHANGED <<checkVars, route, textVars, cancelled>>

FallingThrough(c) ==   \* mutant: after the ERROR the call goes on to its end
    /\ pc[c] = "chatting" /\ route[c] \in Streaming
    /\ Yield(c, "ERROR", <<>>)
    /\ pc' = [pc EXCEPT ![c] = "ending"]
    /\ UNCHANGED <<checkVars, route, status, textVars, cancelled>>

\* Opening the chat or reading from it raises.  A stream that has begun can
\* say so only in an event.
StreamFails(c) ==
    /\ pc[c] = "chatting" /\ route[c] \in Streaming
    /\ Yield(c, "ERROR", <<>>)
    /\ pc' = [pc EXCEPT ![c] = "done"]
    /\ UNCHANGED <<checkVars, route, status, textVars, cancelled>>

\* /chat has still its status to give, and drops what it has collected.
ChatFails(c) ==
    /\ pc[c] = "chatting" /\ route[c] = "chat"
    /\ \E code \in {"bad_request", "internal"} : status' = [status EXCEPT ![c] = code]
    /\ pc' = [pc EXCEPT ![c] = "done"]
    /\ UNCHANGED <<checkVars, route, textVars, events, cancelled>>

\* The client leaves (a barge-in closes the stream), or, for /chat, whose
\* handler nothing tells of that, the service is being stopped.
Cancel(c) ==
    /\ pc[c] \notin {"refused", "done"}
    /\ cancelled' = cancelled \cup {c}
    /\ UNCHANGED <<checkVars, route, callVars, textVars, events>>

\* CancelledError at an await, or Noticed: StreamChat just returns.
Stop(c) ==
    /\ c \in cancelled /\ pc[c] \in {"new", "checking", "chatting", "ending"}
    /\ pc[c] = "ending" => route[c] \in Streaming   \* /chat awaits nothing there
    /\ pc' = [pc EXCEPT ![c] = "done"]
    /\ status' = IF route[c] = "chat" /\ pc[c] = "chatting"
                 THEN [status EXCEPT ![c] = "bad_request"] ELSE status
    /\ now' = [now EXCEPT ![c] = 0]
    /\ UNCHANGED <<clock, lastChecked, lastSeen, route, textVars, events, cancelled>>

Tick ==
    /\ clock < MaxTime
    /\ clock' = clock + 1
    /\ UNCHANGED <<lastChecked, lastSeen, now, route, callVars, textVars, events, cancelled>>

Call(c) == \/ SkipCheck(c) \/ Ask(c) \/ CheckPasses(c) \/ CheckFails(c)
           \/ \E token \in Tokens : Token(c, token)
           \/ GenerationEnds(c) \/ Finish(c) \/ Cancel(c) \/ Stop(c)

\* The three handlers.
StreamChat(c) == route[c] = "grpc" /\ (Call(c) \/ StreamFails(c))
ChatStream(c) == route[c] = "ndjson" /\ (BlankPrompt(c) \/ Call(c) \/ StreamFails(c))
Chat(c) == route[c] = "chat" /\ (BlankPrompt(c) \/ Call(c) \/ ChatFails(c))

AllDone == \A c \in Calls : pc[c] \in {"refused", "done"}
Terminated == AllDone /\ UNCHANGED vars

Next == Tick \/ Terminated
        \/ \E c \in Calls : StreamChat(c) \/ ChatStream(c) \/ Chat(c)

Spec == Init /\ [][Next]_vars

-----------------------------------------------------------------------------
(* Correctness.                                                            *)

\* What of a text is not blank.
Ink(text) ==
    LET kept[i \in 0..Len(text)] ==
            IF i = 0 THEN <<>>
            ELSE IF text[i] = "space" THEN kept[i - 1] ELSE Append(kept[i - 1], text[i])
    IN  kept[Len(text)]

Spoken(c) == FlattenSeq([i \in DOMAIN events[c] |-> events[c][i].text])
Type(c, i) == events[c][i].type

(* Wherever the text is cut, and whenever it ends, what goes to speech is  *)
(* what was generated: blanks apart, nothing is lost, repeated or out of   *)
(* order, and after DONE nothing is left behind (chunker.py:40-67).        *)
SaidIsSpoken ==
    \A c \in Calls :
        /\ Ink(said[c]) = Ink(Spoken(c) \o buffer[c])
        /\ events[c] # <<>> /\ Last(events[c]).type = "DONE" => buffer[c] = <<>>

(* A stream that was accepted and not cancelled ends with one DONE or      *)
(* ERROR and nothing after it, and a refused call has sent nothing: the    *)
(* gateway ends a turn on exactly one of them.  /chat answers once, with   *)
(* success only if the whole text is there, and with a failure whenever    *)
(* the generation fails (grpc_servicer.py:26-67, routes.py:45-140).        *)
EndsOnce ==
    \A c \in Calls :
        /\ pc[c] = "refused" => events[c] = <<>> /\ status[c] \notin {"none", "ok"}
        /\ \A i \in DOMAIN events[c] :
              Type(c, i) # "CHUNK" => i = Len(events[c]) /\ pc[c] = "done"
        /\ pc[c] = "done" /\ c \notin cancelled =>
              /\ status[c] # "none"
              /\ IF route[c] \in Streaming
                 THEN events[c] # <<>> /\ Last(events[c]).type # "CHUNK"
                 ELSE status[c] = "ok" <=>
                         events[c] # <<>> /\ Last(events[c]).type = "DONE"

(* A call starts its generation unchecked only if Ollama had the model     *)
(* less than Ttl ago, whatever other calls' checks do meanwhile: failures  *)
(* are never cached (ollama_engine.py:50-52, 73).                          *)
SkipIsJustified ==
    [][\A c \in Calls : pc[c] = "new" /\ pc'[c] = "chatting" =>
           lastSeen # Never /\ clock - lastSeen < Ttl]_vars

(* Claimed by llm/README.md:39-41 and chunker.py:26: decimal numbers       *)
(* are not mistaken for sentence endings, so no text is cut at a decimal   *)
(* point.                                                                  *)
NumbersStayWhole ==
    \A c \in Calls : \A p \in cuts[c] :
        ~(/\ p > 1 /\ p < Len(said[c])
          /\ said[c][p - 1] = "digit" /\ said[c][p] = "dot"
          /\ said[c][p + 1] = "digit")
=============================================================================
