----------------------------- MODULE Assistant ------------------------------
(***************************************************************************)
(* The assistant: a chat window in the page (static/js/assistant.js), the  *)
(* stream that answers a question (services/assistant/stream.py), the      *)
(* models it tries one after the other (llm.py) and the conversations the  *)
(* server keeps in memory (session.py).  A text is the set of the attempts *)
(* whose words are in it.                                                  *)
(***************************************************************************)
EXTENDS Integers, FiniteSets, Sequences

CONSTANTS
    Tabs,           \* pages with a chat window
    GeminiModels,   \* the configured model and the backup, in order
    GroqModels,     \* GROQ_MODELS, in order
    MaxTurns,       \* SESSION_MAX_TURNS
    MaxSessions,    \* SESSION_MAX_COUNT
    TTL,            \* SESSION_TTL, in ticks
    MaxAsked,       \* bound: questions asked
    MaxTicks,       \* bound: the ages a conversation can reach
    MaxRestarts     \* bound: restarts of the server

(* The lists of models are never empty, and a conversation keeps a turn.   *)
ASSUME ChatAssumption ==
    /\ GeminiModels \in Seq(STRING) \ {<< >>}
    /\ GroqModels \in Seq(STRING) \ {<< >>}
    /\ MaxTurns \in Nat \ {0} /\ MaxSessions \in Nat /\ TTL \in Nat
    /\ MaxAsked \in Nat /\ MaxTicks \in Nat /\ MaxRestarts \in Nat

VARIABLES
    tab,        \* per tab: the conversation id it holds (0: none), the question it waits for
    asked,      \* questions asked so far; a question is its number
    shown,      \* per question: what its bubble shows
    request,    \* per question: the stream on the server
    frames,     \* per question: the frames under way to the page
    sessions,   \* conversation id |-> its history and its idle time
    resets,     \* conversations whose reset is under way
    crashes,    \* restarts so far
    dropped     \* ghost: questions whose conversation the server gave up

chatVars == <<tab, asked, shown, request, frames, sessions, resets, crashes, dropped>>

Questions == 1..MaxAsked
Providers == {"gemini", "groq"}
Attempt(provider, model, thinking) ==
    [provider |-> provider, model |-> model, thinking |-> thinking]
Guide == Attempt("guide", "guide", FALSE)
Idle(at, conv) == [at |-> at, conv |-> conv, chain |-> << >>, text |-> {}, history |-> << >>]
NoRequest == Idle("none", 0)
Over(q) == [request EXCEPT ![q] = Idle("over", @.conv)]
NoBubble == [is |-> "none", text |-> {}, cleared |-> 0]

ChatInit ==
    /\ tab = [t \in Tabs |-> [conv |-> 0, asking |-> 0]]
    /\ asked = 0 /\ crashes = 0
    /\ shown = [q \in Questions |-> NoBubble]
    /\ request = [q \in Questions |-> NoRequest]
    /\ frames = [q \in Questions |-> << >>]
    /\ sessions = << >> /\ resets = {} /\ dropped = {}

---------------------------------------------------------------------------
(* The chain of models.                                                    *)

(* Each Gemini model is asked without thinking, and again without that     *)
(* option should it not know it; then come the Groq models.                *)
GeminiChain ==
    [i \in 1..(2 * Len(GeminiModels)) |->
       Attempt("gemini", GeminiModels[(i + 1) \div 2], i % 2 = 1)]
GroqChain ==
    [i \in 1..Len(GroqModels) |-> Attempt("groq", GroqModels[i], FALSE)]
Chain(keys) ==
    (IF "gemini" \in keys THEN GeminiChain ELSE << >>)
    \o (IF "groq" \in keys THEN GroqChain ELSE << >>)

(* What is tried after a failure: "limit" is is_fallbackable(), "bad" a 400*)
(* or a word about thinking, "missing" a 404, "other" anything else, an    *)
(* empty answer included.  The attempts of one model stand together.       *)
Failures == {"limit", "bad", "missing", "other"}
NextModel(chain) ==
    LET same == {i \in DOMAIN chain : chain[i].model = Head(chain).model}
    IN  SubSeq(chain, Cardinality(same) + 1, Len(chain))
Rest(chain, failure) ==
    CASE failure = "limit" -> NextModel(chain)
      [] failure = "bad" /\ Head(chain).thinking -> Tail(chain)
      [] failure = "missing" /\ Head(chain).provider = "groq" -> Tail(chain)
      [] OTHER -> << >>

---------------------------------------------------------------------------
(* The conversations in memory.                                            *)

Without(convs) == [c \in DOMAIN sessions \ convs |-> sessions[c]]
Answered(history) == {history[i].question : i \in DOMAIN history}
Lost(convs) == {q \in 1..asked : request[q].conv \in convs /\ request[q].at = "over"}

(* faulty variant: one line too many is cut off                            *)
KeepTooFew(history) ==
    IF Len(history) > 2 * MaxTurns
      THEN SubSeq(history, Len(history) - 2 * MaxTurns + 2, Len(history)) ELSE history
(* faulty variant: the oldest turns are kept                               *)
KeepOldest(history) ==
    IF Len(history) > 2 * MaxTurns THEN SubSeq(history, 1, 2 * MaxTurns) ELSE history

Trimmed(history) ==
    IF Len(history) > 2 * MaxTurns
      THEN SubSeq(history, Len(history) - 2 * MaxTurns + 1, Len(history)) ELSE history

(* append_exchange(): conversations that are idle too long go first; a new *)
(* one takes the place of the oldest when there are too many.              *)
AppendExchange(conv, q, text) ==
    LET expired == {c \in DOMAIN sessions : sessions[c].idle > TTL}
        alive   == DOMAIN sessions \ expired
        oldest  == {c \in alive : \A d \in alive : sessions[d].idle <= sessions[c].idle}
        evict   == conv \notin alive /\ Cardinality(alive) >= MaxSessions
        before  == IF conv \in alive THEN sessions[conv].history ELSE << >>
        history == before \o <<[role |-> "user", question |-> q, text |-> {}],
                               [role |-> "model", question |-> q, text |-> text]>>
    IN  \E gone \in IF evict THEN {{c} : c \in oldest} ELSE {{}} :
          /\ dropped' = dropped \cup Lost(expired \cup gone)
          /\ sessions' = [c \in (alive \ gone) \cup {conv} |->
                            IF c = conv THEN [history |-> Trimmed(history), idle |-> 0]
                            ELSE sessions[c]]

---------------------------------------------------------------------------
(* The page.                                                               *)

(* ask(): a tab without a conversation makes itself an id.                 *)
Ask(t) ==
    LET q == asked + 1
        conv == IF tab[t].conv = 0 THEN q ELSE tab[t].conv
    IN  /\ tab[t].asking = 0 /\ asked < MaxAsked
        /\ asked' = q
        /\ tab' = [tab EXCEPT ![t] = [conv |-> conv, asking |-> q]]
        /\ shown' = [shown EXCEPT ![q].is = "open"]
        /\ request' = [request EXCEPT ![q].at = "sent", ![q].conv = conv]
        /\ UNCHANGED <<frames, sessions, resets, crashes, dropped>>

ShowError(q) == [shown EXCEPT ![q].is = "error", ![q].text = {}]

(* 429 of the rate gate, or no connection.                                 *)
Refuse(t) ==
    LET q == tab[t].asking IN
    /\ q # 0 /\ request[q].at = "sent"
    /\ shown' = ShowError(q)
    /\ request' = Over(q)
    /\ tab' = [tab EXCEPT ![t].asking = 0]
    /\ UNCHANGED <<asked, frames, sessions, resets, crashes, dropped>>

(* faulty variant: the answer of done is only shown when nothing streamed  *)
StreamedStays(bubble, frame) ==
    CASE frame.is = "token" -> [bubble EXCEPT !.text = @ \cup frame.text]
      [] frame.is = "done"  -> [bubble EXCEPT !.is = "done",
                                              !.text = IF @ = {} THEN frame.text ELSE @]
      [] OTHER              -> [bubble EXCEPT !.is = "error", !.text = {}]

(* The handlers of ask(): tokens are added, the text of done replaces them.*)
Painted(bubble, frame) ==
    CASE frame.is = "token" -> [bubble EXCEPT !.text = @ \cup frame.text]
      [] frame.is = "done"  -> [bubble EXCEPT !.is = "done", !.text = frame.text]
      [] OTHER              -> [bubble EXCEPT !.is = "error", !.text = {}]

Receive(t) ==
    LET q == tab[t].asking IN
    /\ q # 0 /\ frames[q] # << >>
    /\ shown' = [shown EXCEPT ![q] = Painted(@, Head(frames[q]))]
    /\ frames' = [frames EXCEPT ![q] = Tail(@)]
    /\ UNCHANGED <<tab, asked, request, sessions, resets, crashes, dropped>>

(* The stream is closed.                                                   *)
End(t) ==
    LET q == tab[t].asking IN
    /\ q # 0 /\ frames[q] = << >> /\ request[q].at = "over"
    /\ tab' = [tab EXCEPT ![t].asking = 0]
    /\ UNCHANGED <<asked, shown, request, frames, sessions, resets, crashes, dropped>>

(* The request is aborted.  (What a stopped bubble keeps is not followed.) *)
Aborted(t, states) ==
    LET q == tab[t].asking IN
    /\ q # 0
    /\ shown' = IF shown[q].is \in states
                  THEN [shown EXCEPT ![q].is = "stopped", ![q].text = {}] ELSE shown
    /\ frames' = [frames EXCEPT ![q] = << >>]
    /\ tab' = [tab EXCEPT ![t].asking = 0]
    /\ UNCHANGED <<asked, request, sessions, resets, crashes, dropped>>

(* The stop button leaves an answer that is complete; handleLeave(), when  *)
(* the page is left before the stream is closed, marks that as stopped too.*)
StopAnswer(t) == Aborted(t, {"open"})
Leave(t)      == Aborted(t, {"open", "done"})

Cleared(conv) ==
    [q \in Questions |-> IF request[q].conv = conv /\ shown[q].is \notin {"none", "cleared"}
                           THEN [is |-> "cleared", text |-> {}, cleared |-> asked] ELSE shown[q]]

(* faulty variant: the tab keeps its id                                    *)
ResetKeepsId(t) ==
    /\ tab[t].asking = 0 /\ tab[t].conv # 0
    /\ shown' = Cleared(tab[t].conv)
    /\ resets' = resets \cup {tab[t].conv}
    /\ UNCHANGED <<tab, asked, request, frames, sessions, crashes, dropped>>

(* resetConversation(): the window is emptied, the id forgotten; the call  *)
(* that tells the server may be late or lost.                              *)
Reset(t) ==
    /\ tab[t].asking = 0 /\ tab[t].conv # 0
    /\ shown' = Cleared(tab[t].conv)
    /\ tab' = [tab EXCEPT ![t].conv = 0]
    /\ resets' = resets \cup {tab[t].conv}
    /\ UNCHANGED <<asked, request, frames, sessions, crashes, dropped>>

---------------------------------------------------------------------------
(* The server.                                                             *)

(* assistant_reset()                                                       *)
ResetArrives(conv) ==
    /\ conv \in resets
    /\ resets' = resets \ {conv}
    /\ sessions' = Without({conv}) /\ dropped' = dropped \cup Lost({conv})
    /\ UNCHANGED <<tab, asked, shown, request, frames, crashes>>

(* A frame for a page that has gone is dropped.                            *)
Send(q, frame) ==
    frames' = IF \E t \in Tabs : tab[t].asking = q
                THEN [frames EXCEPT ![q] = Append(@, frame)] ELSE frames
ErrorFrame == [is |-> "error", text |-> {}]

(* stream_answer() reads the settings, which the manager changes at any    *)
(* time: switched off, or without a key, it says so.                       *)
BeginDisabled(q) ==
    /\ request[q].at = "sent"
    /\ Send(q, ErrorFrame)
    /\ request' = Over(q)
    /\ UNCHANGED <<tab, asked, shown, sessions, resets, crashes, dropped>>

(* get_history() copies the history, however old, and touches it; a        *)
(* question of the guide is answered without a model.                      *)
Begin(q) ==
    LET conv == request[q].conv
        known == conv \in DOMAIN sessions
    IN  /\ request[q].at = "sent"
        /\ \E chain \in {<<Guide>>} \cup {Chain(keys) : keys \in (SUBSET Providers) \ {{}}} :
             request' = [request EXCEPT
               ![q].at = "run", ![q].chain = chain,
               ![q].history = IF known THEN sessions[conv].history ELSE << >>]
        /\ sessions' = IF known THEN [sessions EXCEPT ![conv].idle = 0] ELSE sessions
        /\ UNCHANGED <<tab, asked, shown, frames, resets, crashes, dropped>>

(* The model that is tried says something.                                 *)
Token(q) ==
    LET words == {Head(request[q].chain)} IN
    /\ request[q].at = "run" /\ request[q].text = {}
    /\ request' = [request EXCEPT ![q].text = words]
    /\ Send(q, [is |-> "token", text |-> words])
    /\ UNCHANGED <<tab, asked, shown, sessions, resets, crashes, dropped>>

(* It fails, with or without having said something.                        *)
Fail(q, failure) ==
    LET rest == Rest(request[q].chain, failure) IN
    /\ request[q].at = "run" /\ Head(request[q].chain) # Guide
    /\ request' = [request EXCEPT ![q].chain = rest, ![q].text = {},
                                  ![q].at = IF rest = << >> THEN "failed" ELSE "run"]
    /\ UNCHANGED <<tab, asked, shown, frames, sessions, resets, crashes, dropped>>

Answer(q) ==
    /\ request[q].at = "run" /\ request[q].text # {}
    /\ request' = [request EXCEPT ![q].at = "answered"]
    /\ UNCHANGED <<tab, asked, shown, frames, sessions, resets, crashes, dropped>>

(* The exchange is kept, then done is sent.                                *)
Finish(q) ==
    /\ request[q].at = "answered"
    /\ AppendExchange(request[q].conv, q, request[q].text)
    /\ Send(q, [is |-> "done", text |-> request[q].text])
    /\ request' = Over(q)
    /\ UNCHANGED <<tab, asked, shown, resets, crashes>>

(* The error of the last model, and the sixty seconds of a stream.         *)
GiveUp(q) ==
    /\ Send(q, ErrorFrame)
    /\ request' = Over(q)
    /\ UNCHANGED <<tab, asked, shown, sessions, resets, crashes, dropped>>
Report(q) == request[q].at = "failed" /\ GiveUp(q)
(* faulty variant: only a model that has said nothing runs out of time     *)
SilentTimeout(q) == request[q].at = "run" /\ request[q].text = {} /\ GiveUp(q)
Timeout(q) == request[q].at \in {"run", "answered"} /\ GiveUp(q)

(* The server notices that the page has gone and cancels the stream.       *)
CancelStream(q) ==
    /\ request[q].at \in {"sent", "run", "answered", "failed"}
    /\ \A t \in Tabs : tab[t].asking # q
    /\ request' = Over(q)
    /\ UNCHANGED <<tab, asked, shown, frames, sessions, resets, crashes, dropped>>

(* A restart forgets the conversations and breaks the streams, also one    *)
(* whose done has come but not yet its end.                                *)
RestartServer ==
    LET waiting == {tab[t].asking : t \in Tabs} IN
    /\ crashes < MaxRestarts /\ crashes' = crashes + 1
    /\ sessions' = << >> /\ dropped' = dropped \cup Lost(DOMAIN sessions)
    /\ request' = [q \in Questions |->
                     IF request[q].at = "none" THEN NoRequest ELSE Over(q)[q]]
    /\ shown' = [q \in Questions |->
                   IF q \in waiting THEN [shown[q] EXCEPT !.is = "error", !.text = {}]
                   ELSE shown[q]]
    /\ frames' = [q \in Questions |-> << >>]
    /\ tab' = [t \in Tabs |-> [tab[t] EXCEPT !.asking = 0]]
    /\ UNCHANGED <<asked, resets>>

Tick ==
    /\ \E c \in DOMAIN sessions : sessions[c].idle < MaxTicks
    /\ sessions' = [c \in DOMAIN sessions |->
                      [sessions[c] EXCEPT !.idle = IF @ < MaxTicks THEN @ + 1 ELSE @]]
    /\ UNCHANGED <<tab, asked, shown, request, frames, resets, crashes, dropped>>

Handle(q) == BeginDisabled(q) \/ Begin(q) \/ Finish(q) \/ Report(q) \/ Timeout(q)
Shown(t) == Receive(t) \/ End(t)

ChatNext ==
    \/ \E t \in Tabs : Shown(t) \/ Refuse(t) \/ StopAnswer(t) \/ Leave(t) \/ Reset(t) \/ Ask(t)
    \/ \E q \in Questions : Handle(q) \/ Token(q) \/ Answer(q) \/ CancelStream(q)
    \/ \E q \in Questions, failure \in Failures : Fail(q, failure)
    \/ \E c \in resets : ResetArrives(c)
    \/ RestartServer \/ Tick

(* The event loop of the server runs, its timer fires, and frames arrive.  *)
ChatSpec ==
    /\ ChatInit /\ [][ChatNext]_chatVars
    /\ \A q \in Questions : WF_chatVars(Handle(q))
    /\ \A t \in Tabs : WF_chatVars(Shown(t))

(***************************************************************************)
(* Properties                                                              *)
(***************************************************************************)
(* An answer that is shown as finished has the words of one model, however *)
(* many broke off before it, and the conversation is kept with those words.*)
OneModelAnswers ==
    \A q \in Questions : shown[q].is = "done" =>
        /\ Cardinality(shown[q].text) = 1
        /\ \A c \in DOMAIN sessions : \A i \in DOMAIN sessions[c].history :
             LET entry == sessions[c].history[i] IN
             entry.question = q /\ entry.role = "model" => entry.text = shown[q].text

(* What the server remembers of a conversation are whole exchanges, and    *)
(* every answer its user was shown, unless the server gave it up or newer  *)
(* exchanges took its place; a model is told none that its user cleared.   *)
HistoryIsTrue ==
    /\ \A c \in DOMAIN sessions :
         LET history == sessions[c].history IN
         \A i \in DOMAIN history :
           /\ history[i].role = IF i % 2 = 1 THEN "user" ELSE "model"
           /\ i % 2 = 1 => /\ i < Len(history)
                           /\ history[i + 1].question = history[i].question
    /\ \A p \in Questions \ dropped :
         LET c == request[p].conv
             kept == IF c \in DOMAIN sessions THEN Answered(sessions[c].history) ELSE {}
         IN  shown[p].is = "done" /\ p \notin kept =>
               Cardinality({n \in kept : n > p \/ shown[n].is # "done"}) >= MaxTurns
    /\ \A q \in Questions : \A p \in Answered(request[q].history) :
         shown[p].is = "cleared" => shown[p].cleared >= q

(* The assistant: an answer on the screen is that of one model, and the    *)
(* conversation the server keeps is the one its user had.                  *)
ChatIsTrue == OneModelAnswers /\ HistoryIsTrue

(* A window that waits for an answer is ready for the next question in the *)
(* end, whatever the models do.                                            *)
AnsweredInTheEnd ==
    \A t \in Tabs, q \in Questions : tab[t].asking = q ~> tab[t].asking # q
=============================================================================
