-------------------------------- MODULE Chats -------------------------------
(***************************************************************************)
(* One chat of a workspace and the conversation run kept beside it: the       *)
(* files of cognix/local/chat.py and runs.py, written by the endpoints of      *)
(* cognix/api/routes/workspaces.py.  A request stores the question at once      *)
(* and the answers after the awaits of the models, so requests overlap.       *)
(***************************************************************************)
EXTENDS Naturals, Sequences, SequencesExt

CONSTANTS Askers,        \* requests to the message endpoints
          RunStates,     \* RUN_STATES
          MaxHistory,    \* messages listed before a question (20 in the code)
          MaxRunEvents,  \* events a run keeps (200 in the code)
          MaxMessages, MaxModels, MaxUpdates   \* bounds

ASSUME ChatAssumption ==
  /\ RunStates # {} /\ MaxHistory \in Nat \ {0} /\ MaxRunEvents \in Nat \ {0}
  /\ MaxMessages \in Nat /\ MaxModels \in Nat \ {0} /\ MaxUpdates \in Nat

VARIABLES chat,       \* the metadata: whether it exists, how many model profiles it has
          messages,   \* the JSONL file: [role, parent, seen]; an id is a position
          request,    \* what each request is doing
          convRun,    \* the run: its state and the states of its events; <<>> before
          updates     \* updates of the run and of the chat (bounded)

chatVars == <<chat, messages, request, convRun, updates>>

NoChatRequest == [at |-> "idle", question |-> 0, listed |-> {}, pending |-> {}]

ChatInit ==
  /\ chat = [exists |-> FALSE, profiles |-> 0]
  /\ messages = <<>>
  /\ request = [r \in Askers |-> NoChatRequest]
  /\ convRun = [state |-> "none", events |-> <<>>]
  /\ updates = 0

\* ChatStore.append_message.  seen is a ghost: the messages of the chat that the model
\* was shown last, before it gave this answer.
Message(role, parent, seen) == [role |-> role, parent |-> parent, seen |-> seen]
AppendMessage(m) == messages' = Append(messages, m)

\* A wrong form: the history is listed when the question is stored already.
HistoryWithQuestion(n) == {i \in 1..n + 1 : i > n + 1 - MaxHistory}

\* ChatStore.list_messages with a limit: the last positions of a file of n messages.
History(n) == {i \in 1..n : i > n - MaxHistory}

----------------------------------------------------------------------------
CreateChat ==
  /\ ~chat.exists
  /\ \E n \in 0..MaxModels : chat' = [exists |-> TRUE, profiles |-> n]
  /\ UNCHANGED <<messages, request, convRun, updates>>

\* ChatStore.update: the fields not given are kept.
UpdateChat ==
  /\ chat.exists /\ updates < MaxUpdates /\ updates' = updates + 1
  /\ \E n \in 0..MaxModels : chat' = [chat EXCEPT !.profiles = n]
  /\ UNCHANGED <<messages, request, convRun>>

\* The models of the body, else the chat's profiles, else the default model.
Asked(given) == IF given > 0 THEN given ELSE IF chat.profiles > 0 THEN chat.profiles ELSE 1

Ask(r, at, models) ==
  request' = [request EXCEPT ![r] =
    [at |-> at, question |-> Len(messages) + 1, listed |-> History(Len(messages)),
     pending |-> 1..models]]

\* Context.get_history: of what was listed the oldest go, to make room in the window and
\* in the token budget for the question, the context pack and the tools' results.
Shown(w) == {{i \in w.listed : i >= from} : from \in 1..w.question}

\* send_chat_message after the entitlement: the question is stored before the API key
\* is looked for, and stays without an answer when there is none.
SendMessage(r) ==
  /\ request[r].at = "idle" /\ chat.exists /\ Len(messages) < MaxMessages
  /\ AppendMessage(Message("user", 0, {}))
  /\ \/ \E given \in 0..MaxModels : Ask(r, "answering", Asked(given))
     \/ UNCHANGED request
  /\ UNCHANGED <<chat, convRun, updates>>

\* _run_model_response of one of the gathered coroutines.
ModelResponds(r, k) ==
  /\ request[r].at \in {"answering", "failed"} /\ k \in request[r].pending
  /\ \E seen \in Shown(request[r]) :
       AppendMessage(Message("assistant", request[r].question, seen))
  /\ request' = [request EXCEPT ![r].pending = @ \ {k}]
  /\ UNCHANGED <<chat, convRun, updates>>

\* gather hands the first exception to the client and leaves the others running.
ModelRaises(r, k) ==
  /\ request[r].at \in {"answering", "failed"} /\ k \in request[r].pending
  /\ request' = [request EXCEPT ![r].pending = @ \ {k}, ![r].at = "failed"]
  /\ UNCHANGED <<chat, messages, convRun, updates>>

\* stream_chat_message up to the generator, which answers with the first model only;
\* without an API key nothing is stored.
StreamMessage(r) ==
  /\ request[r].at = "idle" /\ chat.exists /\ Len(messages) < MaxMessages
  /\ AppendMessage(Message("user", 0, {})) /\ Ask(r, "streaming", 1)
  /\ UNCHANGED <<chat, convRun, updates>>

\* The answer is stored behind the last event, unless the stream carried an error or
\* the client has left.
StreamEnds(r) ==
  /\ request[r].at = "streaming"
  /\ \/ \E seen \in Shown(request[r]) :
          AppendMessage(Message("assistant", request[r].question, seen))
     \/ UNCHANGED messages
  /\ request' = [request EXCEPT ![r] = NoChatRequest]
  /\ UNCHANGED <<chat, convRun, updates>>

EndRequest(r) ==
  /\ request[r].at \in {"answering", "failed"} /\ request[r].pending = {}
  /\ request' = [request EXCEPT ![r] = NoChatRequest]
  /\ UNCHANGED <<chat, messages, convRun, updates>>

\* append_raw_chat_message: any role, no parent.
AppendRaw ==
  /\ chat.exists /\ Len(messages) < MaxMessages
  /\ \E role \in {"user", "assistant"} : AppendMessage(Message(role, 0, {}))
  /\ UNCHANGED <<chat, request, convRun, updates>>

\* The process restarts: the files stay, the requests are gone.
ChatRestart ==
  /\ \E r \in Askers : request[r] # NoChatRequest
  /\ request' = [r \in Askers |-> NoChatRequest]
  /\ UNCHANGED <<chat, messages, convRun, updates>>

----------------------------------------------------------------------------
\* create_conversation_run: the first event is intent_received, whatever the state.
CreateRun ==
  /\ chat.exists /\ convRun.state = "none"
  /\ \E s \in RunStates : convRun' = [state |-> s, events |-> <<s>>]
  /\ UNCHANGED <<chat, messages, request, updates>>

\* events[-200:]
KeptEvents(events) == SubSeq(events, IF Len(events) > MaxRunEvents THEN Len(events) - MaxRunEvents + 1
                               ELSE 1, Len(events))

\* ConversationRunStore.update: any state after any other; an event is noted when the
\* caller names one or the state changes.
UpdateRun ==
  /\ convRun.state # "none" /\ updates < MaxUpdates /\ updates' = updates + 1
  /\ \E s \in RunStates, named \in BOOLEAN :
       convRun' = [state |-> s,
                   events |-> KeptEvents(IF named \/ s # convRun.state
                                   THEN Append(convRun.events, s) ELSE convRun.events)]
  /\ UNCHANGED <<chat, messages, request>>

ChatNext ==
  \/ \E r \in Askers :
       \/ SendMessage(r) \/ StreamMessage(r) \/ StreamEnds(r) \/ EndRequest(r)
       \/ \E k \in 1..MaxModels : ModelResponds(r, k) \/ ModelRaises(r, k)
  \/ CreateChat \/ UpdateChat \/ AppendRaw \/ ChatRestart \/ CreateRun \/ UpdateRun

----------------------------------------------------------------------------
\* However requests overlap, an answer stands behind its question in the file, and of
\* the chat its model was shown only what stood before the question, the latest of it
\* and at most so much: not the question a second time, nor what other requests and
\* other models stored while it was thinking.
AnsweredFromBefore ==
  \A i \in 1..Len(messages) :
    LET p == messages[i].parent IN
    p # 0 => /\ p < i /\ messages[p].role = "user"
             /\ \A j \in messages[i].seen :
                  j < p /\ p - j <= MaxHistory /\ j..p - 1 \subseteq messages[i].seen

\* However many updates a run has seen, the last event it keeps tells its state.
StateIsLogged == convRun.events # <<>> => convRun.state = Last(convRun.events)

\* The two files of the chats keep their order under overlapping requests: questions,
\* what each answer was based on, and the state of a conversation's run.
ChatFiles == AnsweredFromBefore /\ StateIsLogged
=============================================================================
