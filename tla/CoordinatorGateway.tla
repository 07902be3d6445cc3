------------------------- MODULE CoordinatorGateway -------------------------
(***************************************************************************)
(* The API gateway in coordinator mode (sidecar/cmd/dan-api-gateway/       *)
(* main.go).  A chat whose history continues an earlier answer goes on     *)
(* with the session a coordinator still holds for it; any other gets a new *)
(* session on the first endpoint, in turn, that accepts it.  The handlers  *)
(* of chats, the sweeper and the goroutines that destroy sessions run      *)
(* beside each other and share the table of sessions.  A call that was     *)
(* written to a coordinator may be handled after the gateway has given up  *)
(* waiting for it.  The coordinators are external: they keep sessions and  *)
(* answer as engine/coordinator.cpp does, or fail.                         *)
(*                                                                         *)
(* A message stands for one user message and the answer to it, which is a  *)
(* function of the history: decoding is greedy.                            *)
(***************************************************************************)
EXTENDS Naturals, Sequences, FiniteSets

CONSTANTS
    Chat,       \* chat completion calls
    Message,    \* a user message and the answer to it
    AskOf,      \* AskOf[c]: the messages of c, the new one last
    Endpoints,  \* the coordinator endpoints, in order
    MaxFaults   \* dials, answers, sessions and users lost, in a behaviour

VARIABLES
    chat,       \* the handler of each call
    recs,       \* c.sessions: at most one record per history
    turns,      \* c.replicaID, as far as it matters
    destroying, \* goroutines in destroySessionOn: <<endpoint, session>>
    calls,      \* frames written to a coordinator and not answered
    sess,       \* the sessions the coordinators hold, with what they have read
    faults,
    lost        \* sessions the gateway has dropped without destroying them

remoteVars == <<chat, recs, turns, destroying, calls, sess, faults, lost>>

Endpoint == {Endpoints[k] : k \in DOMAIN Endpoints}

\* endpoints() is never empty, and qwenPrompt refuses a chat without messages.
ASSUME RemoteConstants ==
    /\ Endpoints \in Seq(Endpoint) /\ Endpoints # <<>>
    /\ AskOf \in [Chat -> Seq(Message) \ {<<>>}]

NoSession == <<>>
Fault == faults < MaxFaults /\ faults' = faults + 1

\* Where a handler is, its session and endpoint, the endpoints left to try,
\* whether this exchange emitted text, and whether ctx is done.
NewChat == [at |-> "new", ses |-> NoSession, ep |-> Endpoints[1], todo |-> <<>>,
            emitted |-> FALSE, over |-> FALSE]
Ended == [NewChat EXCEPT !.at = "done"]

RemoteInit ==
    /\ chat = [c \in Chat |-> NewChat] /\ recs = {} /\ turns = 0 /\ destroying = {}
    /\ calls = {} /\ sess = {} /\ faults = 0 /\ lost = {}

RemoteTypeOK ==
    /\ \A c \in Chat : chat[c].at \in {"new", "fresh", "continue", "create", "generate", "done"}
    /\ turns \in 0..(Len(Endpoints) - 1)
    /\ \A one, two \in recs : one.key = two.key => one = two
    /\ \A call \in calls : call.kind \in {"create", "prompt", "running"} /\ call.ep \in Endpoint
    /\ \A s \in sess : s.ep \in Endpoint

-----------------------------------------------------------------------------
(***************************************************************************)
(* Handlers                                                                *)
(***************************************************************************)
\* rotatedEndpoints: every endpoint, from the next one in turn.
Rotated == [k \in DOMAIN Endpoints |-> Endpoints[((turns + k - 1) % Len(Endpoints)) + 1]]
NextTurn == turns' = (turns + 1) % Len(Endpoints)

History(c) == SubSeq(AskOf[c], 1, Len(AskOf[c]) - 1)
Newest(c) == SubSeq(AskOf[c], Len(AskOf[c]), Len(AskOf[c]))
Kept(c) == {rec \in recs : Len(AskOf[c]) > 1 /\ rec.key = History(c)}

Prompt(c, e, id, text) == [kind |-> "prompt", of |-> c, ep |-> e, id |-> id, text |-> text]

\* A variant that reads the record and leaves it in the table.
BeginShared(c) ==
    /\ chat[c].at = "new" /\ UNCHANGED recs
    /\ IF \E rec \in Kept(c) : ~rec.old
       THEN LET rec == CHOOSE r \in Kept(c) : TRUE IN
            /\ chat' = [chat EXCEPT ![c].at = "continue", ![c].ses = rec.id, ![c].ep = rec.ep]
            /\ calls' = calls \cup {Prompt(c, rec.ep, rec.id, Newest(c))}
            /\ UNCHANGED <<turns, lost>>
       ELSE /\ chat' = [chat EXCEPT ![c].at = "fresh", ![c].todo = Rotated] /\ NextTurn
            /\ UNCHANGED <<calls, lost>>
    /\ UNCHANGED <<destroying, sess, faults>>

\* chatWithSession takes the record of this history out of the table; one that
\* has expired is dropped.  continueSession sends only the new message.
Begin(c) ==
    /\ chat[c].at = "new" /\ recs' = recs \ Kept(c)
    /\ IF \E rec \in Kept(c) : ~rec.old
       THEN LET rec == CHOOSE r \in Kept(c) : TRUE IN
            /\ chat' = [chat EXCEPT ![c].at = "continue", ![c].ses = rec.id, ![c].ep = rec.ep]
            /\ \/ calls' = calls \cup {Prompt(c, rec.ep, rec.id, Newest(c))} /\ UNCHANGED faults
               \/ UNCHANGED calls /\ Fault
            /\ UNCHANGED <<turns, lost>>
       ELSE /\ chat' = [chat EXCEPT ![c].at = "fresh", ![c].todo = Rotated] /\ NextTurn
            /\ lost' = lost \cup {rec.id : rec \in Kept(c)}
            /\ UNCHANGED <<calls, faults>>
    /\ UNCHANGED <<destroying, sess>>

\* createSessionThenGenerateOn the next endpoint, with a session ID of its own.
\* The dial may fail, and does once ctx is done.
TryNext(c) ==
    /\ chat[c].at = "fresh"
    /\ LET id == <<c, Len(chat[c].todo)>>
           ep == Head(chat[c].todo)
       IN  /\ chat' = [chat EXCEPT ![c].at = "create", ![c].ses = id, ![c].ep = ep,
                                   ![c].todo = Tail(@), ![c].emitted = FALSE]
           /\ \/ /\ ~chat[c].over /\ UNCHANGED faults
                 /\ calls' = calls \cup {[Prompt(c, ep, id, <<>>) EXCEPT !.kind = "create"]}
              \/ UNCHANGED calls /\ IF chat[c].over THEN UNCHANGED faults ELSE Fault
    /\ UNCHANGED <<recs, turns, destroying, sess, lost>>

\* A variant that destroys the session only when it will not try again.
FailsLeaving(c, over, final) ==
    LET h == chat[c]
        fresh == [h EXCEPT !.at = "fresh", !.over = over, !.emitted = FALSE]
        stop == h.at # "continue" /\ (h.emitted \/ over \/ final \/ h.todo = <<>>)
    IN  /\ destroying' = IF stop THEN destroying \cup {<<h.ep, h.ses>>} ELSE destroying
        /\ IF h.at = "continue"
           THEN chat' = [chat EXCEPT ![c] = [fresh EXCEPT !.todo = Rotated]] /\ NextTurn
           ELSE /\ chat' = [chat EXCEPT ![c] = IF stop THEN Ended ELSE fresh]
                /\ UNCHANGED turns
        /\ UNCHANGED <<recs, lost>>

\* The exchange failed.  A continued session is given up for a new one; a new
\* one for the next endpoint, unless text was emitted, ctx is done or the error
\* would be the same everywhere.  The session is destroyed in the background.
Fails(c, over, final) ==
    LET h == chat[c]
        fresh == [h EXCEPT !.at = "fresh", !.over = over, !.emitted = FALSE]
    IN  /\ destroying' = destroying \cup {<<h.ep, h.ses>>}
        /\ IF h.at = "continue"
           THEN chat' = [chat EXCEPT ![c] = [fresh EXCEPT !.todo = Rotated]] /\ NextTurn
           ELSE /\ chat' = [chat EXCEPT ![c] = IF h.emitted \/ over \/ final \/ h.todo = <<>>
                                               THEN Ended ELSE fresh]
                /\ UNCHANGED turns
        /\ UNCHANGED <<recs, lost>>

Waiting(c) == chat[c].at \in {"continue", "create", "generate"}

\* The connection breaks or an answer makes no sense, ctx is done (the user left
\* or the time is up), or continueSession's own time is up.  What was written
\* may still be handled.
GivesUp(c) ==
    /\ Waiting(c)
    /\ \E over \in {chat[c].over, TRUE} : Fails(c, over, FALSE)
    /\ IF \E call \in calls : call.of = c /\ call.id = chat[c].ses THEN Fault ELSE UNCHANGED faults
    /\ UNCHANGED <<calls, sess>>

-----------------------------------------------------------------------------
(***************************************************************************)
(* Coordinators                                                            *)
(***************************************************************************)
\* The handler that made this call still waits for its answer.
Awaited(call) == Waiting(call.of) /\ chat[call.of].ses = call.id

\* The session is created; the handler reads the ack and sends the whole chat.
\* Nobody destroys a session whose creation comes after its destruction.
CreateHandled(call) ==
    /\ call.kind = "create" /\ sess' = sess \cup {[ep |-> call.ep, id |-> call.id, text |-> <<>>]}
    /\ IF Awaited(call)
       THEN /\ chat' = [chat EXCEPT ![call.of].at = "generate"]
            /\ calls' = (calls \ {call}) \cup {[call EXCEPT !.kind = "prompt", !.text = AskOf[call.of]]}
            /\ UNCHANGED lost
       ELSE /\ lost' = IF <<call.ep, call.id>> \in destroying THEN lost ELSE lost \cup {call.id}
            /\ calls' = calls \ {call} /\ UNCHANGED chat
    /\ UNCHANGED <<recs, turns, destroying, faults>>

SessionOf(call) == {s \in sess : s.ep = call.ep /\ s.id = call.id}

\* The prompt is read into the session's KV.
PromptRead(call) ==
    /\ call.kind = "prompt" /\ SessionOf(call) # {}
    /\ sess' = (sess \ SessionOf(call)) \cup {[s EXCEPT !.text = @ \o call.text] : s \in SessionOf(call)}
    /\ calls' = (calls \ {call}) \cup {[call EXCEPT !.kind = "running"]}
    /\ UNCHANGED <<chat, recs, turns, destroying, faults, lost>>

\* A chunk: the handler passes it on at once.
Chunk(call) ==
    /\ call.kind = "running" /\ Awaited(call) /\ ~chat[call.of].emitted
    /\ chat' = [chat EXCEPT ![call.of].emitted = TRUE]
    /\ UNCHANGED <<recs, turns, destroying, calls, sess, faults, lost>>

\* The result: the session is kept for the next message of this chat.  A record
\* under the same history is overwritten.
Result(call) ==
    LET c == call.of
        same == {rec \in recs : rec.key = AskOf[c]}
    IN
    /\ call.kind = "running" /\ SessionOf(call) # {} /\ calls' = calls \ {call}
    /\ IF Awaited(call)
       THEN /\ recs' = (recs \ same) \cup {[key |-> AskOf[c], id |-> call.id, ep |-> call.ep, old |-> FALSE]}
            /\ lost' = lost \cup {rec.id : rec \in same}
            /\ chat' = [chat EXCEPT ![c] = Ended]
       ELSE UNCHANGED <<recs, lost, chat>>
    /\ UNCHANGED <<turns, destroying, sess, faults>>

\* An error, which every endpoint would give (final) or not (retryable).  A
\* session that is not there is such an error too.
ErrorHandled(call) ==
    /\ calls' = calls \ {call} /\ UNCHANGED sess
    /\ IF call.kind # "create" /\ SessionOf(call) = {} THEN UNCHANGED faults ELSE Fault
    /\ IF Awaited(call)
       THEN \E final \in BOOLEAN : Fails(call.of, chat[call.of].over, final)
       ELSE UNCHANGED <<chat, recs, turns, destroying, lost>>

\* A replica is formed anew: its sessions are gone.
Reform(e) ==
    /\ Fault
    /\ sess' = {s \in sess : s.ep # e}
    /\ UNCHANGED <<chat, recs, turns, destroying, calls, lost>>

-----------------------------------------------------------------------------
(***************************************************************************)
(* The sweeper and the destroying goroutines                               *)
(***************************************************************************)
\* Ten minutes pass.
Expire(rec) ==
    /\ ~rec.old /\ recs' = (recs \ {rec}) \cup {[rec EXCEPT !.old = TRUE]}
    /\ UNCHANGED <<chat, turns, destroying, calls, sess, faults, lost>>

Sweep ==
    /\ \E rec \in recs : rec.old
    /\ recs' = {rec \in recs : ~rec.old}
    /\ destroying' = destroying \cup {<<rec.ep, rec.id>> : rec \in {r \in recs : r.old}}
    /\ UNCHANGED <<chat, turns, calls, sess, faults, lost>>

\* destroySessionOn: the endpoint is reached, or it is not and nobody tries again.
Destroy(e, id) ==
    /\ destroying' = destroying \ {<<e, id>>}
    /\ \/ sess' = {s \in sess : s.ep # e \/ s.id # id} /\ UNCHANGED <<lost, faults>>
       \/ lost' = lost \cup {id} /\ UNCHANGED sess /\ Fault
    /\ UNCHANGED <<chat, recs, turns, calls>>

-----------------------------------------------------------------------------
RemoteNext ==
    \/ \E c \in Chat : Begin(c) \/ TryNext(c) \/ GivesUp(c)
    \/ Sweep \/ \E pair \in destroying : Destroy(pair[1], pair[2])
    \/ \E call \in calls :
        CreateHandled(call) \/ PromptRead(call) \/ Chunk(call) \/ Result(call) \/ ErrorHandled(call)
    \/ \E e \in Endpoint : Reform(e)
    \/ \E rec \in recs : Expire(rec)

-----------------------------------------------------------------------------
(***************************************************************************)
(* Properties                                                              *)
(***************************************************************************)
\* A chat is only ever continued on a session that has read exactly its history:
\* while a handler waits, and in every record that is kept, what the session on
\* that endpoint has read is the chat's messages.  Two chats with the same history,
\* a late call on a session that was given up and a swept record cannot mix them.
OwnHistory ==
    /\ \A call \in calls : \A s \in SessionOf(call) :
        call.kind = "running" /\ Awaited(call) => s.text = AskOf[call.of]
    /\ \A rec \in recs : \A s \in sess : s.id = rec.id => s.ep = rec.ep /\ s.text = rec.key

\* A coordinator's session is always in somebody's hands: a handler's, the table's
\* or a goroutine's that destroys it, but for those the code is known to drop (an
\* expired record it takes out, a record it overwrites, a destruction that does
\* not reach its endpoint or comes before the creation).
NoForgottenSession ==
    \A s \in sess :
        \/ s.id \in lost \/ <<s.ep, s.id>> \in destroying
        \/ \E rec \in recs : rec.id = s.id
        \/ \E c \in Chat : Waiting(c) /\ chat[c].ses = s.id

=============================================================================
