---------------------------- MODULE AnswerStream ----------------------------
(***************************************************************************)
(* Questions about one document: the handler Ask (src/api/documents.go),   *)
(* which relays the answer to its client and saves it, and AnswerQuestion  *)
(* (src/document-processor/service.py), which streams it from the model.   *)
(*                                                                         *)
(* The two ends of a call run in different processes.  Meanwhile clients   *)
(* leave, generations time out, the processor is shut down and the         *)
(* document is deleted.                                                    *)
(***************************************************************************)
EXTENDS Integers, Sequences, FiniteSets

CONSTANTS
    Requests,         \* questions asked
    QuestionCapacity, \* QUESTION_CAPACITY, the slots for answers
    Watched,          \* those that must end, and whose clients may leave; the
                      \* others compete for the slots, and may stop anywhere
    MaxTokens         \* bounds the pieces of text of each answer

ASSUME RequestsAssumption == IsFiniteSet(Requests)
ASSUME BoundsAssumption ==
    /\ QuestionCapacity \in Nat \ {0}
    /\ Watched \subseteq Requests
    /\ MaxTokens \in [Requests -> Nat]

VARIABLES
    deleted,  \* whether the document has been deleted
    history,  \* rows of document_questions: [request, answer]
    draining, \* the processor's flag
    slots,    \* free permits of question_slots
    ask,      \* per request, the handler Ask and what its client was told
    call,     \* per request, the gRPC call: its state and what is on its way
    server    \* per request, its AnswerQuestion in the processor

vars == <<deleted, history, draining, slots, ask, call, server>>

NewAsk == [pc |-> "new", answer |-> <<>>, modelCompleted |-> FALSE,
           outcome |-> "none", gone |-> FALSE, late |-> FALSE]

\* AnswerEvent(done=True); a piece of text is its number, from 1.
Done == 0

NewCall == [rpc |-> "none", wire |-> <<>>]

\* produced and complete are what the model has said: its pieces of text, of
\* which only the number matters, and that the answer is complete.
NewServer == [pc |-> "idle", produced |-> 0, complete |-> FALSE,
              response |-> "none", cancelled |-> FALSE, callback |-> "none"]

Init ==
    /\ deleted = FALSE
    /\ history = {}
    /\ draining = FALSE
    /\ slots = QuestionCapacity
    /\ ask = [r \in Requests |-> NewAsk]
    /\ call = [r \in Requests |-> NewCall]
    /\ server = [r \in Requests |-> NewServer]

-----------------------------------------------------------------------------
(* The handler Ask.                                                         *)

\* Mutant of ContextDone: the generation has no timeout.
ContextDone_untimed(r) == ask[r].gone \/ ask[r].pc = "ended"

\* generationContext.Err() # nil; returning cancels the context as well.
ContextDone(r) == ask[r].gone \/ ask[r].late \/ ask[r].pc = "ended"

Goto(r, pc) == ask' = [ask EXCEPT ![r].pc = pc]

\* Returning closes the connection, with what is still on its way.
End(r, outcome) ==
    /\ ask' = [ask EXCEPT ![r].pc = "ended", ![r].outcome = outcome]
    /\ call' = [call EXCEPT ![r].wire = <<>>]

\* FindOwned.
FindDocument(r) ==
    /\ ask[r].pc = "new"
    /\ IF deleted THEN End(r, "refused") ELSE Goto(r, "starting") /\ UNCHANGED call
    /\ UNCHANGED <<deleted, history, draining, slots, server>>

\* EmbedQuestion, SearchChunksOwned and AnswerQuestion in turn.  The search finds
\* nothing in a deleted document, which is no error: the question is then asked
\* without excerpts.
StartAnswer(r) ==
    /\ ask[r].pc = "starting"
    /\ ~ContextDone(r)
    /\ Goto(r, "streaming")
    /\ call' = [call EXCEPT ![r].rpc = "open"]
    /\ UNCHANGED <<deleted, history, draining, slots, server>>

\* The quota, the embedding or the search fails: the answer is an HTTP error.
AskFails(r) ==
    /\ ask[r].pc = "starting"
    /\ End(r, "refused")
    /\ UNCHANGED <<deleted, history, draining, slots, server>>

\* stream.Recv returns an event.
Receive(r) ==
    /\ ask[r].pc = "streaming"
    /\ call[r].wire # <<>>
    /\ LET event == Head(call[r].wire)
       IN  ask' = IF event = Done
                  THEN [ask EXCEPT ![r].modelCompleted = TRUE]
                  ELSE [ask EXCEPT ![r].answer = Append(@, event)]
    /\ call' = [call EXCEPT ![r].wire = Tail(@)]
    /\ UNCHANGED <<deleted, history, draining, slots, server>>

\* The handler gives up: a client that has left is told nothing.
GiveUp(r) == End(r, IF ask[r].gone THEN "silent" ELSE "failed")

\* Mutant of AtEnd: the handler stops at the last event.
AtEnd_onDone(r) == ask[r].modelCompleted
\* stream.Recv returns io.EOF.
AtEnd(r) == call[r].wire = <<>> /\ call[r].rpc = "ok"

EndOfStream(r) ==
    /\ ask[r].pc = "streaming"
    /\ AtEnd(r)
    /\ IF ContextDone(r) \/ ~ask[r].modelCompleted
       THEN GiveUp(r)
       ELSE Goto(r, "saving") /\ UNCHANGED call
    /\ UNCHANGED <<deleted, history, draining, slots, server>>

\* stream.Recv returns an error: the context is done, also while events are
\* still on their way, or the call has failed.
ReceiveError(r) ==
    /\ ask[r].pc = "streaming"
    /\ \/ ContextDone(r)
       \/ call[r].wire = <<>> /\ call[r].rpc \in {"error", "cancelled"}
    /\ GiveUp(r)
    /\ UNCHANGED <<deleted, history, draining, slots, server>>

\* Mutant of Insertable: no foreign key of document_questions.
Insertable_noForeignKey(r) == ~ContextDone(r)
Insertable(r) == ~ContextDone(r) /\ ~deleted

\* CreateQuestion.
CreateQuestion(r) ==
    /\ ask[r].pc = "saving"
    /\ Insertable(r)
    /\ history' = history \union {[request |-> r, answer |-> ask[r].answer]}

Save(r) ==
    /\ CreateQuestion(r)
    /\ End(r, "ok")
    /\ UNCHANGED <<deleted, draining, slots, server>>

\* The row is inserted, but the handler sees an error.
SaveInDoubt(r) ==
    /\ CreateQuestion(r)
    /\ End(r, "failed")
    /\ UNCHANGED <<deleted, draining, slots, server>>

SaveFails(r) ==
    /\ ask[r].pc = "saving"
    /\ End(r, "failed")
    /\ UNCHANGED <<deleted, history, draining, slots, server>>

-----------------------------------------------------------------------------
(* AnswerQuestion in the processor.                                         *)

\* The call is over for the processor: it has been cancelled.
\* (not context.is_active())
Inactive(r) == call[r].rpc # "open"

\* Mutant of RefuseCall: acquire_slot inside of the try.
RefuseCall_releases(r) ==
    /\ server[r].pc = "idle"
    /\ call[r].rpc # "none"
    /\ draining \/ slots = 0
    /\ server' = [server EXCEPT ![r].pc = "closed"]
    /\ slots' = slots + 1
    /\ call' = [call EXCEPT ![r].rpc = IF Inactive(r) THEN @ ELSE "error"]
    /\ UNCHANGED <<deleted, history, draining, ask>>

\* draining, and acquire_slot outside of the try: both abort.
RefuseCall(r) ==
    /\ server[r].pc = "idle"
    /\ call[r].rpc # "none"
    /\ draining \/ slots = 0
    /\ server' = [server EXCEPT ![r].pc = "closed"]
    /\ call' = [call EXCEPT ![r].rpc = IF Inactive(r) THEN @ ELSE "error"]
    /\ UNCHANGED <<deleted, history, draining, slots, ask>>

AcquireSlot(r) ==
    /\ server[r].pc = "idle"
    /\ call[r].rpc # "none"
    /\ ~draining /\ slots > 0
    /\ slots' = slots - 1
    /\ server' = [server EXCEPT ![r].pc = "starting"]
    /\ UNCHANGED <<deleted, history, draining, ask, call>>

\* add_callback: refused without notice when the call is over.
AddCallback(r) ==
    /\ server[r].pc = "starting"
    /\ server' = [server EXCEPT ![r].pc = "opening",
                                ![r].callback = IF Inactive(r) THEN @ ELSE "registered"]
    /\ UNCHANGED <<deleted, history, draining, slots, ask, call>>

\* set_response is called with the open stream of the model: it stores it ...
SetResponse(r) ==
    /\ server[r].pc = "opening"
    /\ server' = [server EXCEPT ![r].pc = "checking", ![r].response = "open"]
    /\ UNCHANGED <<deleted, history, draining, slots, ask, call>>

\* Mutant of CheckCancelled: the event is not looked at.
CheckCancelled_never(r) ==
    /\ server[r].pc = "checking"
    /\ server' = [server EXCEPT ![r].pc = "reading"]
    /\ UNCHANGED <<deleted, history, draining, slots, ask, call>>

\* ... and then looks whether the call has been cancelled.
CheckCancelled(r) ==
    /\ server[r].pc = "checking"
    /\ server' = [server EXCEPT ![r].pc = "reading",
                                ![r].response = IF server[r].cancelled THEN "closed" ELSE @]
    /\ UNCHANGED <<deleted, history, draining, slots, ask, call>>

\* The generator ends, or is dropped where it stands, which closes the response
\* and runs release_slot.  Its callback may still run, to no effect.
Leave(r, s) ==
    /\ server' = [server EXCEPT ![r] =
                    [NewServer EXCEPT !.pc = "closed", !.produced = s.produced,
                                      !.complete = s.complete]]
    /\ slots' = slots + 1

\* The model sends text, and perhaps says in the same line that it is done.
\* Events of a call that is over go nowhere.
StreamText(r) ==
    /\ server[r].pc = "reading"
    /\ server[r].response = "open"
    /\ server[r].produced < MaxTokens[r]
    /\ \E done \in BOOLEAN :
          LET s == [server[r] EXCEPT !.produced = @ + 1, !.complete = done]
          IN  IF Inactive(r)
              THEN Leave(r, s) /\ UNCHANGED call
              ELSE /\ call' = [call EXCEPT ![r].wire = Append(@, s.produced)]
                   /\ server' = [server EXCEPT ![r] =
                        [s EXCEPT !.pc = IF done THEN "completing" ELSE "reading"]]
                   /\ UNCHANGED slots
    /\ UNCHANGED <<deleted, history, draining, ask>>

\* The model says that it is done.
ModelDone(r) ==
    /\ server[r].pc = "reading"
    /\ server[r].response = "open"
    /\ server' = [server EXCEPT ![r].pc = "completing", ![r].complete = TRUE]
    /\ UNCHANGED <<deleted, history, draining, slots, ask, call>>

YieldDone(r) ==
    /\ server[r].pc = "completing"
    /\ IF Inactive(r)
       THEN Leave(r, server[r]) /\ UNCHANGED call
       ELSE /\ call' = [call EXCEPT ![r].wire = Append(@, Done)]
            /\ server' = [server EXCEPT ![r].pc = "returning"]
            /\ UNCHANGED slots
    /\ UNCHANGED <<deleted, history, draining, ask>>

Return(r) ==
    /\ server[r].pc = "returning"
    /\ Leave(r, server[r])
    /\ call' = [call EXCEPT ![r].rpc = IF Inactive(r) THEN @ ELSE "ok"]
    /\ UNCHANGED <<deleted, history, draining, ask>>

\* Mutant of StreamFails: the slot is kept when the model fails.
StreamFails_keepsSlot(r) ==
    /\ server[r].pc \in {"opening", "checking", "reading"}
    /\ server' = [server EXCEPT ![r].pc = "closed", ![r].response = "closed"]
    /\ call' = [call EXCEPT ![r].rpc = IF Inactive(r) THEN @ ELSE "error"]
    /\ UNCHANGED <<deleted, history, draining, slots, ask>>

\* Mutant of StreamFails: a stream that ends early is taken for complete.
StreamFails_takenForDone(r) ==
    /\ server[r].pc = "reading"
    /\ server' = [server EXCEPT ![r].pc = "completing"]
    /\ UNCHANGED <<deleted, history, draining, slots, ask, call>>

\* Mutant of StreamFails: the model is asked again.
StreamFails_retries(r) ==
    /\ server[r].pc = "reading"
    /\ server' = [server EXCEPT ![r].pc = "opening", ![r].response = "none"]
    /\ UNCHANGED <<deleted, history, draining, slots, ask, call>>

\* An exception: the model cannot be reached, refuses, reports an error, ends
\* its stream early, is silent for OLLAMA_CHAT_TIMEOUT, or its response has been
\* closed.
StreamFails(r) ==
    /\ server[r].pc \in {"opening", "reading"}
    /\ Leave(r, server[r])
    /\ call' = [call EXCEPT ![r].rpc = IF Inactive(r) THEN @ ELSE "error"]
    /\ UNCHANGED <<deleted, history, draining, ask>>

\* cancel_response, run by gRPC when the call is over: it sets the event ...
SetCancelled(r) ==
    /\ server[r].callback = "registered"
    /\ Inactive(r)
    /\ server' = [server EXCEPT ![r].callback = "running", ![r].cancelled = TRUE]
    /\ UNCHANGED <<deleted, history, draining, slots, ask, call>>

\* ... and then closes the response if there is one.
CloseResponse(r) ==
    /\ server[r].callback = "running"
    /\ server' = [server EXCEPT ![r].callback = "ran",
                                ![r].response = IF @ = "open" THEN "closed" ELSE @]
    /\ UNCHANGED <<deleted, history, draining, slots, ask, call>>

-----------------------------------------------------------------------------
(* What happens meanwhile.                                                  *)

ClientLeaves(r) ==
    /\ r \in Watched
    /\ ask[r].pc \notin {"new", "ended"}
    /\ ~ask[r].gone
    /\ ask' = [ask EXCEPT ![r].gone = TRUE]
    /\ UNCHANGED <<deleted, history, draining, slots, call, server>>

\* answerGenerationTimeout.
GenerationTimesOut(r) ==
    /\ ask[r].pc # "new"
    /\ ~ContextDone(r)
    /\ ask' = [ask EXCEPT ![r].late = TRUE]
    /\ UNCHANGED <<deleted, history, draining, slots, call, server>>

\* The processor learns that the context of the call is done, or cancels the
\* calls that outlast the grace of server.stop.
CallCancelled(r) ==
    /\ call[r].rpc = "open"
    /\ ContextDone(r) \/ draining
    /\ call' = [call EXCEPT ![r].rpc = "cancelled"]
    /\ UNCHANGED <<deleted, history, draining, slots, ask, server>>

\* serve_grpc is interrupted.
Drain ==
    /\ ~draining
    /\ draining' = TRUE
    /\ UNCHANGED <<deleted, history, slots, ask, call, server>>

\* DeleteOwnedWithUsage: the foreign key deletes the history with the row.
Delete ==
    /\ ~deleted
    /\ deleted' = TRUE
    /\ history' = {}
    /\ UNCHANGED <<draining, slots, ask, call, server>>

-----------------------------------------------------------------------------
AskNext(r) ==
    \/ FindDocument(r) \/ StartAnswer(r) \/ AskFails(r)
    \/ Receive(r) \/ EndOfStream(r) \/ ReceiveError(r)
    \/ Save(r) \/ SaveInDoubt(r) \/ SaveFails(r)

\* Steps of the processor that do not wait for the model.
ServerNext(r) ==
    \/ RefuseCall(r) \/ AcquireSlot(r) \/ AddCallback(r)
    \/ CheckCancelled(r) \/ YieldDone(r) \/ Return(r)

CallbackNext(r) == SetCancelled(r) \/ CloseResponse(r)

ModelNext(r) == SetResponse(r) \/ StreamText(r) \/ ModelDone(r) \/ StreamFails(r)

Next ==
    \/ Drain
    \/ Delete
    \/ \E r \in Requests :
          \/ AskNext(r) \/ ServerNext(r) \/ CallbackNext(r) \/ ModelNext(r)
          \/ ClientLeaves(r) \/ GenerationTimesOut(r) \/ CallCancelled(r)

\* Handlers and the processor go on, calls that are over are noticed, a
\* generation times out, and OLLAMA_CHAT_TIMEOUT ends the wait for the model's
\* first line.  From then on nothing is expected of the model: only reading
\* from a closed response fails at once.
\* That a handler goes on assumes that a client which stays connected reads what
\* is sent to it: the server has no write timeout (src/api/main.go), so that a
\* write could wait for one that does not.
Fairness ==
    \A r \in Watched :
        /\ WF_vars(AskNext(r))
        /\ WF_vars(ServerNext(r))
        /\ WF_vars(CallbackNext(r))
        /\ WF_vars(SetResponse(r))
        /\ WF_vars(server[r].response = "closed" /\ StreamFails(r))
        /\ WF_vars(GenerationTimesOut(r))
        /\ WF_vars(CallCancelled(r))

Spec == Init /\ [][Next]_vars
FairSpec == Spec /\ Fairness

-----------------------------------------------------------------------------
(* Correctness.                                                             *)

Holding == {r \in Requests : server[r].pc \notin {"idle", "closed"}}

Ask ==
    [pc : {"new", "starting", "streaming", "saving", "ended"}, answer : Seq(Nat),
     modelCompleted : BOOLEAN, gone : BOOLEAN, late : BOOLEAN,
     outcome : {"none", "refused", "silent", "failed", "ok"}]

Call == [rpc : {"none", "open", "cancelled", "ok", "error"}, wire : Seq(Nat)]

Server ==
    [pc : {"idle", "starting", "opening", "checking", "reading", "completing",
           "returning", "closed"},
     produced : Nat, complete : BOOLEAN, cancelled : BOOLEAN,
     response : {"none", "open", "closed"},
     callback : {"none", "registered", "running", "ran"}]

\* Every variable keeps its type, and the slots their range.
TypeOK ==
    /\ deleted \in BOOLEAN
    /\ history \subseteq [request : Requests, answer : Seq(Nat)]
    /\ draining \in BOOLEAN
    /\ slots \in 0 .. QuestionCapacity
    /\ ask \in [Requests -> Ask]
    /\ call \in [Requests -> Call]
    /\ server \in [Requests -> Server]

\* Only whole answers are saved: the model said that it was done, and the row
\* holds every piece of its text in order, whatever was cut short on the way.
SavedIsWhole ==
    \A q \in history :
        /\ server[q.request].complete
        /\ q.answer = [i \in 1 .. server[q.request].produced |-> i]

\* No history outlives its document, however its deletion falls between the
\* steps of an answer.
NoHistoryOfDeleted == deleted => history = {}

\* Who is told that the answer is complete finds it in the history, unless
\* the document has been deleted; and if an answer is complete, the processor
\* has taken its slot back, so that the next question is not refused for it.
OkIsTrue ==
    \A r \in Requests :
        ask[r].outcome = "ok" =>
            /\ deleted \/ [request |-> r, answer |-> ask[r].answer] \in history
            /\ r \notin Holding

\* No cancellation is lost between set_response and cancel_response: once the
\* callback has run, nobody reads from a model whose response is open.
CancelReachesModel ==
    \A r \in Requests :
        server[r].callback = "ran" /\ server[r].pc = "reading" =>
            server[r].response = "closed"

\* Every way out of AnswerQuestion gives its slot back, once.
SlotsAreConserved == slots + Cardinality(Holding) = QuestionCapacity

\* Every question is answered in the end, one way or another, even if the model
\* falls silent in the middle of its answer.
EveryAskEnds == \A r \in Watched : ask[r].pc # "new" ~> ask[r].pc = "ended"

\* And a silent model keeps no slot from others: once the call is over, its
\* slot comes back, if the processor had learned of the call in time to be told
\* of its end.
CancelledSlotsReturn ==
    \A r \in Watched :
        server[r].callback # "none" /\ Inactive(r) ~> r \notin Holding
=============================================================================
