------------------------ MODULE AnswerStream_proofs ------------------------
(***************************************************************************)
(* The safety of AnswerStream, for any number of questions, any number of  *)
(* slots and answers of any length.                                        *)
(*                                                                         *)
(* One invariant of a single question, OneQuestion, ties its handler, its  *)
(* call and the processor's end of it together.  A step disturbs it for    *)
(* its own question only; history and slots are shared, and have an        *)
(* invariant of their own.                                                 *)
(***************************************************************************)
EXTENDS AnswerStream, FiniteSetTheorems, SequenceTheorems, TLAPS

\* Types without the upper bound of slots, which needs a count.
Types ==
    /\ deleted \in BOOLEAN
    /\ history \subseteq [request : Requests, answer : Seq(Nat)]
    /\ draining \in BOOLEAN
    /\ slots \in Nat
    /\ ask \in [Requests -> Ask]
    /\ call \in [Requests -> Call]
    /\ server \in [Requests -> Server]

\* All pieces of text up to the n-th.
Pieces(n) == [i \in 1 .. n |-> i]

\* What is on its way behind the n-th piece of text: the pieces that follow, in
\* order, and perhaps the last event behind them.
InOrder(w, n) ==
    \A i \in 1 .. Len(w) : w[i] = n + i \/ (i = Len(w) /\ w[i] = Done)

EndsWithDone(w) == w # <<>> /\ w[Len(w)] = Done

\* The number of pieces among it.
Texts(w) == IF EndsWithDone(w) THEN Len(w) - 1 ELSE Len(w)

\* Where the two ends of a call can be at the same time.
EndsAgree(a, c, s) ==
    /\ a.pc \in {"new", "starting"} =>
          c = NewCall /\ a.answer = <<>> /\ ~a.modelCompleted
    /\ c.rpc = "none" => s = NewServer /\ a.pc \in {"new", "starting", "ended"}
    /\ s.pc = "idle" => s = NewServer
    /\ s.pc \in {"starting", "opening", "checking"} => s.produced = 0
    /\ s.pc \in {"completing", "returning"} => s.complete
    /\ s.pc = "closed" => c.rpc # "open" /\ s.callback = "none"
    /\ c.rpc = "ok" => s.pc = "closed" /\ s.complete
    /\ a.pc # "ended" => a.outcome = "none"

\* What has been received and what is on its way are the pieces of text in
\* order; unless the call was cut short, they are all that the model has said.
NothingLost(a, c, s) ==
    /\ a.pc = "streaming" =>
          /\ a.answer = Pieces(Len(a.answer))
          /\ InOrder(c.wire, Len(a.answer))
          /\ a.modelCompleted => c.wire = <<>>
          /\ c.rpc \in {"open", "ok"} => s.produced = Len(a.answer) + Texts(c.wire)
          /\ c.rpc = "open" /\ (a.modelCompleted \/ EndsWithDone(c.wire)) =>
                s.pc = "returning"
    /\ a.pc = "saving" => c.rpc = "ok" /\ a.answer = Pieces(s.produced)

\* Where set_response and cancel_response can be at the same time.
CancelSeen(s) ==
    /\ s.callback \in {"running", "ran"} => s.cancelled
    /\ s.pc \in {"checking", "reading"} => s.response # "none"
    /\ s.callback = "ran" /\ s.pc = "reading" => s.response = "closed"

OneQuestion(a, c, s) == EndsAgree(a, c, s) /\ NothingLost(a, c, s) /\ CancelSeen(s)

Questions == \A r \in Requests : OneQuestion(ask[r], call[r], server[r])

\* The processor is done with a saved answer, and with one whose client was
\* told that it is complete.
Whole(answer, s) == s.pc = "closed" /\ s.complete /\ answer = Pieces(s.produced)

Saved ==
    /\ deleted => history = {}
    /\ \A q \in history : Whole(q.answer, server[q.request])

Told(r) ==
    ask[r].outcome = "ok" =>
        /\ ask[r].pc = "ended" /\ server[r].pc = "closed"
        /\ deleted \/ [request |-> r, answer |-> ask[r].answer] \in history

IInv ==
    /\ Types
    /\ Questions
    /\ Saved
    /\ \A r \in Requests : Told(r)
    /\ SlotsAreConserved

-----------------------------------------------------------------------------
(* Types.                                                                   *)

LEMMA TypesInit == Init => Types
<1> SUFFICES ASSUME Init PROVE Types
  OBVIOUS
<1>1. <<>> \in Seq(Nat)
  OBVIOUS
<1>2. NewAsk \in Ask /\ NewCall \in Call /\ NewServer \in Server
  BY <1>1 DEF NewAsk, Ask, NewCall, Call, NewServer, Server
<1> QED  BY <1>2, BoundsAssumption DEF Init, Types

\* A step of one question changes what belongs to it alone.
Local(r) ==
    /\ ask' = [ask EXCEPT ![r] = ask'[r]]
    /\ call' = [call EXCEPT ![r] = call'[r]]
    /\ server' = [server EXCEPT ![r] = server'[r]]

QuestionNext(r) ==
    \/ AskNext(r) \/ ServerNext(r) \/ CallbackNext(r) \/ ModelNext(r)
    \/ ClientLeaves(r) \/ GenerationTimesOut(r) \/ CallCancelled(r)

LEMMA StepsAreLocal ==
    ASSUME Types, NEW r \in Requests, QuestionNext(r)
    PROVE  Local(r)
<1> USE DEF Types, Local
<1>1. CASE AskNext(r)
  BY <1>1 DEF AskNext, FindDocument, StartAnswer, AskFails, Receive, EndOfStream, ReceiveError,
              Save, SaveInDoubt, SaveFails, CreateQuestion, GiveUp, End, Goto
<1>2. CASE ServerNext(r)
  BY <1>2 DEF ServerNext, RefuseCall, AcquireSlot, AddCallback, CheckCancelled, YieldDone,
              Return, Leave
<1>3. CASE CallbackNext(r)
  BY <1>3 DEF CallbackNext, SetCancelled, CloseResponse
<1>4. CASE ModelNext(r)
  BY <1>4 DEF ModelNext, SetResponse, StreamText, ModelDone, StreamFails, Leave
<1>5. CASE ClientLeaves(r) \/ GenerationTimesOut(r) \/ CallCancelled(r)
  BY <1>5 DEF ClientLeaves, GenerationTimesOut, CallCancelled
<1> QED  BY <1>1, <1>2, <1>3, <1>4, <1>5 DEF QuestionNext

\* The handler's record and the call after a step of the handler.
LEMMA HandlerTypes ==
    ASSUME Types, NEW r \in Requests, AskNext(r)
    PROVE  Types'
<1>0. ask[r] \in Ask /\ call[r] \in Call /\ <<>> \in Seq(Nat)
  BY DEF Types
<1>1. ASSUME NEW pc \in {"starting", "streaming", "saving"}, Goto(r, pc)
      PROVE  ask'[r] \in Ask
  BY <1>0, <1>1 DEF Goto, Types, Ask
<1>2. ASSUME NEW outcome \in {"refused", "silent", "failed", "ok"}, End(r, outcome)
      PROVE  ask'[r] \in Ask /\ call'[r] \in Call
  BY <1>0, <1>2 DEF End, Types, Ask, Call
<1>3. ask'[r] \in Ask /\ call'[r] \in Call /\ UNCHANGED <<deleted, draining, slots, server>>
  <2>1. CASE FindDocument(r) \/ AskFails(r) \/ SaveFails(r)
    BY <1>0, <1>1, <1>2, <2>1 DEF FindDocument, AskFails, SaveFails
  <2>2. CASE StartAnswer(r)
    BY <1>0, <1>1, <2>2 DEF StartAnswer, Types, Call
  <2>3. CASE Receive(r)
    <3>1. Head(call[r].wire) \in Nat /\ Tail(call[r].wire) \in Seq(Nat)
      BY <1>0, <2>3 DEF Receive, Call
    <3>2. Append(ask[r].answer, Head(call[r].wire)) \in Seq(Nat)
      BY <1>0, <3>1 DEF Ask
    <3>3. call'[r] \in Call
      BY <1>0, <2>3, <3>1 DEF Receive, Types, Call
    <3>4. ask'[r] \in Ask
      BY <1>0, <2>3, <3>2 DEF Receive, Types, Ask
    <3> QED  BY <2>3, <3>3, <3>4 DEF Receive
  <2>4. CASE EndOfStream(r) \/ ReceiveError(r)
    BY <1>0, <1>1, <1>2, <2>4 DEF EndOfStream, ReceiveError, GiveUp
  <2>5. CASE Save(r) \/ SaveInDoubt(r)
    BY <1>2, <2>5 DEF Save, SaveInDoubt, CreateQuestion
  <2> QED  BY <2>1, <2>2, <2>3, <2>4, <2>5 DEF AskNext
<1>4. history' \subseteq [request : Requests, answer : Seq(Nat)]
  <2>1. [request |-> r, answer |-> ask[r].answer] \in [request : Requests, answer : Seq(Nat)]
    BY <1>0 DEF Ask
  <2> QED
    BY <2>1 DEF AskNext, FindDocument, StartAnswer, AskFails, Receive, EndOfStream,
                ReceiveError, Save, SaveInDoubt, SaveFails, CreateQuestion, Types
<1>5. Local(r)
  BY StepsAreLocal DEF QuestionNext
<1> QED  BY <1>3, <1>4, <1>5 DEF Types, Local

\* The processor's record and the call after a step of the processor.
LEMMA ProcessorTypes ==
    ASSUME Types, NEW r \in Requests,
           ServerNext(r) \/ CallbackNext(r) \/ ModelNext(r)
    PROVE  Types'
<1>0. server[r] \in Server /\ call[r] \in Call
  BY DEF Types
<1>1. ASSUME NEW s \in Server, Leave(r, s)
      PROVE  server'[r] \in Server /\ slots' \in Nat
  <2>1. [NewServer EXCEPT !.pc = "closed", !.produced = s.produced, !.complete = s.complete]
           \in Server
    BY DEF NewServer, Server
  <2>2. server'[r] = [NewServer EXCEPT !.pc = "closed", !.produced = s.produced,
                                       !.complete = s.complete]
    BY <1>1 DEF Leave, Types
  <2> QED  BY <1>1, <2>1, <2>2 DEF Leave, Types
<1>2. ASSUME NEW rpc \in {"ok", "error"},
             call' = [call EXCEPT ![r].rpc = IF Inactive(r) THEN @ ELSE rpc]
      PROVE  call'[r] \in Call
  BY <1>0, <1>2 DEF Types, Call
<1>3. ASSUME NEW event \in Nat, call' = [call EXCEPT ![r].wire = Append(@, event)]
      PROVE  call'[r] \in Call
  <2>1. Append(call[r].wire, event) \in Seq(Nat)
    BY <1>0 DEF Call
  <2> QED  BY <1>0, <1>3, <2>1 DEF Types, Call
<1>4. server'[r] \in Server /\ call'[r] \in Call /\ slots' \in Nat
  <2>1. CASE RefuseCall(r)
    BY <1>0, <1>2, <2>1 DEF RefuseCall, Types, Server
  <2>2. CASE AcquireSlot(r)
    <3>1. slots' \in Nat
      BY <2>2 DEF AcquireSlot, Types
    <3>2. server'[r] = [server[r] EXCEPT !.pc = "starting"]
      BY <2>2 DEF AcquireSlot, Types
    <3> QED  BY <1>0, <2>2, <3>1, <3>2 DEF AcquireSlot, Server
  <2>3. CASE AddCallback(r)
    BY <1>0, <2>3 DEF AddCallback, Types, Server
  <2>4. CASE CheckCancelled(r)
    BY <1>0, <2>4 DEF CheckCancelled, Types, Server
  <2>5. CASE SetCancelled(r) \/ CloseResponse(r)
    <3>1. CASE SetCancelled(r)
      BY <1>0, <3>1 DEF SetCancelled, Types, Server
    <3>2. CASE CloseResponse(r)
      <4>1. PICK response \in {server[r].response, "closed"} :
               server'[r] = [server[r] EXCEPT !.callback = "ran", !.response = response]
        BY <3>2 DEF CloseResponse, Types
      <4>2. slots' = slots /\ call' = call
        BY <3>2 DEF CloseResponse
      <4> QED  BY <1>0, <4>1, <4>2 DEF Types, Server
    <3> QED  BY <2>5, <3>1, <3>2
  <2>6. CASE SetResponse(r) \/ ModelDone(r)
    <3>1. /\ [server[r] EXCEPT !.pc = "checking", !.response = "open"] \in Server
          /\ [server[r] EXCEPT !.pc = "completing", !.complete = TRUE] \in Server
      BY <1>0 DEF Server
    <3>2. server'[r] \in {[server[r] EXCEPT !.pc = "checking", !.response = "open"],
                          [server[r] EXCEPT !.pc = "completing", !.complete = TRUE]}
      BY <2>6 DEF SetResponse, ModelDone, Types
    <3> QED  BY <1>0, <2>6, <3>1, <3>2 DEF SetResponse, ModelDone, Types
  <2>7. CASE YieldDone(r)
    <3>1. CASE Inactive(r)
      BY <1>0, <1>1, <2>7, <3>1 DEF YieldDone
    <3>2. CASE ~Inactive(r)
      <4>1. call'[r] \in Call
        BY <1>3, <2>7, <3>2 DEF YieldDone, Done
      <4>2. server'[r] = [server[r] EXCEPT !.pc = "returning"] /\ slots' \in Nat
        BY <2>7, <3>2 DEF YieldDone, Types
      <4> QED  BY <1>0, <4>1, <4>2 DEF Server
    <3> QED  BY <3>1, <3>2
  <2>8. CASE Return(r) \/ StreamFails(r)
    BY <1>0, <1>1, <1>2, <2>8 DEF Return, StreamFails
  <2>9. CASE StreamText(r)
    <3> DEFINE s(done) == [server[r] EXCEPT !.produced = @ + 1, !.complete = done]
    <3>1. PICK done \in BOOLEAN :
             IF Inactive(r)
             THEN Leave(r, s(done)) /\ UNCHANGED call
             ELSE /\ call' = [call EXCEPT ![r].wire = Append(@, s(done).produced)]
                  /\ server' = [server EXCEPT ![r] =
                       [s(done) EXCEPT !.pc = IF done THEN "completing" ELSE "reading"]]
                  /\ UNCHANGED slots
      BY <2>9 DEF StreamText
    <3>2. s(done) \in Server /\ s(done).produced \in Nat
      <4>1. server[r].produced + 1 \in Nat
        BY <1>0 DEF Server
      <4>2. [server[r] EXCEPT !.produced = server[r].produced + 1] \in Server
        BY <1>0, <4>1 DEF Server
      <4> QED  BY <1>0, <4>1, <4>2 DEF Server
    <3>3. [s(done) EXCEPT !.pc = IF done THEN "completing" ELSE "reading"] \in Server
      BY <3>2 DEF Server
    <3> HIDE DEF s
    <3>4. CASE Inactive(r)
      BY <1>0, <1>1, <3>1, <3>2, <3>4
    <3>5. CASE ~Inactive(r)
      <4>1. call'[r] \in Call
        BY <1>3, <3>1, <3>2, <3>5
      <4> QED  BY <3>1, <3>3, <3>5, <4>1 DEF Types
    <3> QED  BY <3>4, <3>5
  <2> QED
    BY <2>1, <2>2, <2>3, <2>4, <2>5, <2>6, <2>7, <2>8, <2>9
       DEF ServerNext, CallbackNext, ModelNext
<1>5. UNCHANGED <<deleted, history, draining, ask>>
  BY DEF ServerNext, RefuseCall, AcquireSlot, AddCallback, CheckCancelled, YieldDone, Return,
         CallbackNext, SetCancelled, CloseResponse, ModelNext, SetResponse, StreamText,
         ModelDone, StreamFails
<1>6. Local(r)
  BY StepsAreLocal DEF QuestionNext
<1> QED  BY <1>4, <1>5, <1>6 DEF Types, Local

\* What happens meanwhile.
LEMMA OtherTypes ==
    ASSUME Types,
           \/ Drain \/ Delete \/ UNCHANGED vars
           \/ \E r \in Requests :
                 ClientLeaves(r) \/ GenerationTimesOut(r) \/ CallCancelled(r)
    PROVE  Types'
<1>1. CASE Drain \/ Delete \/ UNCHANGED vars
  BY <1>1 DEF Drain, Delete, vars, Types
<1>2. ASSUME NEW r \in Requests,
             ClientLeaves(r) \/ GenerationTimesOut(r) \/ CallCancelled(r)
      PROVE  Types'
  <2>1. ask[r] \in Ask /\ call[r] \in Call
    BY DEF Types
  <2>2. CASE ClientLeaves(r) \/ GenerationTimesOut(r)
    <3>1. ask' \in {[ask EXCEPT ![r].gone = TRUE], [ask EXCEPT ![r].late = TRUE]}
      BY <2>2 DEF ClientLeaves, GenerationTimesOut
    <3>2. /\ [ask EXCEPT ![r].gone = TRUE] \in [Requests -> Ask]
          /\ [ask EXCEPT ![r].late = TRUE] \in [Requests -> Ask]
      <4>1. [ask[r] EXCEPT !.gone = TRUE] \in Ask /\ [ask[r] EXCEPT !.late = TRUE] \in Ask
        BY <2>1 DEF Ask
      <4> QED  BY <4>1 DEF Types
    <3> QED  BY <2>2, <3>1, <3>2 DEF ClientLeaves, GenerationTimesOut, Types
  <2>3. CASE CallCancelled(r)
    BY <2>1, <2>3 DEF CallCancelled, Types, Call
  <2> QED  BY <1>2, <2>2, <2>3
<1> QED  BY <1>1, <1>2

LEMMA TypesStep == Types /\ [Next]_vars => Types'
BY HandlerTypes, ProcessorTypes, OtherTypes DEF Next

-----------------------------------------------------------------------------
(* One question.                                                            *)

\* One more piece of text.
LEMMA NextPiece ==
    ASSUME NEW n \in Nat
    PROVE  /\ Pieces(n) \in Seq(Nat) /\ Len(Pieces(n)) = n
           /\ Append(Pieces(n), n + 1) = Pieces(n + 1)
BY DEF Pieces

LEMMA EmptyWire ==
    ASSUME NEW n \in Nat
    PROVE  InOrder(<<>>, n) /\ ~EndsWithDone(<<>>) /\ Texts(<<>>) = 0
BY DEF InOrder, EndsWithDone, Texts

LEMMA TextsType == ASSUME NEW w \in Seq(Nat) PROVE Texts(w) \in Nat
<1>1. w # <<>> => Len(w) \in Nat \ {0}
  BY EmptySeq
<1> QED  BY <1>1 DEF Texts, EndsWithDone

\* The event that comes first is the next piece of text ...
LEMMA TextFirst ==
    ASSUME NEW n \in Nat, NEW w \in Seq(Nat), w # <<>>, InOrder(w, n), Head(w) # Done
    PROVE  /\ Head(w) = n + 1 /\ InOrder(Tail(w), n + 1)
           /\ EndsWithDone(Tail(w)) <=> EndsWithDone(w)
           /\ Texts(Tail(w)) = Texts(w) - 1
<1>1. /\ Len(w) \in Nat \ {0} /\ Head(w) = w[1]
      /\ Len(Tail(w)) = Len(w) - 1
      /\ \A i \in 1 .. Len(Tail(w)) : Tail(w)[i] = w[i + 1]
  BY EmptySeq, HeadTailProperties
<1>2. Head(w) = n + 1
  <2>1. 1 \in 1 .. Len(w)
    BY <1>1
  <2>2. w[1] = n + 1 \/ w[1] = Done
    BY <2>1 DEF InOrder
  <2> QED  BY <1>1, <2>2
<1>3. InOrder(Tail(w), n + 1)
  <2>1. SUFFICES ASSUME NEW i \in 1 .. Len(Tail(w))
                 PROVE  \/ Tail(w)[i] = n + 1 + i
                        \/ i = Len(Tail(w)) /\ Tail(w)[i] = Done
    BY DEF InOrder
  <2>2. i + 1 \in 1 .. Len(w) /\ Tail(w)[i] = w[i + 1] /\ i \in Nat
    BY <1>1
  <2>3. w[i + 1] = n + (i + 1) \/ (i + 1 = Len(w) /\ w[i + 1] = Done)
    BY <2>2 DEF InOrder
  <2>4. n + (i + 1) = n + 1 + i
    BY <2>2
  <2>5. ASSUME NEW l \in Nat, i + 1 = l
        PROVE  i = l - 1
    BY <2>2, <2>5
  <2> QED  BY <1>1, <2>2, <2>3, <2>4, <2>5
<1>4. EndsWithDone(Tail(w)) <=> EndsWithDone(w)
  <2>1. CASE Len(w) = 1
    <3>1. Tail(w) \in Seq(Nat) /\ Len(Tail(w)) = 0
      BY <1>1, <2>1, HeadTailProperties
    <3> QED  BY <1>1, <2>1, <3>1, EmptySeq DEF EndsWithDone
  <2>2. CASE Len(w) # 1
    <3>1. Len(Tail(w)) \in 1 .. Len(Tail(w)) /\ Len(Tail(w)) + 1 = Len(w)
      BY <1>1, <2>2
    <3>2. Tail(w)[Len(Tail(w))] = w[Len(w)]
      BY <1>1, <3>1
    <3>3. Tail(w) # <<>>
      <4>1. Len(Tail(w)) # 0 /\ Len(<<>>) = 0
        BY <1>1, <2>2
      <4> QED  BY <4>1
    <3> QED  BY <3>2, <3>3 DEF EndsWithDone
  <2> QED  BY <2>1, <2>2
<1>5. Texts(Tail(w)) = Texts(w) - 1
  BY <1>1, <1>4 DEF Texts
<1> QED  BY <1>2, <1>3, <1>4, <1>5

\* ... or the last event, with nothing behind it.
LEMMA DoneFirst ==
    ASSUME NEW n \in Nat, NEW w \in Seq(Nat), w # <<>>, InOrder(w, n), Head(w) = Done
    PROVE  Tail(w) = <<>> /\ EndsWithDone(w) /\ Texts(w) = 0
<1>1. Len(w) \in Nat \ {0} /\ Head(w) = w[1] /\ Len(Tail(w)) = Len(w) - 1 /\ Tail(w) \in Seq(Nat)
  BY EmptySeq, HeadTailProperties
<1>2. Len(w) = 1
  <2>1. 1 \in 1 .. Len(w)
    BY <1>1
  <2>2. w[1] = n + 1 \/ 1 = Len(w)
    BY <2>1 DEF InOrder
  <2> QED  BY <1>1, <2>2 DEF Done
<1>3. Tail(w) = <<>>
  <2>1. Len(Tail(w)) = 0
    BY <1>1, <1>2
  <2> QED  BY <1>1, <2>1, EmptySeq
<1> QED  BY <1>1, <1>2, <1>3 DEF EndsWithDone, Texts

\* The processor sends the next piece of text, or the last event.
LEMMA SendOne ==
    ASSUME NEW n \in Nat, NEW w \in Seq(Nat), InOrder(w, n), ~EndsWithDone(w)
    PROVE  LET text == Append(w, n + Len(w) + 1)
               end == Append(w, Done)
           IN  /\ InOrder(text, n) /\ ~EndsWithDone(text) /\ Texts(text) = Texts(w) + 1
               /\ InOrder(end, n) /\ EndsWithDone(end) /\ Texts(end) = Texts(w)
<1>1. Len(w) \in Nat /\ n + Len(w) + 1 \in Nat /\ Done \in Nat
  BY DEF Done
<1>2. ASSUME NEW e \in Nat
      PROVE  /\ Append(w, e) # <<>> /\ Len(Append(w, e)) = Len(w) + 1
             /\ \A i \in 1 .. Len(w) : Append(w, e)[i] = w[i]
             /\ Append(w, e)[Len(w) + 1] = e
  BY AppendProperties
<1>3. \A i \in 1 .. Len(w) : w[i] = n + i
  <2>1. CASE w = <<>>
    BY <2>1
  <2>2. CASE w # <<>>
    BY <1>1, <2>2 DEF InOrder, EndsWithDone
  <2> QED  BY <2>1, <2>2
<1>4. ASSUME NEW e \in Nat, e = n + Len(w) + 1
      PROVE  InOrder(Append(w, e), n) /\ ~EndsWithDone(Append(w, e))
  BY <1>1, <1>2, <1>3, <1>4 DEF InOrder, EndsWithDone, Done
<1>5. InOrder(Append(w, Done), n) /\ EndsWithDone(Append(w, Done))
  BY <1>1, <1>2, <1>3 DEF InOrder, EndsWithDone
<1>6. Texts(w) = Len(w)
  BY DEF Texts
<1> QED  BY <1>1, <1>2, <1>4, <1>5, <1>6 DEF Texts

\* The handler receives an event: what it has and what is on its way together
\* stay what they were.
LEMMA ReceiveText ==
    ASSUME NEW a \in Ask, NEW c \in Call, NEW s \in Server, OneQuestion(a, c, s),
           a.pc = "streaming", c.wire # <<>>, Head(c.wire) # Done
    PROVE  OneQuestion([a EXCEPT !.answer = Append(@, Head(c.wire))],
                       [c EXCEPT !.wire = Tail(@)], s)
<1>1. PICK n \in Nat : n = Len(a.answer)
  BY DEF Ask
<1>2. PICK w \in Seq(Nat) : w = c.wire
  BY DEF Call
<1>3. PICK b : b = [a EXCEPT !.answer = Append(@, Head(w))]
  OBVIOUS
<1>4. PICK d : d = [c EXCEPT !.wire = Tail(@)]
  OBVIOUS
<1>5. /\ b.pc = a.pc /\ b.answer = Append(a.answer, Head(w))
      /\ b.modelCompleted = a.modelCompleted /\ b.outcome = a.outcome
      /\ d.rpc = c.rpc /\ d.wire = Tail(w)
  BY <1>2, <1>3, <1>4 DEF Ask, Call
<1>6. /\ a.answer = Pieces(n) /\ InOrder(w, n) /\ ~a.modelCompleted
      /\ c.rpc \in {"open", "ok"} => s.produced = n + Texts(w)
      /\ c.rpc = "open" /\ EndsWithDone(w) => s.pc = "returning"
  BY <1>1, <1>2 DEF OneQuestion, NothingLost
<1>7. /\ Head(w) = n + 1 /\ InOrder(d.wire, n + 1)
      /\ EndsWithDone(d.wire) <=> EndsWithDone(w)
      /\ Texts(d.wire) = Texts(w) - 1
  BY <1>2, <1>5, <1>6, TextFirst
<1>8. b.answer = Pieces(n + 1) /\ Len(b.answer) = n + 1
  <2>1. n + 1 \in Nat
    OBVIOUS
  <2> QED  BY <1>5, <1>6, <1>7, <2>1, NextPiece
<1>9. c.rpc \in {"open", "ok"} => s.produced = n + 1 + Texts(d.wire)
  BY <1>6, <1>7, TextsType
<1>10. NothingLost(b, d, s)
  BY <1>5, <1>6, <1>7, <1>8, <1>9 DEF NothingLost
<1>11. EndsAgree(b, d, s)
  BY <1>5 DEF OneQuestion, EndsAgree
<1> QED  BY <1>2, <1>3, <1>4, <1>10, <1>11 DEF OneQuestion

LEMMA ReceiveDone ==
    ASSUME NEW a \in Ask, NEW c \in Call, NEW s \in Server, OneQuestion(a, c, s),
           a.pc = "streaming", c.wire # <<>>, Head(c.wire) = Done
    PROVE  OneQuestion([a EXCEPT !.modelCompleted = TRUE],
                       [c EXCEPT !.wire = Tail(@)], s)
<1>1. PICK n \in Nat : n = Len(a.answer)
  BY DEF Ask
<1>2. PICK w \in Seq(Nat) : w = c.wire
  BY DEF Call
<1>3. PICK b : b = [a EXCEPT !.modelCompleted = TRUE]
  OBVIOUS
<1>4. PICK d : d = [c EXCEPT !.wire = Tail(@)]
  OBVIOUS
<1>5. /\ b.pc = a.pc /\ b.answer = a.answer /\ b.modelCompleted /\ b.outcome = a.outcome
      /\ d.rpc = c.rpc /\ d.wire = Tail(w)
  BY <1>2, <1>3, <1>4 DEF Ask, Call
<1>6. /\ a.answer = Pieces(n) /\ InOrder(w, n)
      /\ c.rpc \in {"open", "ok"} => s.produced = n + Texts(w)
      /\ c.rpc = "open" /\ EndsWithDone(w) => s.pc = "returning"
  BY <1>1, <1>2 DEF OneQuestion, NothingLost
<1>7. d.wire = <<>> /\ EndsWithDone(w) /\ Texts(w) = 0
  BY <1>2, <1>5, <1>6, DoneFirst
<1>8. InOrder(d.wire, n) /\ ~EndsWithDone(d.wire) /\ Texts(d.wire) = 0
  BY <1>7, EmptyWire
<1>9. NothingLost(b, d, s)
  BY <1>1, <1>5, <1>6, <1>7, <1>8 DEF NothingLost
<1>10. EndsAgree(b, d, s)
  BY <1>5 DEF OneQuestion, EndsAgree
<1> QED  BY <1>3, <1>4, <1>9, <1>10 DEF OneQuestion

LEMMA ReceiveKeeps ==
    ASSUME Types, NEW r \in Requests, OneQuestion(ask[r], call[r], server[r]), Receive(r)
    PROVE  OneQuestion(ask'[r], call'[r], server'[r])
<1>1. /\ ask[r].pc = "streaming" /\ call[r].wire # <<>> /\ server[r] \in Server
      /\ ask[r] \in Ask /\ call[r] \in Call
      /\ call'[r] = [call[r] EXCEPT !.wire = Tail(@)] /\ server'[r] = server[r]
      /\ ask'[r] = IF Head(call[r].wire) = Done
                   THEN [ask[r] EXCEPT !.modelCompleted = TRUE]
                   ELSE [ask[r] EXCEPT !.answer = Append(@, Head(call[r].wire))]
  BY DEF Receive, Types
<1>2. CASE Head(call[r].wire) = Done
  <2>1. ask'[r] = [ask[r] EXCEPT !.modelCompleted = TRUE]
    BY <1>1, <1>2
  <2>2. OneQuestion([ask[r] EXCEPT !.modelCompleted = TRUE],
                    [call[r] EXCEPT !.wire = Tail(@)], server[r])
    BY <1>1, <1>2, ReceiveDone
  <2> QED  BY <1>1, <2>1, <2>2
<1>3. CASE Head(call[r].wire) # Done
  <2>1. ask'[r] = [ask[r] EXCEPT !.answer = Append(@, Head(call[r].wire))]
    BY <1>1, <1>3
  <2>2. OneQuestion([ask[r] EXCEPT !.answer = Append(@, Head(call[r].wire))],
                    [call[r] EXCEPT !.wire = Tail(@)], server[r])
    BY <1>1, <1>3, ReceiveText
  <2> QED  BY <1>1, <2>1, <2>2
<1> QED  BY <1>2, <1>3

\* The handler of a question takes a step.
LEMMA HandlerKeeps ==
    ASSUME Types, NEW r \in Requests, OneQuestion(ask[r], call[r], server[r]), AskNext(r)
    PROVE  OneQuestion(ask'[r], call'[r], server'[r])
<1> USE DEF OneQuestion, EndsAgree, NothingLost, CancelSeen
<1>0. ask[r] \in Ask /\ call[r] \in Call
  BY DEF Types
<1>1. ASSUME NEW outcome, End(r, outcome), UNCHANGED server
      PROVE  OneQuestion(ask'[r], call'[r], server'[r])
  BY <1>0, <1>1 DEF End, Types, Ask, Call
<1>2. CASE FindDocument(r)
  <2>1. CASE deleted
    BY <1>1, <1>2, <2>1 DEF FindDocument
  <2>2. CASE ~deleted
    <3>1. /\ ask[r].pc = "new" /\ ask'[r] = [ask[r] EXCEPT !.pc = "starting"]
          /\ call'[r] = call[r] /\ server'[r] = server[r]
      BY <1>2, <2>2 DEF FindDocument, Goto, Types
    <3> QED  BY <1>0, <3>1 DEF Ask
  <2> QED  BY <2>1, <2>2
<1>3. CASE StartAnswer(r)
  <2>1. ask'[r] = [ask[r] EXCEPT !.pc = "streaming"] /\ call'[r] = [NewCall EXCEPT !.rpc = "open"]
        /\ server'[r] = NewServer
    BY <1>3 DEF StartAnswer, Goto, Types, NewCall
  <2>2. ask[r].answer = <<>> /\ ~ask[r].modelCompleted /\ ask[r].outcome = "none"
    BY <1>3 DEF StartAnswer
  <2>3. Pieces(0) = <<>> /\ Len(<<>>) = 0
    BY DEF Pieces
  <2>4. /\ ask'[r].pc = "streaming" /\ ask'[r].answer = <<>> /\ ~ask'[r].modelCompleted
        /\ ask'[r].outcome = "none"
        /\ call'[r].rpc = "open" /\ call'[r].wire = <<>>
        /\ server'[r].pc = "idle" /\ server'[r].produced = 0 /\ server'[r].callback = "none"
        /\ server'[r] = NewServer
    BY <1>0, <2>1, <2>2 DEF Ask, NewCall, NewServer
  <2>5. InOrder(<<>>, 0) /\ ~EndsWithDone(<<>>) /\ Texts(<<>>) = 0
    BY EmptyWire
  <2>6. EndsAgree(ask'[r], call'[r], server'[r]) /\ CancelSeen(server'[r])
    BY <2>4
  <2>7. NothingLost(ask'[r], call'[r], server'[r])
    BY <2>3, <2>4, <2>5
  <2> QED  BY <2>6, <2>7
<1>4. CASE AskFails(r) \/ ReceiveError(r) \/ Save(r) \/ SaveInDoubt(r) \/ SaveFails(r)
  BY <1>1, <1>4 DEF AskFails, ReceiveError, GiveUp, Save, SaveInDoubt, SaveFails
<1>5. CASE Receive(r)
  BY <1>5, ReceiveKeeps
<1>6. CASE EndOfStream(r)
  <2>1. CASE ContextDone(r) \/ ~ask[r].modelCompleted
    BY <1>1, <1>6, <2>1 DEF EndOfStream, GiveUp
  <2>2. CASE ~(ContextDone(r) \/ ~ask[r].modelCompleted)
    <3>1. ask'[r] = [ask[r] EXCEPT !.pc = "saving"] /\ UNCHANGED <<call, server>>
      BY <1>6, <2>2 DEF EndOfStream, Goto, Types
    <3>2. call[r].wire = <<>> /\ call[r].rpc = "ok" /\ ask[r].pc = "streaming"
      BY <1>6 DEF EndOfStream, AtEnd
    <3>3. ask[r].answer = Pieces(server[r].produced)
      BY <1>0, <3>2, EmptyWire DEF Ask
    <3> QED  BY <1>0, <3>1, <3>2, <3>3 DEF Ask
  <2> QED  BY <2>1, <2>2
<1> QED  BY <1>2, <1>3, <1>4, <1>5, <1>6 DEF AskNext

\* The processor sends an event: what the model has said follows what is on its
\* way already.
LEMMA SendText ==
    ASSUME NEW a \in Ask, NEW c \in Call, NEW s \in Server, NEW t \in Server,
           OneQuestion(a, c, s), c.rpc = "open", s.pc = "reading",
           t.produced = s.produced + 1, t.pc \in {"reading", "completing"},
           t.pc = "completing" => t.complete,
           t.response = s.response, t.callback = s.callback, t.cancelled = s.cancelled
    PROVE  OneQuestion(a, [c EXCEPT !.wire = Append(@, t.produced)], t)
<1>1. PICK d : d = [c EXCEPT !.wire = Append(@, t.produced)]
  OBVIOUS
<1>2. PICK w \in Seq(Nat) : w = c.wire
  BY DEF Call
<1>3. d.rpc = "open" /\ d.wire = Append(w, t.produced)
  BY <1>1, <1>2 DEF Call
<1>4. EndsAgree(a, d, t)
  BY <1>3 DEF OneQuestion, EndsAgree, NewCall, NewServer
<1>5. CancelSeen(t)
  BY DEF OneQuestion, CancelSeen
<1>6. ASSUME a.pc = "streaming"
      PROVE  NothingLost(a, d, t)
  <2>1. PICK n \in Nat : n = Len(a.answer)
    BY DEF Ask
  <2>2. /\ a.answer = Pieces(n) /\ InOrder(w, n) /\ ~a.modelCompleted
        /\ s.produced = n + Texts(w) /\ ~EndsWithDone(w)
    BY <1>2, <1>6, <2>1 DEF OneQuestion, NothingLost
  <2>3. Texts(w) = Len(w) /\ Len(w) \in Nat
    BY <2>2 DEF Texts
  <2>4. t.produced = n + Len(w) + 1
    BY <2>2, <2>3
  <2>5. InOrder(d.wire, n) /\ ~EndsWithDone(d.wire) /\ Texts(d.wire) = Texts(w) + 1
    BY <1>3, <2>2, <2>4, SendOne
  <2>6. t.produced = n + Texts(d.wire)
    BY <2>3, <2>4, <2>5
  <2> QED  BY <1>6, <2>1, <2>2, <2>5, <2>6 DEF NothingLost
<1>7. a.pc # "streaming" => NothingLost(a, d, t)
  BY DEF OneQuestion, NothingLost
<1> QED  BY <1>1, <1>4, <1>5, <1>6, <1>7 DEF OneQuestion

LEMMA SendDone ==
    ASSUME NEW a \in Ask, NEW c \in Call, NEW s \in Server, OneQuestion(a, c, s),
           c.rpc = "open", s.pc = "completing"
    PROVE  OneQuestion(a, [c EXCEPT !.wire = Append(@, Done)],
                       [s EXCEPT !.pc = "returning"])
<1>1. PICK d : d = [c EXCEPT !.wire = Append(@, Done)]
  OBVIOUS
<1>2. PICK w \in Seq(Nat) : w = c.wire
  BY DEF Call
<1>3. d.rpc = "open" /\ d.wire = Append(w, Done)
  BY <1>1, <1>2 DEF Call
<1>4. PICK t : t = [s EXCEPT !.pc = "returning"]
  OBVIOUS
<1>5. /\ t.pc = "returning" /\ t.complete = s.complete /\ t.produced = s.produced
      /\ t.response = s.response /\ t.callback = s.callback /\ t.cancelled = s.cancelled
  BY <1>4 DEF Server
<1>6. EndsAgree(a, d, t)
  BY <1>3, <1>5 DEF OneQuestion, EndsAgree, NewCall, NewServer
<1>7. CancelSeen(t)
  BY <1>5 DEF OneQuestion, CancelSeen
<1>8. ASSUME a.pc = "streaming"
      PROVE  NothingLost(a, d, t)
  <2>1. PICK n \in Nat : n = Len(a.answer)
    BY DEF Ask
  <2>2. /\ a.answer = Pieces(n) /\ InOrder(w, n) /\ ~a.modelCompleted
        /\ s.produced = n + Texts(w) /\ ~EndsWithDone(w)
    BY <1>2, <1>8, <2>1 DEF OneQuestion, NothingLost
  <2>3. InOrder(d.wire, n) /\ Texts(d.wire) = Texts(w)
    BY <1>3, <2>2, SendOne
  <2> QED  BY <1>5, <1>8, <2>1, <2>2, <2>3 DEF NothingLost
<1>9. a.pc # "streaming" => NothingLost(a, d, t)
  BY DEF OneQuestion, NothingLost
<1> QED  BY <1>1, <1>4, <1>6, <1>7, <1>8, <1>9 DEF OneQuestion

\* The processor leaves: its call is over, or ends with it.
LEMMA LeaveKeeps ==
    ASSUME NEW a \in Ask, NEW c \in Call, NEW s \in Server, NEW d \in Call, NEW t \in Server,
           OneQuestion(a, c, s), s.pc \notin {"idle", "closed"},
           d.wire = c.wire, t.pc = "closed", t.callback = "none",
           \/ c.rpc # "open" /\ d.rpc = c.rpc
           \/ c.rpc = "open" /\ d.rpc = "error"
           \/ /\ c.rpc = "open" /\ d.rpc = "ok" /\ s.complete
              /\ t.complete = s.complete /\ t.produced = s.produced
    PROVE  OneQuestion(a, d, t)
<1>1. c.rpc # "none" /\ c.rpc # "ok" /\ a.pc \notin {"new", "starting", "saving"}
  BY DEF OneQuestion, EndsAgree, NothingLost, NewCall, NewServer
<1>2. EndsAgree(a, d, t) /\ CancelSeen(t)
  BY <1>1 DEF OneQuestion, EndsAgree, CancelSeen
<1>3. NothingLost(a, d, t)
  BY <1>1 DEF OneQuestion, NothingLost
<1> QED  BY <1>2, <1>3 DEF OneQuestion

\* The processor takes a step.
LEMMA ProcessorKeeps ==
    ASSUME Types, Types', NEW r \in Requests, OneQuestion(ask[r], call[r], server[r]),
           ServerNext(r) \/ CallbackNext(r) \/ ModelNext(r)
    PROVE  OneQuestion(ask'[r], call'[r], server'[r])
<1>1. /\ ask[r] \in Ask /\ call[r] \in Call /\ server[r] \in Server
      /\ call'[r] \in Call /\ server'[r] \in Server
  BY DEF Types
<1>2. ask' = ask
  BY DEF ServerNext, RefuseCall, AcquireSlot, AddCallback, CheckCancelled, YieldDone, Return,
         CallbackNext, SetCancelled, CloseResponse, ModelNext, SetResponse, StreamText,
         ModelDone, StreamFails
<1>3. ASSUME NEW s, Leave(r, s)
      PROVE  /\ server'[r].pc = "closed" /\ server'[r].callback = "none"
             /\ server'[r].complete = s.complete /\ server'[r].produced = s.produced
  BY <1>3 DEF Leave, Types, NewServer
<1>4. CASE RefuseCall(r)
  <2>1. /\ server[r] = NewServer /\ call[r].rpc \notin {"none", "ok"}
        /\ ask[r].pc \notin {"new", "starting", "saving"}
    BY <1>4 DEF RefuseCall, OneQuestion, EndsAgree, NothingLost, NewServer, NewCall
  <2>2. /\ server'[r] = [NewServer EXCEPT !.pc = "closed"]
        /\ call'[r] = [call[r] EXCEPT !.rpc = IF Inactive(r) THEN @ ELSE "error"]
    BY <1>1, <1>4, <2>1 DEF RefuseCall, Types
  <2>3. /\ server'[r].pc = "closed" /\ server'[r].callback = "none"
        /\ call'[r].rpc \in {"cancelled", "error"} /\ call'[r].wire = call[r].wire
    BY <1>1, <2>1, <2>2 DEF NewServer, Call, Inactive
  <2> QED
    BY <1>2, <2>1, <2>3 DEF OneQuestion, EndsAgree, NothingLost, CancelSeen
<1>5. CASE AcquireSlot(r)
  <2>1. server[r] = NewServer /\ call[r].rpc # "none" /\ call' = call
    BY <1>5 DEF AcquireSlot, OneQuestion, EndsAgree
  <2>2. server'[r] = [NewServer EXCEPT !.pc = "starting"]
    BY <1>1, <1>5, <2>1 DEF AcquireSlot, Types
  <2> QED
    BY <1>2, <2>1, <2>2 DEF OneQuestion, EndsAgree, NothingLost, CancelSeen, NewServer
<1>6. CASE AddCallback(r) \/ SetResponse(r) \/ CheckCancelled(r) \/ ModelDone(r)
  <2>1. /\ call' = call /\ server'[r].produced = server[r].produced
        /\ server'[r].cancelled = server[r].cancelled
    BY <1>1, <1>6 DEF AddCallback, SetResponse, CheckCancelled, ModelDone, Types, Server
  <2>2. CASE AddCallback(r)
    <3>1. /\ server[r].pc = "starting" /\ server'[r].pc = "opening"
          /\ server'[r].callback \in {server[r].callback, "registered"}
          /\ server'[r].response = server[r].response
          /\ server'[r].complete = server[r].complete
      BY <1>1, <2>2 DEF AddCallback, Types, Server
    <3> QED
      BY <1>2, <2>1, <3>1
         DEF OneQuestion, EndsAgree, NothingLost, CancelSeen, NewServer
  <2>3. CASE SetResponse(r)
    <3>1. /\ server[r].pc = "opening" /\ server'[r].pc = "checking"
          /\ server'[r].callback = server[r].callback
          /\ server'[r].response = "open"
          /\ server'[r].complete = server[r].complete
      BY <1>1, <2>3 DEF SetResponse, Types, Server
    <3> QED
      BY <1>2, <2>1, <3>1
         DEF OneQuestion, EndsAgree, NothingLost, CancelSeen, NewServer
  <2>4. CASE CheckCancelled(r)
    <3>1. /\ server[r].pc = "checking" /\ server'[r].pc = "reading"
          /\ server'[r].callback = server[r].callback
          /\ server'[r].response = IF server[r].cancelled THEN "closed" ELSE server[r].response
          /\ server'[r].complete = server[r].complete
      BY <1>1, <2>4 DEF CheckCancelled, Types, Server
    <3> QED
      BY <1>2, <2>1, <3>1
         DEF OneQuestion, EndsAgree, NothingLost, CancelSeen, NewServer
  <2>5. CASE ModelDone(r)
    <3>1. /\ server[r].pc = "reading" /\ server'[r].pc = "completing"
          /\ server'[r].callback = server[r].callback
          /\ server'[r].response = server[r].response
          /\ server'[r].complete
      BY <1>1, <2>5 DEF ModelDone, Types, Server
    <3> QED
      BY <1>2, <2>1, <3>1
         DEF OneQuestion, EndsAgree, NothingLost, CancelSeen, NewServer
  <2> QED  BY <1>6, <2>2, <2>3, <2>4, <2>5
<1>7. CASE SetCancelled(r) \/ CloseResponse(r)
  <2>1. /\ call' = call /\ server[r].callback # "none"
        /\ server'[r].pc = server[r].pc /\ server'[r].produced = server[r].produced
        /\ server'[r].complete = server[r].complete
    BY <1>1, <1>7 DEF SetCancelled, CloseResponse, Types, Server
  <2>2. server[r].pc \notin {"idle", "closed"} /\ call[r].rpc # "none"
    BY <2>1 DEF OneQuestion, EndsAgree, NewServer
  <2>3. CASE SetCancelled(r)
    <3>1. server'[r].callback = "running" /\ server'[r].cancelled
          /\ server'[r].response = server[r].response
      BY <1>1, <2>3 DEF SetCancelled, Types, Server
    <3> QED
      BY <1>2, <2>1, <2>2, <3>1 DEF OneQuestion, EndsAgree, NothingLost, CancelSeen
  <2>4. CASE CloseResponse(r)
    <3>1. /\ server[r].callback = "running" /\ server'[r].callback = "ran"
          /\ server'[r].cancelled = server[r].cancelled
          /\ server'[r].response = IF server[r].response = "open" THEN "closed"
                                   ELSE server[r].response
      BY <1>1, <2>4 DEF CloseResponse, Types, Server
    <3>2. server[r].pc \in {"checking", "reading"} => server'[r].response = "closed"
      BY <1>1, <3>1 DEF OneQuestion, CancelSeen, Server
    <3> QED
      BY <1>2, <2>1, <2>2, <3>1, <3>2 DEF OneQuestion, EndsAgree, NothingLost, CancelSeen
  <2> QED  BY <1>7, <2>3, <2>4
<1>8. CASE StreamText(r)
  <2>1. server[r].pc = "reading"
    BY <1>8 DEF StreamText
  <2>2. PICK done \in BOOLEAN :
           IF Inactive(r)
           THEN /\ Leave(r, [server[r] EXCEPT !.produced = @ + 1, !.complete = done])
                /\ UNCHANGED call
           ELSE /\ call' = [call EXCEPT ![r].wire = Append(@, server[r].produced + 1)]
                /\ server'[r] = [server[r] EXCEPT
                      !.produced = @ + 1, !.complete = done,
                      !.pc = IF done THEN "completing" ELSE "reading"]
    BY <1>1, <1>8 DEF StreamText, Types, Server
  <2>3. CASE Inactive(r)
    <3>1. server'[r].pc = "closed" /\ server'[r].callback = "none" /\ call' = call
      BY <1>3, <2>2, <2>3
    <3> QED  BY <1>1, <1>2, <2>1, <2>3, <3>1, LeaveKeeps DEF Inactive
  <2>4. CASE ~Inactive(r)
    <3>1. /\ server'[r].produced = server[r].produced + 1
          /\ server'[r].complete = done
          /\ server'[r].pc = IF done THEN "completing" ELSE "reading"
          /\ server'[r].response = server[r].response
          /\ server'[r].callback = server[r].callback
          /\ server'[r].cancelled = server[r].cancelled
      BY <1>1, <2>2, <2>4 DEF Server
    <3>2. call'[r] = [call[r] EXCEPT !.wire = Append(@, server'[r].produced)]
      BY <1>1, <2>2, <2>4, <3>1 DEF Types, Call
    <3>3. OneQuestion(ask[r], [call[r] EXCEPT !.wire = Append(@, server'[r].produced)],
                      server'[r])
      BY <1>1, <2>1, <2>4, <3>1, SendText DEF Inactive
    <3> QED  BY <1>2, <3>2, <3>3
  <2> QED  BY <2>3, <2>4
<1>9. CASE YieldDone(r)
  <2>1. server[r].pc = "completing"
    BY <1>9 DEF YieldDone
  <2>2. CASE Inactive(r)
    <3>1. server'[r].pc = "closed" /\ server'[r].callback = "none" /\ call' = call
      BY <1>3, <1>9, <2>2 DEF YieldDone
    <3> QED  BY <1>1, <1>2, <2>1, <2>2, <3>1, LeaveKeeps DEF Inactive
  <2>3. CASE ~Inactive(r)
    <3>1. /\ call'[r] = [call[r] EXCEPT !.wire = Append(@, Done)]
          /\ server'[r] = [server[r] EXCEPT !.pc = "returning"]
      BY <1>9, <2>3 DEF YieldDone, Types
    <3>2. OneQuestion(ask[r], [call[r] EXCEPT !.wire = Append(@, Done)],
                      [server[r] EXCEPT !.pc = "returning"])
      BY <1>1, <2>1, <2>3, SendDone DEF Inactive
    <3> QED  BY <1>2, <3>1, <3>2
  <2> QED  BY <2>2, <2>3
<1>10. CASE Return(r) \/ StreamFails(r)
  <2>1. server[r].pc \notin {"idle", "closed"} /\ Leave(r, server[r])
    BY <1>10 DEF Return, StreamFails
  <2>2. /\ server'[r].pc = "closed" /\ server'[r].callback = "none"
        /\ server'[r].complete = server[r].complete /\ server'[r].produced = server[r].produced
    BY <1>3, <2>1
  <2>3. CASE Return(r)
    <3>1. server[r].complete
      BY <2>3 DEF Return, OneQuestion, EndsAgree
    <3>2. /\ call'[r].wire = call[r].wire
          /\ call'[r].rpc = IF call[r].rpc = "open" THEN "ok" ELSE call[r].rpc
      BY <1>1, <2>3 DEF Return, Types, Call, Inactive
    <3> QED  BY <1>1, <1>2, <2>1, <2>2, <3>1, <3>2, LeaveKeeps
  <2>4. CASE StreamFails(r)
    <3>1. /\ call'[r].wire = call[r].wire
          /\ call'[r].rpc = IF call[r].rpc = "open" THEN "error" ELSE call[r].rpc
      BY <1>1, <2>4 DEF StreamFails, Types, Call, Inactive
    <3> QED  BY <1>1, <1>2, <2>1, <2>2, <3>1, LeaveKeeps
  <2> QED  BY <1>10, <2>3, <2>4
<1> QED
  BY <1>4, <1>5, <1>6, <1>7, <1>8, <1>9, <1>10 DEF ServerNext, CallbackNext, ModelNext

\* The client leaves, the generation times out, or the call is cancelled.
LEMMA OthersKeep ==
    ASSUME Types, Types', NEW r \in Requests, OneQuestion(ask[r], call[r], server[r]),
           ClientLeaves(r) \/ GenerationTimesOut(r) \/ CallCancelled(r)
    PROVE  OneQuestion(ask'[r], call'[r], server'[r])
<1>1. ask[r] \in Ask /\ call[r] \in Call
  BY DEF Types
<1>2. CASE ClientLeaves(r) \/ GenerationTimesOut(r)
  <2>1. /\ ask'[r].pc = ask[r].pc /\ ask'[r].answer = ask[r].answer
        /\ ask'[r].modelCompleted = ask[r].modelCompleted
        /\ ask'[r].outcome = ask[r].outcome
        /\ call' = call /\ server' = server
    BY <1>1, <1>2 DEF ClientLeaves, GenerationTimesOut, Types, Ask
  <2> QED  BY <2>1 DEF OneQuestion, EndsAgree, NothingLost, CancelSeen
<1>3. CASE CallCancelled(r)
  <2>1. /\ call[r].rpc = "open" /\ call'[r].rpc = "cancelled" /\ call'[r].wire = call[r].wire
        /\ ask' = ask /\ server' = server
    BY <1>1, <1>3 DEF CallCancelled, Types, Call
  <2> QED  BY <2>1 DEF OneQuestion, EndsAgree, NothingLost, CancelSeen, NewCall
<1> QED  BY <1>2, <1>3

LEMMA QuestionsStep == Types /\ Types' /\ Questions /\ [Next]_vars => Questions'
<1> SUFFICES ASSUME Types, Types', Questions, [Next]_vars
             PROVE  Questions'
  OBVIOUS
<1>1. CASE Drain \/ Delete \/ UNCHANGED vars
  BY <1>1 DEF Drain, Delete, vars, Questions
<1>2. ASSUME NEW r \in Requests, QuestionNext(r)
      PROVE  Questions'
  <2>1. OneQuestion(ask'[r], call'[r], server'[r])
    BY <1>2, HandlerKeeps, ProcessorKeeps, OthersKeep DEF QuestionNext, Questions
  <2>2. ASSUME NEW q \in Requests, q # r
        PROVE  ask'[q] = ask[q] /\ call'[q] = call[q] /\ server'[q] = server[q]
    <3>1. Local(r)
      BY <1>2, StepsAreLocal
    <3> QED  BY <2>2, <3>1 DEF Local, Types
  <2>3. ASSUME NEW q \in Requests
        PROVE  OneQuestion(ask'[q], call'[q], server'[q])
    BY <2>1, <2>2 DEF Questions
  <2> QED  BY <2>3 DEF Questions
<1> QED  BY <1>1, <1>2 DEF Next, QuestionNext

-----------------------------------------------------------------------------
(* The history, and what clients are told.                                  *)

\* A processor that is done with a question changes nothing of it any more.
LEMMA ClosedStays ==
    ASSUME Types, Questions, NEW r \in Requests, QuestionNext(r), server[r].pc = "closed"
    PROVE  server' = server
<1>1. server[r].callback = "none"
  BY DEF Questions, OneQuestion, EndsAgree
<1>2. CASE ServerNext(r) \/ CallbackNext(r) \/ ModelNext(r)
  BY <1>1, <1>2 DEF ServerNext, RefuseCall, AcquireSlot, AddCallback, CheckCancelled, YieldDone,
         Return, CallbackNext, SetCancelled, CloseResponse, ModelNext, SetResponse, StreamText,
         ModelDone, StreamFails
<1>3. CASE AskNext(r)
  BY <1>3 DEF AskNext, FindDocument, StartAnswer, AskFails, Receive, EndOfStream, ReceiveError,
              Save, SaveInDoubt, SaveFails
<1>4. CASE ClientLeaves(r) \/ GenerationTimesOut(r) \/ CallCancelled(r)
  BY <1>4 DEF ClientLeaves, GenerationTimesOut, CallCancelled
<1> QED  BY <1>2, <1>3, <1>4 DEF QuestionNext

\* Answers are written by CreateQuestion alone, and whole.
LEMMA OnlyWholeIsWritten ==
    ASSUME Types, Questions, NEW r \in Requests, QuestionNext(r)
    PROVE  /\ deleted' = deleted
           /\ \/ history' = history
              \/ /\ ~deleted
                 /\ history' = history \union {[request |-> r, answer |-> ask[r].answer]}
                 /\ Whole(ask[r].answer, server[r])
<1>1. CASE Save(r) \/ SaveInDoubt(r)
  <2>1. /\ ask[r].pc = "saving" /\ deleted' = deleted /\ ~deleted
        /\ history' = history \union {[request |-> r, answer |-> ask[r].answer]}
    BY <1>1 DEF Save, SaveInDoubt, CreateQuestion, Insertable
  <2> QED
    BY <2>1 DEF Questions, OneQuestion, EndsAgree, NothingLost, Whole
<1>2. CASE ~(Save(r) \/ SaveInDoubt(r))
  <2>1. CASE AskNext(r)
    BY <1>2, <2>1 DEF AskNext, FindDocument, StartAnswer, AskFails, Receive, EndOfStream,
                ReceiveError, SaveFails
  <2>2. CASE ServerNext(r) \/ CallbackNext(r) \/ ModelNext(r)
    BY <2>2 DEF ServerNext, RefuseCall, AcquireSlot, AddCallback, CheckCancelled, YieldDone,
         Return, CallbackNext, SetCancelled, CloseResponse, ModelNext, SetResponse, StreamText,
         ModelDone, StreamFails
  <2>3. CASE ClientLeaves(r) \/ GenerationTimesOut(r) \/ CallCancelled(r)
    BY <2>3 DEF ClientLeaves, GenerationTimesOut, CallCancelled
  <2> QED  BY <2>1, <2>2, <2>3 DEF QuestionNext
<1> QED  BY <1>1, <1>2

LEMMA SavedStep ==
    ASSUME Types, Questions, Saved, [Next]_vars
    PROVE  Saved'
<1>1. CASE Drain \/ Delete \/ UNCHANGED vars
  BY <1>1 DEF Drain, Delete, vars, Saved, Whole
<1>2. ASSUME NEW r \in Requests, QuestionNext(r)
      PROVE  Saved'
  <2>1. ASSUME NEW q \in Requests, NEW answer, Whole(answer, server[q])
        PROVE  Whole(answer, server'[q])
    <3>1. server'[q] = server[q]
      <4>1. CASE q = r
        BY <1>2, <2>1, <4>1, ClosedStays DEF Whole
      <4>2. CASE q # r
        BY <1>2, <4>2, StepsAreLocal DEF Local, Types
      <4> QED  BY <4>1, <4>2
    <3> QED  BY <2>1, <3>1
  <2>2. \A q \in history : q.request \in Requests
    BY DEF Types
  <2>3. \A q \in history' : Whole(q.answer, server'[q.request])
    <3> SUFFICES ASSUME NEW q \in history'
                 PROVE  Whole(q.answer, server'[q.request])
      OBVIOUS
    <3>1. CASE q \in history
      BY <2>1, <2>2, <3>1 DEF Saved
    <3>2. CASE q \notin history
      <4>1. q.request = r /\ q.answer = ask[r].answer /\ Whole(ask[r].answer, server[r])
        BY <1>2, <3>2, OnlyWholeIsWritten
      <4> QED  BY <2>1, <4>1
    <3> QED  BY <3>1, <3>2
  <2>4. deleted' => history' = {}
    BY <1>2, OnlyWholeIsWritten DEF Saved
  <2> QED  BY <2>3, <2>4 DEF Saved
<1> QED  BY <1>1, <1>2 DEF Next, QuestionNext

\* A handler that has answered changes nothing of its answer, and only Save
\* answers that all is well.
LEMMA OnlySaveTellsOk ==
    ASSUME Types, NEW r \in Requests, QuestionNext(r), ask'[r].outcome = "ok"
    PROVE  \/ Save(r) /\ ask'[r].pc = "ended" /\ ask'[r].answer = ask[r].answer
           \/ /\ ask[r].outcome = "ok"
              /\ ask[r].pc = "ended" => /\ ask'[r].pc = "ended"
                                        /\ ask'[r].answer = ask[r].answer
<1>1. ask[r] \in Ask
  BY DEF Types
<1>2. CASE AskNext(r)
  <2>1. ask[r].pc # "ended"
    BY <1>2 DEF AskNext, FindDocument, StartAnswer, AskFails, Receive, EndOfStream,
                ReceiveError, Save, SaveInDoubt, CreateQuestion, SaveFails
  <2>2. ASSUME NEW outcome, End(r, outcome)
        PROVE  /\ ask'[r].outcome = outcome /\ ask'[r].pc = "ended"
               /\ ask'[r].answer = ask[r].answer
    BY <1>1, <2>2 DEF End, Types, Ask
  <2>3. ASSUME NEW pc, Goto(r, pc)
        PROVE  ask'[r].outcome = ask[r].outcome
    BY <1>1, <2>3 DEF Goto, Types, Ask
  <2>4. CASE Save(r)
    BY <2>2, <2>4 DEF Save
  <2>5. CASE Receive(r)
    BY <1>1, <2>1, <2>5 DEF Receive, Types, Ask
  <2>6. CASE FindDocument(r) \/ StartAnswer(r) \/ EndOfStream(r)
    BY <2>1, <2>2, <2>3, <2>6 DEF FindDocument, StartAnswer, EndOfStream, GiveUp
  <2>7. CASE AskFails(r) \/ ReceiveError(r) \/ SaveInDoubt(r) \/ SaveFails(r)
    BY <2>2, <2>7 DEF AskFails, ReceiveError, GiveUp, SaveInDoubt, SaveFails
  <2> QED  BY <1>2, <2>4, <2>5, <2>6, <2>7 DEF AskNext
<1>3. CASE ServerNext(r) \/ CallbackNext(r) \/ ModelNext(r)
  BY <1>3 DEF ServerNext, RefuseCall, AcquireSlot, AddCallback, CheckCancelled, YieldDone,
         Return, CallbackNext, SetCancelled, CloseResponse, ModelNext, SetResponse, StreamText,
         ModelDone, StreamFails
<1>4. CASE ClientLeaves(r) \/ GenerationTimesOut(r) \/ CallCancelled(r)
  BY <1>1, <1>4 DEF ClientLeaves, GenerationTimesOut, CallCancelled, Types, Ask
<1> QED  BY <1>2, <1>3, <1>4 DEF QuestionNext

LEMMA ToldStep ==
    ASSUME Types, Questions, \A r \in Requests : Told(r), [Next]_vars
    PROVE  \A r \in Requests : Told(r)'
<1>1. CASE Drain \/ Delete \/ UNCHANGED vars
  BY <1>1 DEF Drain, Delete, vars, Told
<1>2. ASSUME NEW r \in Requests, QuestionNext(r), NEW q \in Requests
      PROVE  Told(q)'
  <2> SUFFICES ASSUME ask'[q].outcome = "ok"
               PROVE  /\ ask'[q].pc = "ended" /\ server'[q].pc = "closed"
                      /\ \/ deleted'
                         \/ [request |-> q, answer |-> ask'[q].answer] \in history'
    BY DEF Told
  <2>1. deleted' = deleted /\ history \subseteq history'
    BY <1>2, OnlyWholeIsWritten
  <2>2. CASE q # r
    <3>1. ask'[q] = ask[q] /\ server'[q] = server[q]
      BY <1>2, <2>2, StepsAreLocal DEF Local, Types
    <3> QED  BY <2>1, <3>1 DEF Told
  <2>3. CASE q = r /\ Save(r)
    <3>1. ask[r].pc = "saving" /\ server' = server /\ deleted' = deleted
          /\ [request |-> r, answer |-> ask[r].answer] \in history'
      BY <2>3 DEF Save, CreateQuestion
    <3>2. server[r].pc = "closed"
      BY <3>1 DEF Questions, OneQuestion, EndsAgree, NothingLost
    <3>3. ask'[r].pc = "ended" /\ ask'[r].answer = ask[r].answer
      BY <2>3 DEF Save, End, Types, Ask
    <3> QED  BY <2>3, <3>1, <3>2, <3>3
  <2>4. CASE q = r /\ ~Save(r)
    <3>1. ask[r].outcome = "ok"
      BY <1>2, <2>4, OnlySaveTellsOk
    <3>2. /\ ask[r].pc = "ended" /\ server[r].pc = "closed"
          /\ deleted \/ [request |-> r, answer |-> ask[r].answer] \in history
      BY <3>1 DEF Told
    <3>3. ask'[r].pc = "ended" /\ ask'[r].answer = ask[r].answer
      BY <1>2, <2>4, <3>2, OnlySaveTellsOk
    <3>4. server' = server
      BY <1>2, <3>2, ClosedStays
    <3> QED  BY <2>1, <2>4, <3>2, <3>3, <3>4
  <2> QED  BY <2>2, <2>3, <2>4
<1> QED  BY <1>1, <1>2 DEF Next, QuestionNext

-----------------------------------------------------------------------------
(* Slots.                                                                   *)

LEMMA HoldingIsFinite == IsFiniteSet(Holding) /\ Cardinality(Holding) \in Nat
<1>1. Holding \subseteq Requests
  BY DEF Holding
<1> QED  BY <1>1, RequestsAssumption, FS_Subset, FS_CardinalityType

\* Slots are taken on the way in, and given back on the way out.
LEMMA SlotsStep ==
    ASSUME Types, SlotsAreConserved, [Next]_vars
    PROVE  SlotsAreConserved'
<1> USE HoldingIsFinite
<1>1. slots \in Nat
  BY DEF Types
<1>2. ASSUME NEW r \in Requests, Holding' = Holding \union {r}, r \notin Holding,
             slots' = slots - 1
      PROVE  SlotsAreConserved'
  <2>1. Cardinality(Holding \union {r}) = Cardinality(Holding) + 1
    BY <1>2, FS_AddElement
  <2>2. Cardinality(Holding)' = Cardinality(Holding) + 1
    BY <1>2, <2>1
  <2> QED  BY <1>1, <1>2, <2>2 DEF SlotsAreConserved
<1>3. ASSUME NEW r \in Requests, Holding' = Holding \ {r}, r \in Holding, slots' = slots + 1
      PROVE  SlotsAreConserved'
  <2>1. Cardinality(Holding \ {r}) = Cardinality(Holding) - 1
    BY <1>3, FS_RemoveElement
  <2>2. Cardinality(Holding)' = Cardinality(Holding) - 1
    BY <1>3, <2>1
  <2> QED  BY <1>1, <1>3, <2>2 DEF SlotsAreConserved
<1>4. ASSUME Holding' = Holding, slots' = slots
      PROVE  SlotsAreConserved'
  BY <1>4 DEF SlotsAreConserved
<1>5. ASSUME NEW r \in Requests, NEW s, Leave(r, s), server[r].pc \notin {"idle", "closed"}
      PROVE  SlotsAreConserved'
  <2>1. Holding' = Holding \ {r} /\ r \in Holding /\ slots' = slots + 1
    BY <1>5 DEF Leave, Types, NewServer, Holding
  <2> QED  BY <1>3, <2>1
<1>6. ASSUME NEW r \in Requests, Local(r), slots' = slots,
             server[r].pc \in {"idle", "closed"} <=> server'[r].pc \in {"idle", "closed"}
      PROVE  SlotsAreConserved'
  <2>1. Holding' = Holding
    BY <1>6 DEF Local, Types, Holding
  <2> QED  BY <1>4, <1>6, <2>1
<1>7. CASE Drain \/ Delete \/ UNCHANGED vars
  BY <1>4, <1>7 DEF Drain, Delete, vars, Holding
<1>8. ASSUME NEW r \in Requests, QuestionNext(r)
      PROVE  SlotsAreConserved'
  <2>0. server[r] \in Server /\ Local(r)
    BY <1>8, StepsAreLocal DEF Types
  <2>1. CASE AskNext(r)
    BY <1>4, <2>1 DEF AskNext, FindDocument, StartAnswer, AskFails, Receive, EndOfStream,
                ReceiveError, Save, SaveInDoubt, SaveFails, Holding
  <2>2. CASE ClientLeaves(r) \/ GenerationTimesOut(r) \/ CallCancelled(r)
    BY <1>4, <2>2 DEF ClientLeaves, GenerationTimesOut, CallCancelled, Holding
  <2>3. CASE AcquireSlot(r)
    <3>1. Holding' = Holding \union {r} /\ r \notin Holding /\ slots' = slots - 1
      BY <2>0, <2>3 DEF AcquireSlot, Types, Server, Holding
    <3> QED  BY <1>2, <3>1
  <2>4. CASE RefuseCall(r) \/ AddCallback(r) \/ CheckCancelled(r)
    BY <1>6, <2>0, <2>4 DEF RefuseCall, AddCallback, CheckCancelled, Types, Server
  <2>5. CASE YieldDone(r)
    <3>1. CASE Inactive(r)
      BY <1>5, <2>5, <3>1 DEF YieldDone
    <3>2. CASE ~Inactive(r)
      <4>1. server[r].pc = "completing" /\ slots' = slots
            /\ server'[r] = [server[r] EXCEPT !.pc = "returning"]
        BY <2>5, <3>2 DEF YieldDone, Types
      <4>2. server'[r].pc = "returning"
        BY <2>0, <4>1 DEF Server
      <4> QED  BY <1>6, <2>0, <4>1, <4>2
    <3> QED  BY <3>1, <3>2
  <2>6. CASE Return(r) \/ StreamFails(r)
    BY <1>5, <2>6 DEF Return, StreamFails
  <2>7. CASE CallbackNext(r) \/ SetResponse(r) \/ ModelDone(r)
    BY <1>6, <2>0, <2>7 DEF CallbackNext, SetCancelled, CloseResponse, SetResponse, ModelDone,
                            Types, Server
  <2>8. CASE StreamText(r)
    <3>1. CASE Inactive(r)
      BY <1>5, <2>8, <3>1 DEF StreamText
    <3>2. CASE ~Inactive(r)
      <4>1. /\ slots' = slots /\ server[r].pc = "reading"
            /\ server'[r].pc \in {"completing", "reading"}
        <5>1. PICK done \in BOOLEAN :
                 server' = [server EXCEPT ![r] =
                    [server[r] EXCEPT !.produced = @ + 1, !.complete = done,
                                      !.pc = IF done THEN "completing" ELSE "reading"]]
          BY <2>0, <2>8, <3>2 DEF StreamText, Types, Server
        <5>2. server'[r].pc = IF done THEN "completing" ELSE "reading"
          BY <2>0, <5>1 DEF Types, Server
        <5> QED  BY <2>8, <3>2, <5>2 DEF StreamText
      <4> QED  BY <1>6, <2>0, <4>1
    <3> QED  BY <3>1, <3>2
  <2> QED
    BY <1>8, <2>1, <2>2, <2>3, <2>4, <2>5, <2>6, <2>7, <2>8
       DEF QuestionNext, ServerNext, ModelNext
<1> QED  BY <1>7, <1>8 DEF Next, QuestionNext

-----------------------------------------------------------------------------
(* The theorems.                                                            *)

LEMMA IInvInit == Init => IInv
<1> SUFFICES ASSUME Init PROVE IInv
  OBVIOUS
<1>1. Questions
  BY DEF Init, Questions, OneQuestion, EndsAgree, NothingLost, CancelSeen, NewAsk, NewCall,
         NewServer
<1>2. Saved /\ \A r \in Requests : Told(r)
  BY DEF Init, Saved, Told, NewAsk
<1>3. Holding = {}
  BY DEF Init, Holding, NewServer
<1>4. SlotsAreConserved
  BY <1>3, FS_EmptySet, BoundsAssumption DEF Init, SlotsAreConserved
<1> QED  BY <1>1, <1>2, <1>4, TypesInit DEF IInv

LEMMA IInvStep == IInv /\ [Next]_vars => IInv'
BY TypesStep, QuestionsStep, SavedStep, ToldStep, SlotsStep DEF IInv

LEMMA Invariant == Spec => []IInv
BY IInvInit, IInvStep, PTL DEF Spec

\* Every variable keeps its type.  That no slot is lost and none given back
\* twice bounds the free ones.
THEOREM TypesKept == Spec => []TypeOK
<1>1. IInv => TypeOK
  <2> SUFFICES ASSUME IInv PROVE TypeOK
    OBVIOUS
  <2>1. slots \in 0 .. QuestionCapacity
    <3>1. slots \in Nat /\ slots + Cardinality(Holding) = QuestionCapacity
      BY DEF IInv, Types, SlotsAreConserved
    <3> QED  BY <3>1, HoldingIsFinite, BoundsAssumption
  <2> QED  BY <2>1 DEF IInv, Types, TypeOK
<1> QED  BY <1>1, Invariant, PTL

\* No answer that was cut short is saved as a whole one: what the handler makes
\* of the end of a stream is what the processor meant by it, for answers of any
\* length and however many are asked for at a time.
THEOREM SavedAnswersAreWhole == Spec => []SavedIsWhole
<1>1. IInv => SavedIsWhole
  BY DEF IInv, Saved, Whole, Pieces, SavedIsWhole
<1> QED  BY <1>1, Invariant, PTL

\* Nothing is written to the history of a document that is deleted meanwhile.
THEOREM HistoryGoesWithDocument == Spec => []NoHistoryOfDeleted
<1>1. IInv => NoHistoryOfDeleted
  BY DEF IInv, Saved, NoHistoryOfDeleted
<1> QED  BY <1>1, Invariant, PTL

\* Who is told that the answer is complete finds it saved, and its slot free.
THEOREM ToldTheTruth == Spec => []OkIsTrue
<1>1. IInv => OkIsTrue
  BY DEF IInv, Told, OkIsTrue, Holding
<1> QED  BY <1>1, Invariant, PTL

\* set_response and cancel_response do not miss each other.
THEOREM CancellationIsSeen == Spec => []CancelReachesModel
<1>1. IInv => CancelReachesModel
  BY DEF IInv, Questions, OneQuestion, CancelSeen, CancelReachesModel
<1> QED  BY <1>1, Invariant, PTL

\* Every way out of AnswerQuestion gives its slot back, once.
THEOREM SlotsConserved == Spec => []SlotsAreConserved
BY Invariant, PTL DEF IInv

=============================================================================
