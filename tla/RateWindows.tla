---------------------------- MODULE RateWindows ----------------------------
(***************************************************************************)
(* The limits an API without a database keeps in memory: uploads and       *)
(* answers of one owner (src/api/admission.go), and attempts to register   *)
(* and to log in (allow in src/api/auth_limiter.go).                       *)
(*                                                                         *)
(* Each call holds a mutex from its first line to its last, so that it is  *)
(* one step.  A call says how much time has passed since the one before.   *)
(***************************************************************************)
EXTENDS Integers, SequencesExt

CONSTANTS
    MaxOwnerStorage,   \* bytes of one owner
    MaxOwnerDocuments, \* documents of one owner
    MaxUploads,        \* uploads in UploadWindow
    UploadWindow,      \* an hour
    MaxActive,         \* answers of one owner at a time
    MaxAnswers,        \* answers in AnswerWindow
    AnswerWindow,      \* a day
    AuthKeys,          \* kinds and keys of attempts
    AuthLimit,         \* attempts of each key in its AuthWindow
    AuthWindow,        \* the window of each key: authRegisterWindow, authLoginWindow
    MaxEntries         \* maxAuthRateEntries

ASSUME RatesAssumption ==
    /\ {MaxOwnerStorage, MaxOwnerDocuments, MaxActive, MaxEntries} \subseteq Nat
    /\ {MaxUploads, MaxAnswers, UploadWindow, AnswerWindow} \subseteq Nat \ {0}
    /\ IsFiniteSet(AuthKeys)
    /\ AuthLimit \in [AuthKeys -> Nat \ {0}]
    /\ AuthWindow \in [AuthKeys -> Nat \ {0}]

-----------------------------------------------------------------------------
\* Mutant of Expired: the far end of the window is left out.
Expired_equal(t, since) == t <= since
Expired(t, since) == t < since

\* recent: all but the longest expired prefix.
Recent(values, since) ==
    LET expired == {i \in DOMAIN values : \A j \in 1 .. i : Expired(values[j], since)}
    IN  SubSeq(values, 1 + Cardinality(expired), Len(values))

-----------------------------------------------------------------------------
(* admissionController, for one owner.  Besides ownerUsage: the clock, the  *)
(* uploads that hold a reservation, the answers under way, and the times of *)
(* all that was admitted.                                                   *)

NewOwner ==
    [bytes |-> 0, documents |-> 0, uploads |-> <<>>, answers |-> <<>>, active |-> 0,
     now |-> 0, held |-> {}, running |-> 0, uploaded |-> <<>>, answered |-> <<>>]

ReserveUpload(u, size) ==
    LET uploads == Recent(u.uploads, u.now - UploadWindow)
    IN  IF \/ u.bytes + size > MaxOwnerStorage
           \/ u.documents >= MaxOwnerDocuments
           \/ Len(uploads) >= MaxUploads
        THEN [u EXCEPT !.uploads = uploads]
        ELSE [u EXCEPT !.bytes = @ + size, !.documents = @ + 1,
                       !.uploads = Append(uploads, u.now), !.uploaded = Append(@, u.now),
                       !.held = @ \union {[id |-> Len(u.uploaded) + 1, size |-> size]}]

\* Mutant of ReleaseUpload: the document is given back, its bytes are not.
ReleaseUpload_keepsBytes(u, upload) ==
    [u EXCEPT !.documents = @ - 1, !.held = @ \ {upload}]

\* After a failed upload, or when the document is deleted.
ReleaseUpload(u, upload) ==
    [u EXCEPT !.bytes = @ - upload.size, !.documents = @ - 1, !.held = @ \ {upload}]

BeginAnswer(u) ==
    LET answers == Recent(u.answers, u.now - AnswerWindow)
    IN  IF u.active >= MaxActive \/ Len(answers) >= MaxAnswers
        THEN [u EXCEPT !.answers = answers]
        ELSE [u EXCEPT !.active = @ + 1, !.answers = Append(answers, u.now),
                       !.running = @ + 1, !.answered = Append(@, u.now)]

\* Deferred by Ask once beginAnswer has admitted it.
EndAnswer(u) ==
    [u EXCEPT !.active = IF @ > 0 THEN @ - 1 ELSE @, !.running = @ - 1]

\* What a call makes of the owner.  Only what was admitted is released, and
\* only once, and only answers under way end: other calls are not made.
AdmissionCall(u, call, next) ==
    LET v == [u EXCEPT !.now = @ + call.gap]
    IN  \/ call.op = "reserve" /\ next = ReserveUpload(v, call.size)
        \/ call.op = "release" /\ \E upload \in v.held : next = ReleaseUpload(v, upload)
        \/ call.op = "begin" /\ next = BeginAnswer(v)
        \/ call.op = "end" /\ v.running > 0 /\ next = EndAnswer(v)

-----------------------------------------------------------------------------
(* authRateLimiter.  attempts has an entry of each name with a recent       *)
(* attempt; here it is empty for the others.  Besides: the clock, the times *)
(* of all admitted attempts, and the answer to the last one.                *)

NewLimiter ==
    [now |-> 0,
     attempts |-> [k \in AuthKeys |-> <<>>], admitted |-> [k \in AuthKeys |-> <<>>],
     verdict |-> [allowed |-> TRUE]]

Names(attempts) == {k \in AuthKeys : attempts[k] # <<>>}

\* Every call forgets, of all names, what has expired in its own window.
AllowAttempt(l, call) ==
    LET now == l.now + call.gap
        pruned == [k \in AuthKeys |-> Recent(l.attempts[k], now - AuthWindow[call.key])]
        values == pruned[call.key]
        allowed == /\ Len(values) < AuthLimit[call.key]
                   /\ values = <<>> => Cardinality(Names(pruned)) < MaxEntries
        Noted(times) == IF allowed THEN [times EXCEPT ![call.key] = Append(@, now)] ELSE times
    IN  [now |-> now, attempts |-> Noted(pruned), admitted |-> Noted(l.admitted),
         verdict |-> [allowed |-> allowed, key |-> call.key]]
=============================================================================
