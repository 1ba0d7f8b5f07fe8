-------------------------- MODULE ProcessorStream --------------------------
(***************************************************************************)
(* The stream of one document: what Process sends                          *)
(* (src/document-processor/service.py), what processDocument makes of it,  *)
(* and when a temporary failure is tried again (src/api/worker.go).        *)
(*                                                                         *)
(* The stream is ordered and the receiver never answers, so that it is a   *)
(* function of what happened to the sender; the receiver takes its events  *)
(* one by one.                                                             *)
(***************************************************************************)
EXTENDS Integers, SequencesExt

CONSTANTS
    BatchSize,          \* EMBEDDING_BATCH_SIZE
    MaxProcessedChunks, \* maxProcessedChunks
    MaxDuration         \* the largest time.Duration, an int64

ASSUME StreamAssumption ==
    BatchSize \in Nat \ {0} /\ MaxProcessedChunks \in Nat /\ MaxDuration \in Nat

-----------------------------------------------------------------------------
(* The sender.                                                              *)

\* fits: the text, its pages, the dimensions and the id are what the receiver
\* accepts.  The processor sums the pages without the breaks that join them, and
\* takes its limits from the environment, so that it may send what does not fit.
Metadata(count, fits) == [kind |-> "metadata", count |-> count, fits |-> fits]

\* fits, of a chunk: so are its embedding, text and pages.
Batch(index, chunks) == [kind |-> "batch", index |-> index, chunks |-> chunks]

BatchAt(count, unfit, i) ==
    Batch(i, [j \in 1 .. (IF (i + 1) * BatchSize <= count THEN BatchSize ELSE count - i * BatchSize) |->
                [index |-> i * BatchSize + j - 1, fits |-> i * BatchSize + j - 1 \notin unfit]])

\* The loop over the batches, in steps of BatchSize.
HasBatch(count, i) == i * BatchSize < count

\* What a stream may hold.
Event ==
    [kind : {"metadata"}, count : Nat, fits : BOOLEAN]
    \union [kind : {"batch"}, index : Nat, chunks : Seq([index : Nat, fits : BOOLEAN])]
Stream == [events : Seq(Event), end : {"EOF", "INVALID_ARGUMENT", "UNAVAILABLE"}]

\* How a run of Process stops.
\*   complete   all batches are sent
\*   drained    it is shut down in mid-stream, and just returns
\*   invalid    the PDF has no text, or more than the processor's limits
\*   timed out  extracting the text takes too long, or its child process fails
\*   refused    the processor is shutting down already, or full
\*   failed     the embedding of a batch fails
\*   lost       the connection is lost, or the worker's time is over
Stops == {"complete", "drained", "invalid", "timed out", "refused", "failed", "lost"}

End(stop) ==
    IF stop \in {"complete", "drained"} THEN "EOF"
    ELSE IF stop \in {"invalid", "timed out"} THEN "INVALID_ARGUMENT"
    ELSE "UNAVAILABLE"

\* A run for a document of count chunks, of which those in unfit do not fit, and
\* whether its metadata does: how it stopped, and how many batches were sent by
\* then; -1 if not even the metadata.
ProcessorRun == [count : Nat, fits : BOOLEAN, unfit : SUBSET Nat, sent : Int, stop : Stops]

Possible(run) ==
    LET sent == run.sent \in Nat /\ (run.sent > 0 => HasBatch(run.count, run.sent - 1))
        more == HasBatch(run.count, run.sent)
    IN  \/ run.stop \in {"invalid", "timed out", "refused"} /\ run.sent = -1
        \/ run.stop \in {"drained", "failed"} /\ sent /\ more
        \/ run.stop = "complete" /\ sent /\ ~more
        \/ run.stop = "lost" /\ (sent \/ run.sent = -1)

Process(run) ==
    [events |-> IF run.sent = -1 THEN <<>>
                ELSE <<Metadata(run.count, run.fits)>>
                     \o [i \in 1 .. run.sent |-> BatchAt(run.count, run.unfit, i - 1)],
     end |-> End(run.stop)]

-----------------------------------------------------------------------------
(* The receiver.                                                            *)

\* Mutant of ProcessorError: every code that the processor sets is permanent.
ProcessorError_anyCode(code) == "permanent"
ProcessorError(code) == IF code = "INVALID_ARGUMENT" THEN "permanent" ELSE "retryable"

Waiting == [verdict |-> "none", expected |-> -1, nextBatch |-> 0, chunks |-> <<>>]

Rejected(s) == [s EXCEPT !.verdict = "permanent"]

\* The chunks of a batch follow those before, all fit, and there are not too many.
ReceiveBatch(s, chunks) ==
    IF \E j \in DOMAIN chunks : \/ Len(s.chunks) + j - 1 >= MaxProcessedChunks
                                \/ chunks[j].index # Len(s.chunks) + j - 1
                                \/ ~chunks[j].fits
    THEN Rejected(s)
    ELSE [s EXCEPT !.nextBatch = @ + 1,
                   !.chunks = @ \o [j \in DOMAIN chunks |-> chunks[j].index]]

\* The metadata comes first, and once.
ReceiveMetadata(s, event) ==
    IF s.expected # -1 \/ ~event.fits \/ event.count > MaxProcessedChunks
    THEN Rejected(s)
    ELSE [s EXCEPT !.expected = event.count]

ReceiveEvent(s, event) ==
    IF event.kind = "metadata" THEN ReceiveMetadata(s, event)
    ELSE IF s.expected = -1 \/ event.index # s.nextBatch THEN Rejected(s)
    ELSE ReceiveBatch(s, event.chunks)

\* Mutant of AtEOF: a stream that ends in good order is complete.
AtEOF_uncounted(s) == s.expected # -1
AtEOF(s) == s.expected # -1 /\ Len(s.chunks) = s.expected

\* The end of the stream: extracted, permanent or retryable.
ReceiveEnd(s, end) ==
    [s EXCEPT !.verdict = IF end # "EOF" THEN ProcessorError(end)
                          ELSE IF AtEOF(s) THEN "extracted" ELSE "permanent"]

-----------------------------------------------------------------------------
(* retryBackoff.                                                            *)

\* Two's complement.
Wrap(n) ==
    LET durations == 2 * (MaxDuration + 1)
        m == n % durations
    IN  IF m <= MaxDuration THEN m ELSE m - durations

\* Mutant of DoubledDelay: doubled before it is compared.
DoubledDelay_late(delay, max) == Wrap(delay * 2)
DoubledDelay(delay, max) == IF delay > max \div 2 THEN max ELSE Wrap(delay * 2)

\* The delay of each attempt up to the given one.
Delays(attempt, initial, max) ==
    LET delay[n \in 1 .. attempt] ==
            IF n = 1 THEN initial
            ELSE IF delay[n - 1] < max THEN DoubledDelay(delay[n - 1], max)
            ELSE delay[n - 1]
    IN  delay

RetryBackoff(attempt, initial, max) ==
    LET delay == Delays(attempt, initial, max)[attempt]
    IN  IF delay > max THEN max ELSE delay
=============================================================================
