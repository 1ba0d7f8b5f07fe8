----------------------------- MODULE Algorithms -----------------------------
(***************************************************************************)
(* The algorithms of the API and of the processor, each applied to any of  *)
(* a set of inputs and compared with what it is for.  A behaviour is one   *)
(* application, or the units of one text, the events of one stream, the    *)
(* calls of one rate limiter or the pages of one list, one by one.         *)
(***************************************************************************)
EXTENDS Chunking, ProcessorStream, DocumentReads, RateWindows

CONSTANTS
    Texts,     \* texts of PDFs
    Runs,      \* runs of the processor
    Streams,   \* any streams of events, also those Process never sends
    Backoffs,  \* attempts, and the initial and the largest backoff
    Listings,  \* times of the documents, and how many are asked for
    Requests,  \* sizes of a file, and requests for it
    Admissions, \* calls of the admission controller
    Logins,    \* attempts to log in or to register
    MaxCalls   \* bound on the calls of a behaviour

\* A number of a Range may be any, or missing; a file has no more bytes than an
\* int64 can count.
StoredFileRequest ==
    [size : 0 .. MaxOffset,
     request : [head : BOOLEAN, notModified : BOOLEAN, stale : BOOLEAN,
                range : [kind : {"none", "numbers", "malformed"},
                         first : {Absent} \union Nat, last : {Absent} \union Nat]]]

ASSUME TextsAssumption == \A text \in Texts : IsText(text)

ASSUME RequestsAssumption == Requests \subseteq StoredFileRequest

ASSUME StreamsAssumption ==
    /\ \A run \in Runs :
          /\ run \in ProcessorRun
          /\ Possible(run)
    /\ Streams \subseteq Stream

\* The configuration takes positive durations only.
ASSUME BackoffsAssumption ==
    Backoffs \subseteq [attempt : Nat \ {0}, initial : 1 .. MaxDuration, max : 1 .. MaxDuration]

ASSUME ListingsAssumption == Listings \subseteq [created : [Documents -> Nat], query : Int]

ASSUME CallsAssumption ==
    /\ Admissions \subseteq [op : {"reserve", "release", "begin", "end"}, size : Nat, gap : Nat]
    /\ Logins \subseteq [key : AuthKeys, gap : Nat]

VARIABLES
    algorithm, \* the one that has been applied, or "none"
    input,
    output

vars == <<algorithm, input, output>>

Init == algorithm = "none" /\ input = <<>> /\ output = <<>>

Apply(name, in, out) ==
    /\ algorithm' = name
    /\ input' = in
    /\ output' = out

\* Process cuts a text into chunks.
Chunk == \E text \in Texts : Apply("chunk", text, Uncut)
GoOnCutting ==
    /\ UNCHANGED <<algorithm, input>>
    /\ \/ JoinPage(input, output, output')
       \/ CutUnit(input, output, output')
       \/ PackUnit(input, output, output')
       \/ LastChunk(input, output, output')

\* processDocument receives what Process sends, or any stream.
Run ==
    \E run \in Runs :
        Apply("run", [run |-> run, stream |-> Process(run), received |-> 0], Waiting)
Receive ==
    \E stream \in Streams : Apply("receive", [stream |-> stream, received |-> 0], Waiting)
NextEvent ==
    /\ output.verdict = "none"
    /\ input.received < Len(input.stream.events)
    /\ Apply(algorithm, [input EXCEPT !.received = @ + 1],
             ReceiveEvent(output, input.stream.events[input.received + 1]))
EndOfStream ==
    /\ output.verdict = "none"
    /\ input.received = Len(input.stream.events)
    /\ Apply(algorithm, input, ReceiveEnd(output, input.stream.end))

BackOff ==
    \E b \in Backoffs : Apply("back off", b, RetryBackoff(b.attempt, b.initial, b.max))
ServeRange ==
    \E r \in Requests : Apply("serve", r, ServeStoredFile(r.size, r.request))

\* The next page, of the documents there are by now.
ListPage ==
    \E l \in IF algorithm = "none" THEN Listings ELSE {input.listing},
       snapshot \in SUBSET Documents :
          /\ algorithm' = "list"
          /\ input' = [listing |-> l,
                       snapshots |-> IF algorithm = "none" THEN <<snapshot>>
                                     ELSE Append(input.snapshots, snapshot)]
          /\ List(IF algorithm = "none" THEN NewListing ELSE output,
                  l.created, snapshot, l.query, output')

\* The next call, of the first owner or limiter or of what the last has left.
Admit ==
    /\ Len(input) < MaxCalls
    /\ \E call \in Admissions :
          /\ algorithm' = "admit"
          /\ input' = Append(input, call)
          /\ AdmissionCall(IF algorithm = "none" THEN NewOwner ELSE output, call, output')
Attempt ==
    /\ Len(input) < MaxCalls
    /\ \E call \in Logins :
          Apply("attempt", Append(input, call),
                AllowAttempt(IF algorithm = "none" THEN NewLimiter ELSE output, call))

Next ==
    \/ /\ algorithm = "none"
       /\ Chunk \/ Run \/ Receive \/ BackOff \/ ServeRange
    \/ algorithm = "chunk" /\ GoOnCutting
    \/ algorithm \in {"run", "receive"} /\ (NextEvent \/ EndOfStream)
    \/ algorithm \in {"none", "list"} /\ ListPage
    \/ algorithm \in {"none", "admit"} /\ Admit
    \/ algorithm \in {"none", "attempt"} /\ Attempt

Spec == Init /\ [][Next]_vars

-----------------------------------------------------------------------------
(* Correctness.                                                             *)

\* The chunks of a PDF hold all of its words in order, repeating only the
\* overlap within a long paragraph; none is empty or larger than
\* TOKEN_CHUNK_SIZE; their offsets and pages are those of their words, also
\* behind blank pages; and a PDF is refused only if it needs more chunks than
\* MAX_CHUNKS.
ChunksCoverText ==
    algorithm = "chunk" /\ output.verdict # "none" => GoodChunks(input, output)

UnfitSent(run) ==
    \E i \in 1 .. run.sent : \E c \in ToSet(BatchAt(run.count, run.unfit, i - 1).chunks) : ~c.fits

\* The worker's limits do not hold of what a run has sent.
Oversize(run) ==
    /\ run.sent >= 0
    /\ \/ ~run.fits
       \/ run.count > MaxProcessedChunks
       \/ UnfitSent(run)

\* The first n events make a whole: metadata first and once, within the limits,
\* then the batches in order, whose chunks are numbered from 0 without a gap, each
\* batch going on where the one before has ended, until there are total.
Whole(events, n, total) ==
    /\ n >= 1 /\ events[1].kind = "metadata"
    /\ events[1].fits /\ events[1].count <= MaxProcessedChunks
    /\ \A i \in 2 .. n : events[i].kind = "batch" /\ events[i].index = i - 2
    /\ \E arrived \in [1 .. n -> 0 .. total] :
          /\ arrived[1] = 0 /\ arrived[n] = total
          /\ \A i \in 2 .. n :
                /\ arrived[i] = arrived[i - 1] + Len(events[i].chunks)
                /\ \A j \in DOMAIN events[i].chunks :
                      events[i].chunks[j] = [index |-> arrived[i - 1] + j - 1, fits |-> TRUE]

\* A document is ready exactly if the processor sent all of it, within the limits
\* of the worker; an invalid PDF fails for good, and what fails for a time
\* before the worker has seen too much of it is tried again.  Whatever arrives,
\* what is taken for a whole document is one, with as many chunks as it announced.
\* A run that was drained or timed out must not be taken for a document; that
\* it should be tried again, OnlyInvalidPdfsFailForGood of DocumentJobs says.
VerdictIsRight ==
    /\ algorithm = "run" /\ output.verdict # "none" =>
          LET run == input.run
          IN  /\ output.verdict = "extracted" <=> run.stop = "complete" /\ ~Oversize(run)
              /\ run.stop = "invalid" => output.verdict = "permanent"
              /\ run.stop \in {"refused", "failed", "lost"} /\ ~Oversize(run)
                    => output.verdict = "retryable"
    /\ algorithm \in {"run", "receive"} /\ output.verdict = "extracted" =>
          LET events == input.stream.events
          IN  /\ input.stream.end = "EOF"
              /\ Whole(events, Len(events), events[1].count)
              /\ output.chunks = [i \in 1 .. events[1].count |-> i - 1]

\* The initial backoff doubled from attempt to attempt, without a limit.
Doubled(attempt, initial) ==
    LET exact[n \in 1 .. attempt] == IF n = 1 THEN initial ELSE 2 * exact[n - 1]
    IN  exact[attempt]

\* Each retry waits twice as long as the one before, capped: doubling overflows
\* for no attempt and no configuration.
BackoffIsCapped ==
    algorithm = "back off" =>
        output = Smaller(Doubled(input.attempt, input.initial), input.max)

\* Following the cursors lists no document twice, whatever is uploaded and
\* deleted between the pages, and at the end none is missing that was there
\* all along; all that is listed was there, the latest first.
PagesListOnce ==
    algorithm = "list" =>
        LET seen == ToSet(input.snapshots)
        IN  /\ IsInjective(output.items)
            /\ ~output.hasMore =>
                  {d \in UNION seen : \A s \in seen : d \in s} \subseteq ToSet(output.items)
            /\ ToSet(output.items) \subseteq UNION seen
            /\ \A i \in 1 .. Len(output.items) - 1 :
                  Before(input.listing.created, output.items[i + 1], output.items[i])

\* The bytes of a file that a Range asks for.
Asked(size, range) ==
    {i \in 0 .. size - 1 :
        IF range.first = Absent THEN range.last # Absent /\ i >= size - range.last
        ELSE i >= range.first /\ (range.last = Absent \/ i <= range.last)}

\* Exactly the bytes are served that a Range asks for and the file has, under
\* their true Content-Length.  416 says that there are none, that the Range
\* cannot be read, or that its last number is none of an int64; a stale If-Range
\* brings the whole file.
RangesAsAsked ==
    algorithm = "serve" =>
        LET request == input.request
            all == request.range.kind = "none" \/ request.stale
            asked == IF all THEN 0 .. input.size - 1 ELSE Asked(input.size, request.range)
            refused == ~all /\ (\/ request.range.kind = "malformed" \/ asked = {}
                                \/ request.range.last > MaxOffset)
        IN  /\ output.status = (IF request.notModified THEN 304
                                ELSE IF refused THEN 416 ELSE IF all THEN 200 ELSE 206)
            /\ output.status \in {200, 206} =>
                  /\ output.length = Cardinality(asked)
                  /\ request.head => output.body = <<>>
                  /\ ~request.head => /\ ToSet(output.body) = asked
                                      /\ Len(output.body) = Cardinality(asked)
                  /\ \A i \in 1 .. Len(output.body) - 1 : output.body[i] < output.body[i + 1]

\* The times from t on.
Since(times, t) == {i \in DOMAIN times : times[i] >= t}

\* At most limit of the times lie within any window, both of its ends included.
AtMostPer(times, limit, window) ==
    \A i \in DOMAIN times :
        Cardinality({j \in DOMAIN times : times[j] \in times[i] .. times[i] + window}) <= limit

\* Every byte of an upload that is held is one.
HeldBytes(held) == Cardinality(UNION {{h} \X (1 .. h.size) : h \in held})

\* The admission controller counts exactly what is held and under way, within
\* the limits; and no more uploads in an hour and answers in a day are admitted
\* than allowed, wherever the hour or the day begins and whatever is released.
AdmissionKeepsLimits ==
    algorithm = "admit" =>
        /\ output.bytes = HeldBytes(output.held) /\ output.bytes <= MaxOwnerStorage
        /\ output.documents = Cardinality(output.held)
        /\ output.documents <= MaxOwnerDocuments
        /\ output.active = output.running /\ output.active \in 0 .. MaxActive
        /\ AtMostPer(output.uploaded, MaxUploads, UploadWindow)
        /\ AtMostPer(output.answered, MaxAnswers, AnswerWindow)

\* Nobody has asked with a window shorter than w, so that nothing was forgotten
\* that lies within it.
Remembered(w) == \A i \in DOMAIN input : w <= AuthWindow[input[i].key]

\* The in-memory limiter lets at most as many attempts of a key through as are
\* allowed in any window, wherever it begins; but an attempt of a kind with a
\* shorter window makes it forget what others need, and then the limit holds for
\* the shorter window only.  Its table does not outgrow maxAuthRateEntries; and it
\* refuses an attempt only if just then its key or the table is at its limit.
SlidingLimit ==
    algorithm = "attempt" =>
        LET key == output.verdict.key
            recent(k) == Since(output.admitted[k], output.now - AuthWindow[key])
        IN  /\ \A k \in AuthKeys : \A w \in 0 .. AuthWindow[k] :
                  Remembered(w) => AtMostPer(output.admitted[k], AuthLimit[k], w)
            /\ Cardinality(Names(output.attempts)) <= MaxEntries
            /\ ~output.verdict.allowed =>
                  \/ Cardinality(recent(key)) >= AuthLimit[key]
                  \/ Cardinality({k \in AuthKeys : recent(k) # {}}) >= MaxEntries
=============================================================================
