------------------------- MODULE Algorithms_proofs -------------------------
(***************************************************************************)
(* Proofs that a Range is answered with the bytes it asks for, that the    *)
(* in-memory limiters keep their limits, that backoff doubles up to its    *)
(* limit, that the pages of a list hold every document once, that what is  *)
(* received of a document gets the right verdict, and that the chunks of a *)
(* text hold all of its words: for inputs of any size, and any number of   *)
(* calls, pages and events.                                                *)
(***************************************************************************)
EXTENDS Algorithms, FiniteSetTheorems, SequenceTheorems, WellFoundedInduction, TLAPS

-----------------------------------------------------------------------------
(* What is sent.                                                            *)

\* GetRange reads the bytes of an interval, in order.
LEMMA BytesOfInterval ==
    ASSUME NEW size \in Nat, NEW start \in Nat, NEW end \in Int,
           end < size, start <= end + 1
    PROVE  /\ ToSet(GetRange(size, start, end)) = start .. end
           /\ Len(GetRange(size, start, end)) = end - start + 1
           /\ \A i \in 1 .. Len(GetRange(size, start, end)) - 1 :
                 GetRange(size, start, end)[i] < GetRange(size, start, end)[i + 1]
           /\ Cardinality(start .. end) = end - start + 1
           /\ end - start + 1 = 0 => start .. end = {}
<1>1. PICK n \in Nat : n = end - start + 1
  OBVIOUS
<1>2. PICK f : f = [i \in 1 .. n |-> start + i - 1]
  OBVIOUS
<1>3. GetRange(size, start, end) = f
  BY <1>1, <1>2 DEF GetRange
<1>4. f \in Seq(Nat) /\ Len(f) = n
  BY <1>2
<1>5. ToSet(f) = start .. end
  <2>1. ASSUME NEW b \in start .. end PROVE b \in ToSet(f)
    <3>1. b - start + 1 \in 1 .. n /\ f[b - start + 1] = b
      BY <1>1, <1>2
    <3> QED  BY <1>2, <3>1 DEF ToSet
  <2>2. ToSet(f) \subseteq start .. end
    BY <1>1, <1>2 DEF ToSet
  <2> QED  BY <2>1, <2>2
<1>6. \A i \in 1 .. n - 1 : f[i] < f[i + 1]
  BY <1>1, <1>2
<1>7. Cardinality(start .. end) = n
  BY <1>1, FS_Interval
<1>8. n = 0 => start .. end = {}
  BY <1>1
<1> QED  BY <1>1, <1>3, <1>4, <1>5, <1>6, <1>7, <1>8

\* A response that sends the bytes, in order and under their true length.
Sends(out, status, bytes, head) ==
    /\ out.status = status
    /\ out.length = Cardinality(bytes)
    /\ head => out.body = <<>>
    /\ ~head => ToSet(out.body) = bytes /\ Len(out.body) = Cardinality(bytes)
    /\ \A i \in 1 .. Len(out.body) - 1 : out.body[i] < out.body[i + 1]

\* A response with content sends the bytes from start to end.
LEMMA ContentOfInterval ==
    ASSUME NEW status, NEW size \in Nat, NEW start \in Nat, NEW end \in Int,
           end < size, start <= end + 1, NEW head \in BOOLEAN
    PROVE  Sends(Content(status, size, start, end, head), status, start .. end, head)
<1>0. PICK out : out = Content(status, size, start, end, head)
  OBVIOUS
<1> SUFFICES Sends(out, status, start .. end, head)
  BY <1>0
<1> USE DEF Sends
<1>1. /\ out.status = status /\ out.length = end - start + 1
      /\ out.body = (IF head \/ end - start + 1 = 0 THEN <<>> ELSE GetRange(size, start, end))
  BY <1>0 DEF Content
<1>2. out.length = Cardinality(start .. end)
  BY <1>1, BytesOfInterval
<1>3. Len(<<>>) = 0 /\ ToSet(<<>>) = {}
  BY DEF ToSet
<1>4. CASE head \/ end - start + 1 = 0
  <2>1. out.body = <<>>
    BY <1>1, <1>4
  <2>2. end - start + 1 = 0 => start .. end = {} /\ Cardinality(start .. end) = 0
    BY BytesOfInterval
  <2>3. ~head => ToSet(out.body) = start .. end /\ Len(out.body) = Cardinality(start .. end)
    BY <1>3, <1>4, <2>1, <2>2
  <2>4. \A i \in 1 .. Len(out.body) - 1 : out.body[i] < out.body[i + 1]
    BY <1>3, <2>1
  <2> QED  BY <1>1, <1>2, <2>1, <2>3, <2>4
<1>5. CASE ~(head \/ end - start + 1 = 0)
  <2>1. out.body = GetRange(size, start, end) /\ ~head
    BY <1>1, <1>5
  <2>2. PICK g : g = GetRange(size, start, end)
    OBVIOUS
  <2>3. /\ Len(g) = Cardinality(start .. end) /\ ToSet(g) = start .. end
        /\ \A i \in 1 .. Len(g) - 1 : g[i] < g[i + 1]
    BY <2>2, BytesOfInterval
  <2>4. out.body = g
    BY <2>1, <2>2
  <2> QED  BY <1>1, <1>2, <2>1, <2>3, <2>4
<1> QED  BY <1>4, <1>5

-----------------------------------------------------------------------------
(* What a Range asks for.                                                   *)

Unsatisfiable(size, wanted) ==
    wanted.failed \/ wanted.start >= size \/ wanted.end < wanted.start

\* What is wanted is what a Range asks for: it is refused exactly if that is
\* nothing, or if its last number is too large.
IsAsked(size, range, wanted) ==
    /\ Unsatisfiable(size, wanted) <=> Asked(size, range) = {} \/ range.last > MaxOffset
    /\ ~Unsatisfiable(size, wanted) =>
          /\ wanted.start \in Nat /\ ClipEnd(wanted.end, size) \in Nat
          /\ wanted.start <= ClipEnd(wanted.end, size) /\ ClipEnd(wanted.end, size) < size
          /\ Asked(size, range) = wanted.start .. ClipEnd(wanted.end, size)

LEMMA Parsed ==
    ASSUME NEW n \in Nat
    PROVE  /\ ParseInt(n).failed <=> n > MaxOffset
           /\ n <= MaxOffset => ParseInt(n).value = n
           /\ ParseInt(Absent).failed
<1>1. n # Absent /\ MaxOffset \in Nat
  BY ReadsAssumption DEF Absent
<1> QED  BY <1>1 DEF ParseInt

\* bytes=-n asks for the last n bytes.
LEMMA SuffixAsked ==
    ASSUME NEW size \in 0 .. MaxOffset, NEW range, range.first = Absent,
           range.last \in {Absent} \union Nat
    PROVE  IsAsked(size, range, SuffixRange(size, range.last))
<1>1. PICK last \in {Absent} \union Nat : last = range.last
  OBVIOUS
<1>2. PICK w : w = SuffixRange(size, last)
  OBVIOUS
<1>3. size \in Nat /\ size <= MaxOffset /\ MaxOffset \in Nat
  BY ReadsAssumption
<1>4. Asked(size, range) = {i \in 0 .. size - 1 : last # Absent /\ i >= size - last}
  BY <1>1 DEF Asked
<1>5. CASE last = Absent \/ last = 0 \/ last > MaxOffset
  <2>1. w.failed <=> ParseInt(last).failed \/ ParseInt(last).value <= 0
    BY <1>2 DEF SuffixRange
  <2>2. ParseInt(last).failed \/ ParseInt(last).value <= 0
    <3>1. CASE last = Absent
      BY <3>1, Parsed
    <3>2. CASE last # Absent /\ last > MaxOffset
      BY <3>2, Parsed
    <3>3. CASE last = 0
      <4>1. 0 \in Nat /\ 0 <= MaxOffset
        BY <1>3
      <4> QED  BY <3>3, <4>1, Parsed
    <3> QED  BY <1>5, <3>1, <3>2, <3>3
  <2>3. last = Absent \/ last = 0 => Asked(size, range) = {}
    BY <1>3, <1>4
  <2> QED  BY <1>1, <1>2, <1>5, <2>1, <2>2, <2>3 DEF IsAsked, Unsatisfiable
<1>6. CASE last # Absent /\ last # 0 /\ last <= MaxOffset
  <2>1. last \in Nat /\ last > 0
    BY <1>6
  <2>2. /\ ~w.failed /\ w.end = size - 1
        /\ w.start = (IF last > size THEN 0 ELSE size - last)
    <3>1. ~ParseInt(last).failed /\ ParseInt(last).value = last
      BY <1>3, <1>6, <2>1, Parsed
    <3>2. /\ w.end = size - 1
          /\ w.failed <=> ParseInt(last).failed \/ ParseInt(last).value <= 0
          /\ w.start = (IF ParseInt(last).failed \/ ParseInt(last).value > size
                        THEN 0 ELSE size - ParseInt(last).value)
      BY <1>2 DEF SuffixRange
    <3>3. ~(last <= 0)
      BY <2>1
    <3> QED  BY <3>1, <3>2, <3>3
  <2>3. w.start \in Nat /\ (w.start >= size <=> size = 0)
    BY <1>3, <2>1, <2>2
  <2>4. Unsatisfiable(size, w) <=> size = 0
    BY <1>3, <2>2, <2>3 DEF Unsatisfiable
  <2>5. ClipEnd(w.end, size) = size - 1
    BY <1>3, <2>2 DEF ClipEnd
  <2>6. Asked(size, range) = w.start .. (size - 1)
    <3>1. \A i \in 0 .. size - 1 : i >= size - last <=> i >= w.start
      BY <1>3, <2>1, <2>2
    <3> QED  BY <1>3, <1>4, <1>6, <2>3, <3>1
  <2>7. Asked(size, range) = {} <=> size = 0
    <3>1. size # 0 => w.start \in w.start .. (size - 1)
      BY <1>3, <2>3
    <3>2. size = 0 => w.start .. (size - 1) = {}
      BY <2>3
    <3> QED  BY <2>6, <3>1, <3>2
  <2>8. ~(range.last > MaxOffset)
    BY <1>1, <1>3, <1>6, <2>1
  <2>9. size # 0 => /\ w.start \in Nat /\ size - 1 \in Nat
                    /\ w.start <= size - 1 /\ size - 1 < size
    BY <1>3, <2>3
  <2> QED  BY <1>1, <1>2, <2>4, <2>5, <2>6, <2>7, <2>8, <2>9 DEF IsAsked
<1> QED  BY <1>1, <1>3, <1>5, <1>6

\* bytes=m- asks for all bytes from m.
LEMMA OpenAsked ==
    ASSUME NEW size \in 0 .. MaxOffset, NEW range, range.first \in Nat,
           range.last = Absent
    PROVE  IsAsked(size, range, BoundedRange(size, range.first, range.last))
<1>1. PICK first \in Nat : first = range.first
  OBVIOUS
<1>2. PICK w : w = BoundedRange(size, first, Absent)
  OBVIOUS
<1>3. size \in Nat /\ size <= MaxOffset /\ MaxOffset \in Nat /\ first # Absent
  BY ReadsAssumption DEF Absent
<1>4. Asked(size, range) = first .. (size - 1)
  <2>1. Asked(size, range) = {i \in 0 .. size - 1 : i >= first}
    BY <1>1, <1>3 DEF Asked
  <2> QED  BY <1>3, <2>1
<1>5. /\ w.end = size - 1
      /\ w.start = (IF first > MaxOffset THEN MaxOffset ELSE first)
      /\ w.failed <=> first > MaxOffset
  BY <1>2, <1>3 DEF BoundedRange, ParseInt
<1>6. Unsatisfiable(size, w) <=> first >= size
  BY <1>3, <1>5 DEF Unsatisfiable
<1>7. Asked(size, range) = {} <=> first >= size
  <2>1. first < size => first \in first .. (size - 1)
    BY <1>3
  <2>2. first >= size => first .. (size - 1) = {}
    BY <1>3
  <2> QED  BY <1>3, <1>4, <2>1, <2>2
<1>8. ~(range.last > MaxOffset)
  BY <1>3 DEF Absent
<1>9. ClipEnd(w.end, size) = size - 1
  BY <1>3, <1>5 DEF ClipEnd
<1>10. first < size => /\ w.start = first /\ size - 1 \in Nat
                       /\ first <= size - 1 /\ size - 1 < size
  BY <1>3, <1>5
<1>11. first < size \/ first >= size
  BY <1>3
<1> QED  BY <1>1, <1>2, <1>4, <1>6, <1>7, <1>8, <1>9, <1>10, <1>11 DEF IsAsked

\* bytes=m-n asks for the bytes from m to n.
LEMMA ClosedAsked ==
    ASSUME NEW size \in 0 .. MaxOffset, NEW range, range.first \in Nat,
           range.last \in Nat
    PROVE  IsAsked(size, range, BoundedRange(size, range.first, range.last))
<1>1. PICK first \in Nat, last \in Nat : first = range.first /\ last = range.last
  OBVIOUS
<1>2. PICK w : w = BoundedRange(size, first, last)
  OBVIOUS
<1>3. size \in Nat /\ size <= MaxOffset /\ MaxOffset \in Nat /\ first # Absent /\ last # Absent
  BY ReadsAssumption DEF Absent
<1>4. PICK end \in Int : end = IF last >= size THEN size - 1 ELSE last
  BY <1>3
<1>5. Asked(size, range) = first .. end
  <2>1. Asked(size, range) = {i \in 0 .. size - 1 : i >= first /\ i <= last}
    BY <1>1, <1>3 DEF Asked
  <2> QED  BY <1>3, <1>4, <2>1
<1>6. /\ w.end = (IF last > MaxOffset THEN MaxOffset ELSE last)
      /\ w.start = (IF first > MaxOffset THEN MaxOffset ELSE first)
      /\ w.failed <=> last > MaxOffset
  BY <1>2, <1>3 DEF BoundedRange, ParseInt
<1>7. CASE last > MaxOffset
  BY <1>1, <1>2, <1>6, <1>7 DEF IsAsked, Unsatisfiable
<1>8. CASE last <= MaxOffset
  <2>1. w.end = last /\ ~w.failed /\ ClipEnd(w.end, size) = end
    BY <1>3, <1>4, <1>6, <1>8 DEF ClipEnd
  <2>2. Unsatisfiable(size, w) <=> first >= size \/ last < first
    BY <1>3, <1>6, <1>8, <2>1 DEF Unsatisfiable
  <2>3. first >= size \/ last < first <=> ~(first <= end)
    BY <1>3, <1>4
  <2>4. Asked(size, range) = {} <=> ~(first <= end)
    <3>1. first <= end => first \in first .. end
      OBVIOUS
    <3>2. ~(first <= end) => first .. end = {}
      OBVIOUS
    <3> QED  BY <1>5, <3>1, <3>2
  <2>5. first <= end => w.start = first /\ end \in Nat /\ end < size
    BY <1>3, <1>4, <1>6
  <2>6. ~(range.last > MaxOffset)
    BY <1>1, <1>3, <1>8
  <2> QED  BY <1>1, <1>2, <1>5, <2>1, <2>2, <2>3, <2>4, <2>5, <2>6 DEF IsAsked
<1> QED  BY <1>3, <1>7, <1>8

\* What a Range that is not malformed is taken for.
Wanted(size, range) ==
    IF range.first = Absent THEN SuffixRange(size, range.last)
    ELSE BoundedRange(size, range.first, range.last)

LEMMA WantedIsAsked ==
    ASSUME NEW size \in 0 .. MaxOffset, NEW range,
           range.first \in {Absent} \union Nat, range.last \in {Absent} \union Nat
    PROVE  IsAsked(size, range, Wanted(size, range))
<1>1. CASE range.first = Absent
  BY <1>1, SuffixAsked DEF Wanted
<1>2. CASE range.first # Absent
  <2>1. range.first \in Nat /\ Wanted(size, range) = BoundedRange(size, range.first, range.last)
    BY <1>2 DEF Wanted
  <2> QED  BY <2>1, OpenAsked, ClosedAsked
<1> QED  BY <1>1, <1>2

-----------------------------------------------------------------------------
\* The output is right for a request that asks for the bytes asked.
Right(all, asked, refused, request) ==
    /\ output.status = (IF request.notModified THEN 304
                        ELSE IF refused THEN 416 ELSE IF all THEN 200 ELSE 206)
    /\ output.status \in {200, 206} =>
          /\ output.length = Cardinality(asked)
          /\ request.head => output.body = <<>>
          /\ ~request.head => /\ ToSet(output.body) = asked
                              /\ Len(output.body) = Cardinality(asked)
          /\ \A i \in 1 .. Len(output.body) - 1 : output.body[i] < output.body[i + 1]

\* A request for a file, and the answer to it.
LEMMA AnswerIsRight ==
    ASSUME algorithm = "serve", input \in StoredFileRequest,
           output = ServeStoredFile(input.size, input.request)
    PROVE  RangesAsAsked
<1>1. PICK size : size = input.size
  OBVIOUS
<1>2. PICK request : request = input.request
  OBVIOUS
<1>3. PICK range : range = request.range
  OBVIOUS
<1>4. /\ size \in 0 .. MaxOffset /\ size \in Nat /\ size - 1 \in Int /\ size - 1 < size
      /\ 0 <= (size - 1) + 1 /\ request.head \in BOOLEAN
      /\ range.first \in {Absent} \union Nat /\ range.last \in {Absent} \union Nat
  BY <1>1, <1>2, <1>3, ReadsAssumption DEF StoredFileRequest
<1>5. PICK wanted : wanted = Wanted(size, range)
  OBVIOUS
<1>6. IsAsked(size, range, wanted)
  BY <1>4, <1>5, WantedIsAsked
<1>7. PICK all \in BOOLEAN : all <=> range.kind = "none" \/ request.stale
  OBVIOUS
<1>8. PICK asked : asked = IF all THEN 0 .. (size - 1) ELSE Asked(size, range)
  OBVIOUS
<1>9. PICK refused \in BOOLEAN :
         refused <=> ~all /\ (\/ range.kind = "malformed" \/ asked = {}
                             \/ range.last > MaxOffset)
  OBVIOUS
<1> SUFFICES Right(all, asked, refused, request)
  BY <1>1, <1>2, <1>3, <1>7, <1>8, <1>9 DEF RangesAsAsked, Right
<1>10. output =
         IF request.notModified THEN NoContent(304)
         ELSE IF all THEN Content(200, size, 0, size - 1, request.head)
         ELSE IF range.kind = "malformed" \/ Unsatisfiable(size, wanted) THEN NoContent(416)
         ELSE Content(206, size, wanted.start, ClipEnd(wanted.end, size), request.head)
  BY <1>1, <1>2, <1>3, <1>5, <1>7 DEF ServeStoredFile, Wanted, Unsatisfiable
<1>11. CASE request.notModified
  <2>1. output.status = 304
    BY <1>10, <1>11 DEF NoContent
  <2> QED  BY <1>11, <2>1 DEF Right
<1>12. CASE ~request.notModified /\ all
  <2>1. asked = 0 .. (size - 1) /\ ~refused
    BY <1>8, <1>9, <1>12
  <2>2. output = Content(200, size, 0, size - 1, request.head)
    BY <1>10, <1>12
  <2>3. Sends(output, 200, 0 .. (size - 1), request.head)
    <3>1. 0 \in Nat
      OBVIOUS
    <3> QED  BY <1>4, <2>2, <3>1, ContentOfInterval
  <2> QED  BY <1>12, <2>1, <2>3 DEF Right, Sends
<1>13. CASE /\ ~request.notModified /\ ~all
            /\ range.kind = "malformed" \/ Unsatisfiable(size, wanted)
  <2>1. output.status = 416
    BY <1>10, <1>13 DEF NoContent
  <2>2. asked = Asked(size, range)
    BY <1>8, <1>13
  <2>3. refused
    BY <1>6, <1>9, <1>13, <2>2 DEF IsAsked
  <2> QED  BY <1>13, <2>1, <2>3 DEF Right
<1>14. CASE /\ ~request.notModified /\ ~all
            /\ ~(range.kind = "malformed" \/ Unsatisfiable(size, wanted))
  <2>1. PICK start : start = wanted.start
    OBVIOUS
  <2>2. PICK end : end = ClipEnd(wanted.end, size)
    OBVIOUS
  <2>3. /\ start \in Nat /\ end \in Nat /\ start <= end /\ end < size
        /\ Asked(size, range) = start .. end
        /\ ~(Asked(size, range) = {} \/ range.last > MaxOffset)
    BY <1>6, <1>14, <2>1, <2>2 DEF IsAsked
  <2>4. asked = start .. end /\ ~refused
    BY <1>8, <1>9, <1>14, <2>3
  <2>5. output = Content(206, size, start, end, request.head)
    BY <1>10, <1>14, <2>1, <2>2
  <2>6. end \in Int /\ start <= end + 1
    BY <2>3
  <2>7. Sends(output, 206, start .. end, request.head)
    BY <1>4, <2>3, <2>5, <2>6, ContentOfInterval
  <2> QED  BY <1>14, <2>4, <2>7 DEF Right, Sends
<1> QED  BY <1>11, <1>12, <1>13, <1>14

\* Whatever is asked of a file of any size, exactly those of its bytes are sent,
\* under their true length, and 416 only where there are none or the Range
\* cannot be read.
THEOREM RangesServed == Spec => []RangesAsAsked
<1> DEFINE Served == algorithm = "serve" =>
              input \in StoredFileRequest /\ output = ServeStoredFile(input.size, input.request)
<1>1. Init => Served
  BY DEF Init
<1>2. Served /\ [Next]_vars => Served'
  <2> SUFFICES ASSUME Served, [Next]_vars PROVE Served'
    OBVIOUS
  <2>1. CASE UNCHANGED vars
    BY <2>1 DEF vars
  <2>2. CASE ServeRange
    BY <2>2, RequestsAssumption DEF ServeRange, Apply
  <2>3. CASE Chunk \/ Run \/ Receive \/ BackOff \/ ListPage \/ Admit \/ Attempt
    BY <2>3 DEF Chunk, Run, Receive, BackOff, ListPage, Admit, Attempt, Apply
  <2>4. CASE /\ algorithm \in {"run", "receive"}
             /\ NextEvent \/ EndOfStream
    BY <2>4 DEF NextEvent, EndOfStream, Apply
  <2>5. CASE algorithm = "chunk" /\ GoOnCutting
    BY <2>5 DEF GoOnCutting
  <2> QED  BY <2>1, <2>2, <2>3, <2>4, <2>5 DEF Next
<1>3. Served => RangesAsAsked
  <2>1. CASE algorithm = "serve"
    BY <2>1, AnswerIsRight
  <2>2. CASE algorithm # "serve"
    BY <2>2 DEF RangesAsAsked
  <2> QED  BY <2>1, <2>2
<1> QED  BY <1>1, <1>2, <1>3, PTL DEF Spec

-----------------------------------------------------------------------------
(* Sliding windows: what a limiter keeps, against all it has admitted.      *)

\* There are n positions in a sequence of n.
LEMMA FirstPositions ==
    ASSUME NEW n \in Nat
    PROVE  IsFiniteSet(1 .. n) /\ Cardinality(1 .. n) = n
<1>1. /\ IsFiniteSet(1 .. n)
      /\ Cardinality(1 .. n) = IF 1 > n THEN 0 ELSE n - 1 + 1
  BY FS_Interval
<1> QED  BY <1>1

\* Every set of positions is finite.
LEMMA FinitePositions ==
    ASSUME NEW n \in Nat, NEW S \in SUBSET (1 .. n)
    PROVE  IsFiniteSet(S) /\ Cardinality(S) \in Nat /\ Cardinality(S) <= n
<1>1. IsFiniteSet(1 .. n) /\ Cardinality(1 .. n) = n
  BY FirstPositions
<1>2. IsFiniteSet(S) /\ Cardinality(S) <= Cardinality(1 .. n)
  BY <1>1, FS_Subset
<1> QED  BY <1>1, <1>2, FS_CardinalityType

LEMMA FiniteSince ==
    ASSUME NEW times \in Seq(Nat), NEW t \in Int
    PROVE  /\ IsFiniteSet(Since(times, t)) /\ Cardinality(Since(times, t)) \in Nat
           /\ Cardinality(Since(times, t)) <= Len(times)
<1>1. Since(times, t) \in SUBSET (1 .. Len(times)) /\ Len(times) \in Nat
  BY DEF Since
<1> QED  BY <1>1, FinitePositions

\* A set of numbers that is not empty has a least member.
LEMMA LeastNumber ==
    ASSUME NEW S \in SUBSET Nat, S # {}
    PROVE  \E n \in S : \A m \in S : n <= m
<1>1. PICK n \in S : \A m \in S : ~(<<m, n>> \in OpToRel(<, Nat))
  BY NatLessThanWellFounded, WFMin
<1>2. \A k, m \in Nat : m < k => <<m, k>> \in OpToRel(<, Nat)
  BY DEF OpToRel
<1>3. \A m \in S : m \in Nat /\ n \in Nat /\ ~(m < n)
  BY <1>1, <1>2
<1>4. \A m \in S : n <= m
  BY <1>3
<1> QED  BY <1>4

\* recent drops the longest prefix that is too old.
LEMMA RecentIsSuffix ==
    ASSUME NEW values \in Seq(Nat), NEW since \in Int
    PROVE  \E m \in 0 .. Len(values) :
              /\ Recent(values, since) = SubSeq(values, m + 1, Len(values))
              /\ \A j \in 1 .. m : values[j] < since
              /\ m < Len(values) => values[m + 1] >= since
<1> DEFINE old == {i \in DOMAIN values : \A j \in 1 .. i : Expired(values[j], since)}
           young == {i \in DOMAIN values : values[i] >= since}
<1>1. Len(values) \in Nat /\ DOMAIN values = 1 .. Len(values)
      /\ \A i \in 1 .. Len(values) : values[i] \in Nat
  OBVIOUS
<1>2. ASSUME NEW m \in 0 .. Len(values), old = 1 .. m
      PROVE  Recent(values, since) = SubSeq(values, m + 1, Len(values))
  <2>1. Cardinality(1 .. m) = m
    BY FirstPositions
  <2>2. Cardinality(old) = m
    BY <1>2, <2>1
  <2>3. Recent(values, since) = SubSeq(values, 1 + Cardinality(old), Len(values))
    BY DEF Recent
  <2>4. 1 + m = m + 1
    OBVIOUS
  <2> QED  BY <2>2, <2>3, <2>4
<1>3. CASE young = {}
  <2>1. \A i \in 1 .. Len(values) : values[i] < since
    BY <1>1, <1>3
  <2>2. old = 1 .. Len(values)
    BY <1>1, <2>1 DEF Expired
  <2>3. PICK m : m = Len(values)
    OBVIOUS
  <2>4. m \in 0 .. Len(values)
    BY <1>1, <2>3
  <2>5. Recent(values, since) = SubSeq(values, m + 1, Len(values))
    BY <1>2, <2>2, <2>3, <2>4
  <2>6. (\A j \in 1 .. m : values[j] < since) /\ ~(m < Len(values))
    BY <1>1, <2>1, <2>3
  <2> QED  BY <2>5, <2>6, <2>4
<1>4. CASE young # {}
  <2>0. young \in SUBSET Nat
    BY <1>1
  <2>1. PICK q \in young : \A i \in young : q <= i
    BY <2>0, <1>4, LeastNumber
  <2>2. /\ q \in 1 .. Len(values) /\ values[q] >= since
        /\ \A i \in 1 .. q - 1 : values[i] < since
    BY <1>1, <2>1
  <2>3. PICK m \in 0 .. Len(values) : m = q - 1
    BY <1>1, <2>2
  <2>4. old = 1 .. m
    BY <1>1, <2>2, <2>3 DEF Expired
  <2>5. Recent(values, since) = SubSeq(values, m + 1, Len(values))
    BY <1>2, <2>4
  <2>6. m + 1 = q
    BY <2>2, <2>3
  <2>7. (\A j \in 1 .. m : values[j] < since) /\ values[m + 1] >= since
    BY <2>2, <2>3, <2>6
  <2> QED  BY <2>5, <2>7
<1> QED  BY <1>3, <1>4

\* A suffix has no more times than the whole from any time on, and as many if
\* what it leaves out is earlier.
LEMMA CountsOfSuffix ==
    ASSUME NEW values \in Seq(Nat), NEW m \in 0 .. Len(values), NEW t \in Int,
           NEW rest, rest = SubSeq(values, m + 1, Len(values))
    PROVE  /\ rest \in Seq(Nat) /\ Len(rest) = Len(values) - m
           /\ \A i \in 1 .. Len(rest) : rest[i] = values[m + i]
           /\ Cardinality(Since(rest, t)) <= Cardinality(Since(values, t))
           /\ (\A j \in 1 .. m : values[j] < t) =>
                 Cardinality(Since(values, t)) <= Cardinality(Since(rest, t))
<1>1. /\ rest \in Seq(Nat) /\ Len(rest) = Len(values) - m
      /\ \A i \in 1 .. Len(rest) : rest[i] = values[m + i]
  OBVIOUS
<1>2. IsFiniteSet(Since(rest, t)) /\ IsFiniteSet(Since(values, t))
  BY <1>1, FiniteSince
<1>3. Cardinality(Since(rest, t)) <= Cardinality(Since(values, t))
  <2>1. PICK f : f = [i \in Since(rest, t) |-> m + i]
    OBVIOUS
  <2>2. f \in Injection(Since(rest, t), Since(values, t))
    BY <1>1, <2>1 DEF Injection, IsInjective, Since
  <2> QED  BY <1>2, <2>2, FS_Injection
<1>4. ASSUME \A j \in 1 .. m : values[j] < t
      PROVE  Cardinality(Since(values, t)) <= Cardinality(Since(rest, t))
  <2>1. PICK f : f = [i \in Since(values, t) |-> i - m]
    OBVIOUS
  <2>2. ASSUME NEW i \in Since(values, t) PROVE i - m \in Since(rest, t)
    <3>1. i \in 1 .. Len(values) /\ values[i] >= t
      BY DEF Since
    <3>2. i \notin 1 .. m
      BY <1>4, <3>1
    <3>3. Len(values) \in Nat /\ Len(rest) \in Nat
      BY <1>1
    <3>4. i - m \in 1 .. Len(rest) /\ m + (i - m) = i
      BY <1>1, <3>1, <3>2, <3>3
    <3>5. rest[i - m] = values[i]
      BY <1>1, <3>4
    <3>6. DOMAIN rest = 1 .. Len(rest)
      BY <1>1
    <3> QED  BY <3>1, <3>4, <3>5, <3>6 DEF Since
  <2>3. \A i, j \in Since(values, t) : i - m = j - m => i = j
    BY DEF Since
  <2>4. f \in Injection(Since(values, t), Since(rest, t))
    BY <2>1, <2>2, <2>3 DEF Injection, IsInjective
  <2> QED  BY <1>2, <2>4, FS_Injection
<1> QED  BY <1>1, <1>3, <1>4

\* One time more at the end.
LEMMA CountsOfAppend ==
    ASSUME NEW values \in Seq(Nat), NEW now \in Nat, NEW t \in Int,
           NEW more, more = Append(values, now)
    PROVE  /\ more \in Seq(Nat) /\ Len(more) = Len(values) + 1
           /\ \A i \in 1 .. Len(values) : more[i] = values[i]
           /\ more[Len(more)] = now
           /\ now >= t => Cardinality(Since(more, t)) = Cardinality(Since(values, t)) + 1
           /\ ~(now >= t) => Cardinality(Since(more, t)) = Cardinality(Since(values, t))
<1>1. /\ more \in Seq(Nat) /\ Len(more) = Len(values) + 1
      /\ \A i \in 1 .. Len(values) : more[i] = values[i]
      /\ more[Len(more)] = now /\ Len(values) \in Nat
  OBVIOUS
<1>2. CASE now >= t
  <2>1. /\ Since(more, t) = Since(values, t) \cup {Len(more)}
        /\ Len(more) \notin Since(values, t)
    BY <1>1, <1>2 DEF Since
  <2>2. Cardinality(Since(values, t) \cup {Len(more)}) = Cardinality(Since(values, t)) + 1
    BY <2>1, FiniteSince, FS_AddElement
  <2> QED  BY <1>1, <1>2, <2>1, <2>2
<1>3. CASE ~(now >= t)
  <2>1. Since(more, t) = Since(values, t)
    BY <1>1, <1>3 DEF Since
  <2> QED  BY <1>1, <1>3, <2>1
<1> QED  BY <1>2, <1>3

-----------------------------------------------------------------------------
(* values are kept of the admitted times: in order, none invented, and none  *)
(* missing that is no earlier than from.                                     *)

Follows(values, times, now) ==
    /\ values \in Seq(Nat) /\ times \in Seq(Nat) /\ now \in Nat
    /\ \A i, j \in 1 .. Len(values) : i <= j => values[i] <= values[j]
    /\ \A i \in 1 .. Len(values) : values[i] <= now
    /\ \A t \in Int : Cardinality(Since(values, t)) <= Cardinality(Since(times, t))

Covers(values, times, from) ==
    \A t \in Int : t >= from => Cardinality(Since(times, t)) <= Cardinality(Since(values, t))

\* Forgetting what is earlier than since.
LEMMA RecentKeeps ==
    ASSUME NEW values, NEW times, NEW now, Follows(values, times, now),
           NEW since \in Int, NEW kept, kept = Recent(values, since)
    PROVE  /\ Follows(kept, times, now)
           /\ Cardinality(Since(kept, since)) = Len(kept)
           /\ kept # <<>> => Since(times, since) # {}
           /\ values = <<>> => kept = <<>>
           /\ Len(kept) <= Len(values)
           /\ \A from \in Int : from >= since /\ Covers(values, times, from)
                                  => Covers(kept, times, from)
<1>0. /\ values \in Seq(Nat) /\ times \in Seq(Nat) /\ now \in Nat
      /\ \A i, j \in 1 .. Len(values) : i <= j => values[i] <= values[j]
      /\ \A i \in 1 .. Len(values) : values[i] <= now
      /\ Len(values) \in Nat
  BY DEF Follows
<1>1. PICK m \in 0 .. Len(values) :
         /\ kept = SubSeq(values, m + 1, Len(values))
         /\ \A j \in 1 .. m : values[j] < since
         /\ m < Len(values) => values[m + 1] >= since
  BY <1>0, RecentIsSuffix
<1>2. /\ kept \in Seq(Nat) /\ Len(kept) = Len(values) - m
      /\ \A i \in 1 .. Len(kept) : kept[i] = values[m + i]
  BY <1>0, <1>1
<1>3. ASSUME NEW t \in Int
      PROVE  /\ Cardinality(Since(kept, t)) \in Nat
             /\ Cardinality(Since(values, t)) \in Nat
             /\ Cardinality(Since(times, t)) \in Nat
             /\ Cardinality(Since(kept, t)) <= Cardinality(Since(values, t))
             /\ (\A j \in 1 .. m : values[j] < t) =>
                   Cardinality(Since(values, t)) <= Cardinality(Since(kept, t))
  <2>1. /\ Cardinality(Since(kept, t)) \in Nat
        /\ Cardinality(Since(values, t)) \in Nat
        /\ Cardinality(Since(times, t)) \in Nat
    BY <1>0, <1>2, FiniteSince
  <2>2. /\ Cardinality(Since(kept, t)) <= Cardinality(Since(values, t))
        /\ (\A j \in 1 .. m : values[j] < t) =>
              Cardinality(Since(values, t)) <= Cardinality(Since(kept, t))
    BY <1>0, <1>1, CountsOfSuffix
  <2> QED  BY <2>1, <2>2
<1>4. \A i \in 1 .. Len(kept) : kept[i] >= since /\ kept[i] <= now /\ kept[i] \in Nat
  <2> SUFFICES ASSUME NEW i \in 1 .. Len(kept)
               PROVE  kept[i] >= since /\ kept[i] <= now /\ kept[i] \in Nat
    OBVIOUS
  <2>1. m + 1 \in 1 .. Len(values) /\ m + i \in 1 .. Len(values) /\ m + 1 <= m + i
    BY <1>0, <1>1, <1>2
  <2>2. values[m + 1] \in Nat /\ values[m + i] \in Nat
    BY <1>0, <2>1
  <2>4. values[m + 1] <= values[m + i]
    BY <1>0, <2>1
  <2>3. values[m + 1] >= since /\ values[m + i] <= now /\ kept[i] = values[m + i]
    BY <1>0, <1>1, <1>2, <2>1
  <2> QED  BY <1>0, <2>2, <2>3, <2>4
<1>5. \A i, j \in 1 .. Len(kept) : i <= j => kept[i] <= kept[j]
  BY <1>0, <1>1, <1>2
<1>6. \A t \in Int : Cardinality(Since(kept, t)) <= Cardinality(Since(times, t))
  <2> SUFFICES ASSUME NEW t \in Int
               PROVE  Cardinality(Since(kept, t)) <= Cardinality(Since(times, t))
    OBVIOUS
  <2>1. Cardinality(Since(values, t)) <= Cardinality(Since(times, t))
    BY DEF Follows
  <2>2. /\ Cardinality(Since(kept, t)) \in Nat
        /\ Cardinality(Since(values, t)) \in Nat
        /\ Cardinality(Since(times, t)) \in Nat
        /\ Cardinality(Since(kept, t)) <= Cardinality(Since(values, t))
    BY <1>3
  <2> QED  BY <2>1, <2>2
<1>7. Follows(kept, times, now)
  BY <1>0, <1>2, <1>4, <1>5, <1>6 DEF Follows
<1>8. Cardinality(Since(kept, since)) = Len(kept)
  <2>1. Since(kept, since) = 1 .. Len(kept) /\ Len(kept) \in Nat
    BY <1>2, <1>4 DEF Since
  <2> QED  BY <2>1, FirstPositions
<1>9. kept # <<>> => Since(times, since) # {}
  <2> SUFFICES ASSUME kept # <<>>, Since(times, since) = {} PROVE FALSE
    OBVIOUS
  <2>1. Len(kept) \in Nat /\ Len(kept) # 0
    BY <1>2
  <2>2. Cardinality(Since(times, since)) = 0
    BY FS_EmptySet
  <2>3. Cardinality(Since(kept, since)) <= 0
    BY <1>6, <2>2
  <2> QED  BY <1>8, <2>1, <2>3
<1>10. ASSUME NEW from \in Int, from >= since, Covers(values, times, from)
       PROVE  Covers(kept, times, from)
  <2> SUFFICES ASSUME NEW t \in Int, t >= from
               PROVE  Cardinality(Since(times, t)) <= Cardinality(Since(kept, t))
    BY DEF Covers
  <2>1. Cardinality(Since(times, t)) <= Cardinality(Since(values, t))
    BY <1>10 DEF Covers
  <2>2. \A j \in 1 .. m : values[j] < t
    BY <1>0, <1>1, <1>10
  <2>3. /\ Cardinality(Since(kept, t)) \in Nat
        /\ Cardinality(Since(values, t)) \in Nat
        /\ Cardinality(Since(times, t)) \in Nat
        /\ Cardinality(Since(values, t)) <= Cardinality(Since(kept, t))
    BY <1>3, <2>2
  <2> QED  BY <2>1, <2>3
<1>11. values = <<>> => kept = <<>>
  BY <1>1, <1>2
<1>12. Len(kept) <= Len(values)
  BY <1>0, <1>2
<1> QED  BY <1>7, <1>8, <1>9, <1>10, <1>11, <1>12

\* An admission is noted in both.
LEMMA AdmissionNoted ==
    ASSUME NEW values, NEW times, NEW now, Follows(values, times, now),
           NEW kept, NEW all, kept = Append(values, now), all = Append(times, now)
    PROVE  /\ Follows(kept, all, now)
           /\ \A from \in Int : Covers(values, times, from) => Covers(kept, all, from)
<1>0. /\ values \in Seq(Nat) /\ times \in Seq(Nat) /\ now \in Nat
      /\ \A i, j \in 1 .. Len(values) : i <= j => values[i] <= values[j]
      /\ \A i \in 1 .. Len(values) : values[i] <= now
      /\ \A t \in Int : Cardinality(Since(values, t)) <= Cardinality(Since(times, t))
      /\ Len(values) \in Nat
  BY DEF Follows
<1>1. /\ kept \in Seq(Nat) /\ Len(kept) = Len(values) + 1
      /\ \A i \in 1 .. Len(values) : kept[i] = values[i]
      /\ kept[Len(kept)] = now /\ all \in Seq(Nat)
  BY <1>0
<1>2. ASSUME NEW t \in Int
      PROVE  \E a, b \in Nat :
                /\ a = Cardinality(Since(values, t)) /\ b = Cardinality(Since(times, t))
                /\ Cardinality(Since(kept, t)) = IF now >= t THEN a + 1 ELSE a
                /\ Cardinality(Since(all, t)) = IF now >= t THEN b + 1 ELSE b
  <2>0. values \in Seq(Nat) /\ times \in Seq(Nat) /\ now \in Nat
    BY <1>0
  <2>1. Cardinality(Since(values, t)) \in Nat /\ Cardinality(Since(times, t)) \in Nat
    BY <2>0, FiniteSince
  <2>2. /\ now >= t => Cardinality(Since(kept, t)) = Cardinality(Since(values, t)) + 1
        /\ ~(now >= t) => Cardinality(Since(kept, t)) = Cardinality(Since(values, t))
    BY <2>0, CountsOfAppend
  <2>3. /\ now >= t => Cardinality(Since(all, t)) = Cardinality(Since(times, t)) + 1
        /\ ~(now >= t) => Cardinality(Since(all, t)) = Cardinality(Since(times, t))
    BY <2>0, CountsOfAppend
  <2> QED  BY <2>1, <2>2, <2>3
<1>3. ASSUME NEW t \in Int
      PROVE  Cardinality(Since(kept, t)) <= Cardinality(Since(all, t))
  <2>1. PICK a, b \in Nat :
           /\ a = Cardinality(Since(values, t)) /\ b = Cardinality(Since(times, t))
           /\ Cardinality(Since(kept, t)) = IF now >= t THEN a + 1 ELSE a
           /\ Cardinality(Since(all, t)) = IF now >= t THEN b + 1 ELSE b
    BY <1>2
  <2>2. a <= b
    BY <1>0, <2>1
  <2> QED  BY <1>0, <2>1, <2>2
<1>4. /\ \A i \in 1 .. Len(kept) : kept[i] <= now
      /\ \A i, j \in 1 .. Len(kept) : i <= j => kept[i] <= kept[j]
  <2>1. ASSUME NEW i \in 1 .. Len(kept)
        PROVE  kept[i] <= now
    <3>1. CASE i = Len(kept)
      BY <1>0, <1>1, <3>1
    <3>2. CASE i # Len(kept)
      BY <1>0, <1>1, <3>2
    <3> QED  BY <3>1, <3>2
  <2>2. ASSUME NEW i \in 1 .. Len(kept), NEW j \in 1 .. Len(kept), i <= j
        PROVE  kept[i] <= kept[j]
    <3>1. CASE j = Len(kept)
      BY <1>1, <2>1, <3>1
    <3>2. CASE j # Len(kept)
      <4>1. i \in 1 .. Len(values) /\ j \in 1 .. Len(values)
        BY <1>0, <1>1, <2>2, <3>2
      <4> QED  BY <1>0, <1>1, <2>2, <4>1
    <3> QED  BY <3>1, <3>2
  <2> QED  BY <2>1, <2>2
<1>5. Follows(kept, all, now)
  BY <1>0, <1>1, <1>3, <1>4 DEF Follows
<1>6. ASSUME NEW from \in Int, Covers(values, times, from) PROVE Covers(kept, all, from)
  <2> SUFFICES ASSUME NEW t \in Int, t >= from
               PROVE  Cardinality(Since(all, t)) <= Cardinality(Since(kept, t))
    BY DEF Covers
  <2>1. PICK a, b \in Nat :
           /\ a = Cardinality(Since(values, t)) /\ b = Cardinality(Since(times, t))
           /\ Cardinality(Since(kept, t)) = IF now >= t THEN a + 1 ELSE a
           /\ Cardinality(Since(all, t)) = IF now >= t THEN b + 1 ELSE b
    BY <1>2
  <2>2. b <= a
    BY <1>6, <2>1 DEF Covers
  <2> QED  BY <1>0, <2>1, <2>2
<1> QED  BY <1>5, <1>6

\* Time passes.
LEMMA TimePasses ==
    ASSUME NEW values, NEW times, NEW now, Follows(values, times, now),
           NEW later \in Nat, later >= now
    PROVE  /\ Follows(values, times, later)
           /\ \A w \in Nat : Covers(values, times, now - w) => Covers(values, times, later - w)
<1>1. \A i \in 1 .. Len(values) : values[i] <= later
  BY DEF Follows
<1>2. Follows(values, times, later)
  BY <1>1 DEF Follows
<1>3. now \in Nat
  BY DEF Follows
<1>4. ASSUME NEW w \in Nat, Covers(values, times, now - w)
      PROVE  Covers(values, times, later - w)
  BY <1>3, <1>4 DEF Covers
<1> QED  BY <1>2, <1>4

\* While fewer than limit are kept, one more may be admitted: it shares any
\* window only with times that are kept.
LEMMA WindowHasRoom ==
    ASSUME NEW values, NEW times, NEW now, Follows(values, times, now),
           NEW limit \in Nat, Len(values) < limit,
           NEW w \in Nat, Covers(values, times, now - w), AtMostPer(times, limit, w)
    PROVE  AtMostPer(Append(times, now), limit, w)
<1> DEFINE n == Len(times) + 1
<1>0. /\ values \in Seq(Nat) /\ times \in Seq(Nat) /\ now \in Nat
      /\ Len(values) \in Nat /\ Len(times) \in Nat /\ n \in Nat
      /\ DOMAIN times = 1 .. Len(times)
  BY DEF Follows
<1>1. PICK all : all = Append(times, now)
  OBVIOUS
<1>2. /\ all \in Seq(Nat) /\ DOMAIN all = 1 .. n /\ all[n] = now
      /\ \A i \in 1 .. Len(times) : all[i] = times[i]
  BY <1>0, <1>1
<1> SUFFICES ASSUME NEW i \in 1 .. n
             PROVE  Cardinality({j \in 1 .. n : all[j] \in all[i] .. all[i] + w}) <= limit
  BY <1>1, <1>2 DEF AtMostPer
<1> DEFINE S == {j \in 1 .. n : all[j] \in all[i] .. all[i] + w}
<1>3. all[i] \in Nat
  BY <1>2
<1>4. CASE now \notin all[i] .. all[i] + w
  <2>1. i # n
    BY <1>0, <1>2, <1>3, <1>4
  <2>2. i \in 1 .. Len(times)
    BY <1>0, <2>1
  <2>3. all[i] = times[i] /\ n \notin S
    BY <1>2, <1>4, <2>2
  <2>4. \A j \in 1 .. n : j # n => j \in 1 .. Len(times) /\ all[j] = times[j]
    BY <1>0, <1>2
  <2>5. 1 .. Len(times) \subseteq 1 .. n
    BY <1>0
  <2>6. S = {j \in 1 .. Len(times) : times[j] \in times[i] .. times[i] + w}
    BY <1>2, <2>3, <2>4, <2>5
  <2> QED  BY <1>0, <2>2, <2>6 DEF AtMostPer
<1>5. CASE now \in all[i] .. all[i] + w
  <2>1. PICK a \in Int : a = all[i] /\ a >= now - w
    BY <1>0, <1>3, <1>5
  <2>2. S \subseteq Since(times, a) \cup {n}
    <3> SUFFICES ASSUME NEW j \in S, j # n PROVE j \in Since(times, a)
      OBVIOUS
    <3>1. j \in 1 .. Len(times)
      BY <1>0
    <3>2. all[j] = times[j] /\ times[j] \in Nat
      BY <1>0, <1>2, <3>1
    <3>3. all[j] \in a .. a + w
      BY <2>1
    <3>4. times[j] >= a
      BY <2>1, <3>2, <3>3
    <3> QED  BY <1>0, <3>1, <3>4 DEF Since
  <2>3. n \notin Since(times, a)
    BY <1>0 DEF Since
  <2>4. /\ IsFiniteSet(Since(times, a)) /\ Cardinality(Since(times, a)) \in Nat
        /\ Cardinality(Since(values, a)) \in Nat
        /\ Cardinality(Since(values, a)) <= Len(values)
    BY <1>0, FiniteSince
  <2>5. /\ IsFiniteSet(Since(times, a) \cup {n})
        /\ Cardinality(Since(times, a) \cup {n}) = Cardinality(Since(times, a)) + 1
    BY <2>3, <2>4, FS_AddElement
  <2>6. Cardinality(S) \in Nat /\ Cardinality(S) <= Cardinality(Since(times, a)) + 1
    <3>1. S \in SUBSET (1 .. n)
      OBVIOUS
    <3>2. Cardinality(S) <= Cardinality(Since(times, a) \cup {n})
      BY <2>2, <2>5, FS_Subset
    <3> QED  BY <1>0, <2>5, <3>1, <3>2, FinitePositions
  <2>7. Cardinality(Since(times, a)) <= Cardinality(Since(values, a))
    BY <2>1 DEF Covers
  <2> QED  BY <1>0, <2>4, <2>6, <2>7
<1> QED  BY <1>4, <1>5

-----------------------------------------------------------------------------
(* A window of a limiter at time now: what is kept covers it, and no window  *)
(* of this length has ever held more than limit.                             *)

Window(values, times, now, limit, w) ==
    /\ Follows(values, times, now)
    /\ Covers(values, times, now - w)
    /\ AtMostPer(times, limit, w)

LEMMA WindowOpens ==
    ASSUME NEW limit \in Nat, NEW w \in Nat
    PROVE  Window(<<>>, <<>>, 0, limit, w)
<1>1. PICK none : none = <<>>
  OBVIOUS
<1>2. none \in Seq(Nat) /\ Len(none) = 0 /\ DOMAIN none = {}
  BY <1>1
<1>3. \A t \in Int : Cardinality(Since(none, t)) <= Cardinality(Since(none, t))
  <2> SUFFICES ASSUME NEW t \in Int
               PROVE  Cardinality(Since(none, t)) <= Cardinality(Since(none, t))
    OBVIOUS
  <2>1. Since(none, t) = {}
    BY <1>2 DEF Since
  <2>2. Cardinality(Since(none, t)) = 0
    BY <2>1, FS_EmptySet
  <2> QED  BY <2>2
<1>4. Follows(none, none, 0)
  BY <1>2, <1>3 DEF Follows
<1>5. Covers(none, none, 0 - w)
  BY <1>3 DEF Covers
<1>6. AtMostPer(none, limit, w)
  BY <1>2 DEF AtMostPer
<1> QED  BY <1>1, <1>4, <1>5, <1>6 DEF Window

LEMMA WindowWaits ==
    ASSUME NEW values, NEW times, NEW now, NEW limit \in Nat, NEW w \in Nat,
           Window(values, times, now, limit, w), NEW later \in Nat, later >= now
    PROVE  Window(values, times, later, limit, w)
BY TimePasses DEF Window

\* Forgetting leaves what lies within the window.
LEMMA WindowForgets ==
    ASSUME NEW values, NEW times, NEW now, NEW limit \in Nat, NEW w \in Nat,
           Window(values, times, now, limit, w), NEW since \in Int, since <= now - w
    PROVE  Window(Recent(values, since), times, now, limit, w)
<1>1. now \in Nat
  BY DEF Window, Follows
<1>2. PICK kept : kept = Recent(values, since)
  OBVIOUS
<1>3. PICK from \in Int : from = now - w /\ from >= since
  BY <1>1
<1>4. Follows(kept, times, now) /\ Covers(kept, times, from)
  BY <1>2, <1>3, RecentKeeps DEF Window
<1> QED  BY <1>2, <1>3, <1>4 DEF Window

LEMMA WindowAdmits ==
    ASSUME NEW values, NEW times, NEW now, NEW limit \in Nat, NEW w \in Nat,
           Window(values, times, now, limit, w), Len(values) < limit
    PROVE  Window(Append(values, now), Append(times, now), now, limit, w)
<1>1. now \in Nat
  BY DEF Window, Follows
<1>2. PICK kept, all : kept = Append(values, now) /\ all = Append(times, now)
  OBVIOUS
<1>3. PICK from \in Int : from = now - w
  BY <1>1
<1>4. Follows(kept, all, now) /\ Covers(kept, all, from)
  BY <1>2, <1>3, AdmissionNoted DEF Window
<1>5. AtMostPer(all, limit, w)
  BY <1>2, WindowHasRoom DEF Window
<1> QED  BY <1>2, <1>3, <1>4, <1>5 DEF Window

-----------------------------------------------------------------------------
(* Bytes of the uploads that an owner holds.                                *)

Upload == [id : Nat, size : Nat]
Block(h) == {h} \X (1 .. h.size)
Blocks(held) == UNION {Block(h) : h \in held}

LEMMA OneBlock ==
    ASSUME NEW h \in Upload
    PROVE  IsFiniteSet(Block(h)) /\ Cardinality(Block(h)) = h.size
<1>1. PICK n \in Nat : n = h.size
  BY DEF Upload
<1>2. IsFiniteSet(1 .. n) /\ Cardinality(1 .. n) = n
  BY FirstPositions
<1>3. IsFiniteSet({h}) /\ Cardinality({h}) = 1
  BY FS_Singleton
<1>4. PICK S : S = 1 .. n
  OBVIOUS
<1>5. IsFiniteSet({h} \X S) /\ Cardinality({h} \X S) = Cardinality({h}) * Cardinality(S)
  BY <1>2, <1>3, <1>4, FS_Product
<1>6. 1 * n = n
  OBVIOUS
<1> QED  BY <1>1, <1>2, <1>3, <1>4, <1>5, <1>6 DEF Block

\* One upload more holds its bytes more.
LEMMA OneMoreUpload ==
    ASSUME NEW held \in SUBSET Upload, IsFiniteSet(Blocks(held)),
           NEW h \in Upload, h \notin held
    PROVE  /\ IsFiniteSet(Blocks(held \cup {h}))
           /\ HeldBytes(held) \in Nat
           /\ HeldBytes(held \cup {h}) = HeldBytes(held) + h.size
<1>1. Blocks(held \cup {h}) = Blocks(held) \cup Block(h)
  BY DEF Blocks
<1>2. Blocks(held) \cap Block(h) = {}
  BY DEF Blocks, Block
<1>3. /\ IsFiniteSet(Block(h)) /\ Cardinality(Block(h)) = h.size
      /\ h.size \in Nat
  BY OneBlock DEF Upload
<1>4. /\ IsFiniteSet(Blocks(held) \cup Block(h))
      /\ Cardinality(Blocks(held) \cup Block(h)) =
            Cardinality(Blocks(held)) + Cardinality(Block(h))
               - Cardinality(Blocks(held) \cap Block(h))
  BY <1>3, FS_Union
<1>5. Cardinality(Blocks(held) \cap Block(h)) = 0
  BY <1>2, FS_EmptySet
<1>6. /\ HeldBytes(held) = Cardinality(Blocks(held))
      /\ HeldBytes(held \cup {h}) = Cardinality(Blocks(held \cup {h}))
  BY DEF HeldBytes, Blocks, Block
<1>7. PICK n, k \in Nat : n = Cardinality(Blocks(held)) /\ k = h.size
  BY <1>3, FS_CardinalityType
<1>8. Cardinality(Blocks(held \cup {h})) = n + k - 0
  BY <1>1, <1>3, <1>4, <1>5, <1>7
<1>9. n + k - 0 = n + k
  OBVIOUS
<1> QED  BY <1>1, <1>4, <1>6, <1>7, <1>8, <1>9

\* One upload less, its bytes less.
LEMMA OneUploadLess ==
    ASSUME NEW held \in SUBSET Upload, IsFiniteSet(Blocks(held)), NEW h \in held
    PROVE  /\ IsFiniteSet(Blocks(held \ {h}))
           /\ HeldBytes(held) = HeldBytes(held \ {h}) + h.size
           /\ HeldBytes(held \ {h}) \in Nat
<1>1. PICK less : less = held \ {h}
  OBVIOUS
<1>2. less \in SUBSET Upload /\ h \in Upload /\ h \notin less /\ less \cup {h} = held
  BY <1>1
<1>3. Blocks(less) \subseteq Blocks(held)
  BY <1>1 DEF Blocks
<1>4. IsFiniteSet(Blocks(less))
  BY <1>3, FS_Subset
<1>5. HeldBytes(less) \in Nat /\ HeldBytes(held) = HeldBytes(less) + h.size
  BY <1>2, <1>4, OneMoreUpload
<1> QED  BY <1>1, <1>4, <1>5

-----------------------------------------------------------------------------
(* The admission controller.                                                *)

Owner ==
    [bytes : Nat, documents : Nat, uploads : Seq(Nat), answers : Seq(Nat), active : Nat,
     now : Nat, held : SUBSET Upload, running : Nat, uploaded : Seq(Nat), answered : Seq(Nat)]

\* What a call needs to find: the controller's numbers are those of what is held
\* and under way, its times cover its windows, and no id is used twice.
Admitting(u) ==
    /\ u \in Owner
    /\ Window(u.uploads, u.uploaded, u.now, MaxUploads, UploadWindow)
    /\ Window(u.answers, u.answered, u.now, MaxAnswers, AnswerWindow)
    /\ \A h \in u.held : h.id <= Len(u.uploaded)
    /\ IsFiniteSet(u.held)
    /\ u.documents = Cardinality(u.held) /\ u.documents <= MaxOwnerDocuments
    /\ IsFiniteSet(Blocks(u.held))
    /\ u.bytes = HeldBytes(u.held) /\ u.bytes <= MaxOwnerStorage
    /\ u.active = u.running /\ u.active <= MaxActive

LEMMA RateNumbers ==
    /\ MaxOwnerStorage \in Nat /\ MaxOwnerDocuments \in Nat
    /\ MaxActive \in Nat /\ MaxEntries \in Nat
    /\ MaxUploads \in Nat /\ UploadWindow \in Nat
    /\ MaxAnswers \in Nat /\ AnswerWindow \in Nat
    /\ \A k \in AuthKeys : AuthLimit[k] \in Nat /\ AuthWindow[k] \in Nat
BY RatesAssumption

LEMMA NewOwnerAdmits == Admitting(NewOwner)
<1>1. <<>> \in Seq(Nat)
  OBVIOUS
<1>2. NewOwner \in Owner
  BY <1>1 DEF NewOwner, Owner
<1>3. /\ Window(NewOwner.uploads, NewOwner.uploaded, NewOwner.now, MaxUploads, UploadWindow)
      /\ Window(NewOwner.answers, NewOwner.answered, NewOwner.now, MaxAnswers, AnswerWindow)
  BY RateNumbers, WindowOpens DEF NewOwner
<1>4. Blocks({}) = {} /\ HeldBytes({}) = Cardinality(Blocks({}))
  BY DEF Blocks, HeldBytes, Block
<1>5. IsFiniteSet({}) /\ Cardinality({}) = 0 /\ IsFiniteSet(Blocks({})) /\ HeldBytes({}) = 0
  BY <1>4, FS_EmptySet
<1>6. /\ NewOwner.held = {} /\ NewOwner.documents = 0 /\ NewOwner.bytes = 0
      /\ NewOwner.active = 0 /\ NewOwner.running = 0
  BY DEF NewOwner
<1> QED  BY <1>2, <1>3, <1>5, <1>6, RateNumbers DEF Admitting

\* Time passes before a call.
LEMMA OwnerWaits ==
    ASSUME NEW u, Admitting(u), NEW gap \in Nat, NEW v, v = [u EXCEPT !.now = @ + gap]
    PROVE  Admitting(v)
<1>1. u \in Owner
  BY DEF Admitting
<1>2. PICK later \in Nat : later = u.now + gap /\ later >= u.now
  BY <1>1 DEF Owner
<1>3. /\ v \in Owner /\ v.now = later
      /\ v.uploads = u.uploads /\ v.uploaded = u.uploaded
      /\ v.answers = u.answers /\ v.answered = u.answered /\ v.held = u.held
      /\ v.documents = u.documents /\ v.bytes = u.bytes
      /\ v.active = u.active /\ v.running = u.running
  BY <1>1, <1>2 DEF Owner
<1>4. /\ Window(v.uploads, v.uploaded, v.now, MaxUploads, UploadWindow)
      /\ Window(v.answers, v.answered, v.now, MaxAnswers, AnswerWindow)
  BY <1>2, <1>3, RateNumbers, WindowWaits DEF Admitting
<1> QED  BY <1>3, <1>4 DEF Admitting

LEMMA UploadAdmitted ==
    ASSUME NEW u, Admitting(u), NEW size \in Nat
    PROVE  Admitting(ReserveUpload(u, size))
<1>1. u \in Owner
  BY DEF Admitting
<1>2. PICK since \in Int : since = u.now - UploadWindow
  BY <1>1, RateNumbers DEF Owner
<1>3. PICK uploads : uploads = Recent(u.uploads, since)
  OBVIOUS
<1>4. since <= u.now - UploadWindow
  BY <1>2
<1>5. Window(uploads, u.uploaded, u.now, MaxUploads, UploadWindow)
  BY <1>2, <1>3, <1>4, RateNumbers, WindowForgets DEF Admitting
<1>6. uploads \in Seq(Nat) /\ u.uploaded \in Seq(Nat) /\ u.now \in Nat
  BY <1>5 DEF Window, Follows
<1>7. PICK v : v = ReserveUpload(u, size)
  OBVIOUS
<1>8. CASE \/ u.bytes + size > MaxOwnerStorage
           \/ u.documents >= MaxOwnerDocuments
           \/ Len(uploads) >= MaxUploads
  <2>1. v = [u EXCEPT !.uploads = uploads]
    BY <1>2, <1>3, <1>7, <1>8 DEF ReserveUpload
  <2>2. /\ v \in Owner /\ v.now = u.now /\ v.uploads = uploads /\ v.uploaded = u.uploaded
        /\ v.answers = u.answers /\ v.answered = u.answered /\ v.held = u.held
        /\ v.documents = u.documents /\ v.bytes = u.bytes
        /\ v.active = u.active /\ v.running = u.running
    BY <1>1, <1>6, <2>1 DEF Owner
  <2> QED  BY <1>5, <1>7, <2>2 DEF Admitting
<1>9. CASE ~(\/ u.bytes + size > MaxOwnerStorage
             \/ u.documents >= MaxOwnerDocuments
             \/ Len(uploads) >= MaxUploads)
  <2>1. PICK h : h = [id |-> Len(u.uploaded) + 1, size |-> size]
    OBVIOUS
  <2>2. h \in Upload /\ h.id = Len(u.uploaded) + 1 /\ h.size = size
    BY <1>6, <2>1 DEF Upload
  <2>3. PICK kept, all : kept = Append(uploads, u.now) /\ all = Append(u.uploaded, u.now)
    OBVIOUS
  <2>4. kept \in Seq(Nat) /\ all \in Seq(Nat) /\ Len(all) = Len(u.uploaded) + 1
    BY <1>6, <2>3
  <2>5. PICK n, k \in Nat : n = u.documents + 1 /\ k = u.bytes + size
    <3>1. u.documents \in Nat /\ u.bytes \in Nat
      BY <1>1 DEF Owner
    <3> QED  BY <3>1
  <2>6. v = [u EXCEPT !.bytes = k, !.documents = n, !.uploads = kept,
                      !.uploaded = all, !.held = @ \cup {h}]
    BY <1>1, <1>2, <1>3, <1>7, <1>9, <2>1, <2>3, <2>5 DEF ReserveUpload, Owner
  <2>7. /\ v \in Owner /\ v.now = u.now /\ v.uploads = kept /\ v.uploaded = all
        /\ v.answers = u.answers /\ v.answered = u.answered /\ v.held = u.held \cup {h}
        /\ v.documents = n /\ v.bytes = k
        /\ v.active = u.active /\ v.running = u.running
    BY <1>1, <2>2, <2>4, <2>6 DEF Owner
  <2>8. /\ Len(uploads) \in Nat /\ Len(uploads) < MaxUploads
        /\ v.bytes <= MaxOwnerStorage /\ v.documents <= MaxOwnerDocuments
    <3>1. Len(uploads) \in Nat /\ u.bytes \in Nat /\ u.documents \in Nat
      BY <1>1, <1>6 DEF Owner
    <3>2. /\ ~(u.bytes + size > MaxOwnerStorage) /\ ~(u.documents >= MaxOwnerDocuments)
          /\ ~(Len(uploads) >= MaxUploads)
      BY <1>9
    <3>3. k <= MaxOwnerStorage /\ n <= MaxOwnerDocuments
      BY <2>5, <3>1, <3>2, RateNumbers
    <3> QED  BY <2>7, <3>1, <3>2, <3>3, RateNumbers
  <2>9. Window(v.uploads, v.uploaded, v.now, MaxUploads, UploadWindow)
    BY <1>5, <2>3, <2>7, <2>8, RateNumbers, WindowAdmits
  <2>10. h \notin u.held /\ \A g \in v.held : g.id <= Len(v.uploaded)
    <3>1. \A g \in u.held : g.id \in Nat /\ g.id <= Len(u.uploaded)
      BY <1>1 DEF Admitting, Owner, Upload
    <3>2. Len(u.uploaded) \in Nat
      BY <1>6
    <3>3. h \notin u.held
      BY <2>2, <3>1, <3>2
    <3>4. \A g \in v.held : g.id <= Len(v.uploaded)
      BY <2>2, <2>4, <2>7, <3>1, <3>2
    <3> QED  BY <3>3, <3>4
  <2>11. IsFiniteSet(v.held) /\ v.documents = Cardinality(v.held)
    <3>1. /\ IsFiniteSet(u.held \cup {h})
          /\ Cardinality(u.held \cup {h}) = Cardinality(u.held) + 1
      BY <2>10, FS_AddElement DEF Admitting
    <3>2. u.documents = Cardinality(u.held)
      BY DEF Admitting
    <3> QED  BY <2>5, <2>7, <3>1, <3>2
  <2>12. IsFiniteSet(Blocks(v.held)) /\ v.bytes = HeldBytes(v.held)
    <3>1. u.held \in SUBSET Upload
      BY <1>1 DEF Owner
    <3>2. IsFiniteSet(Blocks(u.held)) /\ u.bytes = HeldBytes(u.held)
      BY DEF Admitting
    <3>3. /\ IsFiniteSet(Blocks(u.held \cup {h}))
          /\ HeldBytes(u.held \cup {h}) = HeldBytes(u.held) + h.size
      BY <2>2, <2>10, <3>1, <3>2, OneMoreUpload
    <3> QED  BY <2>2, <2>5, <2>7, <3>2, <3>3
  <2> QED  BY <1>7, <2>7, <2>8, <2>9, <2>10, <2>11, <2>12 DEF Admitting
<1> QED  BY <1>8, <1>9

LEMMA UploadReleased ==
    ASSUME NEW u, Admitting(u), NEW h \in u.held
    PROVE  Admitting(ReleaseUpload(u, h))
<1>1. u \in Owner /\ h \in Upload
  BY DEF Admitting, Owner
<1>2. PICK v : v = ReleaseUpload(u, h)
  OBVIOUS
<1>3. /\ IsFiniteSet(u.held \ {h}) /\ Cardinality(u.held) \in Nat
      /\ Cardinality(u.held \ {h}) = Cardinality(u.held) - 1
      /\ Cardinality(u.held \ {h}) \in Nat
  BY FS_RemoveElement, FS_CardinalityType DEF Admitting
<1>4. /\ IsFiniteSet(Blocks(u.held \ {h}))
      /\ HeldBytes(u.held) = HeldBytes(u.held \ {h}) + h.size
      /\ HeldBytes(u.held \ {h}) \in Nat
  BY <1>1, OneUploadLess DEF Admitting, Owner
<1>5. /\ u.documents - 1 = Cardinality(u.held \ {h}) /\ u.documents - 1 \in Nat
      /\ u.documents - 1 <= MaxOwnerDocuments
  BY <1>1, <1>3, RateNumbers DEF Admitting, Owner
<1>6. /\ u.bytes - h.size = HeldBytes(u.held \ {h}) /\ u.bytes - h.size \in Nat
      /\ u.bytes - h.size <= MaxOwnerStorage
  <2>1. PICK n, k \in Nat : n = HeldBytes(u.held \ {h}) /\ k = h.size
    BY <1>1, <1>4 DEF Upload
  <2>2. u.bytes = n + k /\ u.bytes <= MaxOwnerStorage
    BY <1>4, <2>1 DEF Admitting
  <2> QED  BY <2>1, <2>2, RateNumbers
<1>7. v = [u EXCEPT !.bytes = @ - h.size, !.documents = @ - 1, !.held = @ \ {h}]
  BY <1>2 DEF ReleaseUpload
<1>8. /\ v \in Owner /\ v.now = u.now /\ v.uploads = u.uploads /\ v.uploaded = u.uploaded
      /\ v.answers = u.answers /\ v.answered = u.answered /\ v.held = u.held \ {h}
      /\ v.documents = u.documents - 1 /\ v.bytes = u.bytes - h.size
      /\ v.active = u.active /\ v.running = u.running
  BY <1>1, <1>5, <1>6, <1>7 DEF Owner
<1> QED  BY <1>2, <1>3, <1>4, <1>5, <1>6, <1>8 DEF Admitting

LEMMA AnswerBegun ==
    ASSUME NEW u, Admitting(u)
    PROVE  Admitting(BeginAnswer(u))
<1>1. u \in Owner
  BY DEF Admitting
<1>2. PICK since \in Int : since = u.now - AnswerWindow
  BY <1>1, RateNumbers DEF Owner
<1>3. PICK answers : answers = Recent(u.answers, since)
  OBVIOUS
<1>4. since <= u.now - AnswerWindow
  BY <1>2
<1>5. Window(answers, u.answered, u.now, MaxAnswers, AnswerWindow)
  BY <1>2, <1>3, <1>4, RateNumbers, WindowForgets DEF Admitting
<1>6. answers \in Seq(Nat) /\ u.answered \in Seq(Nat) /\ u.now \in Nat
  BY <1>5 DEF Window, Follows
<1>7. PICK v : v = BeginAnswer(u)
  OBVIOUS
<1>8. CASE u.active >= MaxActive \/ Len(answers) >= MaxAnswers
  <2>1. v = [u EXCEPT !.answers = answers]
    BY <1>2, <1>3, <1>7, <1>8 DEF BeginAnswer
  <2>2. /\ v \in Owner /\ v.now = u.now /\ v.uploads = u.uploads /\ v.uploaded = u.uploaded
        /\ v.answers = answers /\ v.answered = u.answered /\ v.held = u.held
        /\ v.documents = u.documents /\ v.bytes = u.bytes
        /\ v.active = u.active /\ v.running = u.running
    BY <1>1, <1>6, <2>1 DEF Owner
  <2> QED  BY <1>5, <1>7, <2>2 DEF Admitting
<1>9. CASE ~(u.active >= MaxActive \/ Len(answers) >= MaxAnswers)
  <2>1. PICK kept, all : kept = Append(answers, u.now) /\ all = Append(u.answered, u.now)
    OBVIOUS
  <2>2. kept \in Seq(Nat) /\ all \in Seq(Nat)
    BY <1>6, <2>1
  <2>3. PICK n, k \in Nat : n = u.active + 1 /\ k = u.running + 1
    BY <1>1 DEF Owner
  <2>8. v = [u EXCEPT !.active = n, !.answers = kept, !.running = k, !.answered = all]
    BY <1>1, <1>2, <1>3, <1>7, <1>9, <2>1, <2>3 DEF BeginAnswer, Owner
  <2>4. /\ v \in Owner /\ v.now = u.now /\ v.uploads = u.uploads /\ v.uploaded = u.uploaded
        /\ v.answers = kept /\ v.answered = all /\ v.held = u.held
        /\ v.documents = u.documents /\ v.bytes = u.bytes
        /\ v.active = n /\ v.running = k
    BY <1>1, <2>2, <2>8 DEF Owner
  <2>5. Len(answers) < MaxAnswers /\ u.active + 1 <= MaxActive
    BY <1>1, <1>6, <1>9, RateNumbers DEF Owner
  <2>6. Window(v.answers, v.answered, v.now, MaxAnswers, AnswerWindow)
    BY <1>5, <2>1, <2>4, <2>5, RateNumbers, WindowAdmits
  <2>7. v.active = v.running /\ v.active <= MaxActive
    BY <2>3, <2>4, <2>5 DEF Admitting
  <2> QED  BY <1>7, <2>4, <2>6, <2>7 DEF Admitting
<1> QED  BY <1>8, <1>9

LEMMA AnswerEnded ==
    ASSUME NEW u, Admitting(u), u.running > 0
    PROVE  Admitting(EndAnswer(u))
<1>1. u \in Owner /\ u.active = u.running /\ u.active <= MaxActive
  BY DEF Admitting
<1>2. PICK v : v = EndAnswer(u)
  OBVIOUS
<1>3. v = [u EXCEPT !.active = @ - 1, !.running = @ - 1]
  BY <1>1, <1>2 DEF EndAnswer, Owner
<1>4. u.active - 1 \in Nat /\ u.running - 1 \in Nat /\ u.active - 1 <= MaxActive
  BY <1>1, RateNumbers DEF Owner
<1>5. /\ v \in Owner /\ v.now = u.now /\ v.uploads = u.uploads /\ v.uploaded = u.uploaded
      /\ v.answers = u.answers /\ v.answered = u.answered /\ v.held = u.held
      /\ v.documents = u.documents /\ v.bytes = u.bytes
      /\ v.active = u.active - 1 /\ v.running = u.running - 1
  BY <1>1, <1>3, <1>4 DEF Owner
<1> QED  BY <1>1, <1>2, <1>4, <1>5 DEF Admitting

\* Whatever is called, and whenever.
LEMMA AdmissionCallKeeps ==
    ASSUME NEW u, Admitting(u), NEW call \in Admissions, NEW next,
           AdmissionCall(u, call, next)
    PROVE  Admitting(next)
<1>1. call.size \in Nat /\ call.gap \in Nat
  BY CallsAssumption
<1>2. PICK v : v = [u EXCEPT !.now = @ + call.gap]
  OBVIOUS
<1>3. Admitting(v)
  BY <1>1, <1>2, OwnerWaits
<1>4. \/ next = ReserveUpload(v, call.size)
      \/ \E h \in v.held : next = ReleaseUpload(v, h)
      \/ next = BeginAnswer(v)
      \/ v.running > 0 /\ next = EndAnswer(v)
  BY <1>2 DEF AdmissionCall
<1> QED  BY <1>1, <1>3, <1>4, UploadAdmitted, UploadReleased, AnswerBegun, AnswerEnded

\* The admission controller keeps every owner within the limits: for any of them,
\* any calls and any times.
THEOREM AdmissionsBounded == Spec => []AdmissionKeepsLimits
<1> DEFINE Inv == algorithm = "admit" => Admitting(output)
<1>1. Init => Inv
  BY DEF Init
<1>2. Inv /\ [Next]_vars => Inv'
  <2> SUFFICES ASSUME Inv, [Next]_vars PROVE Inv'
    OBVIOUS
  <2>1. CASE UNCHANGED vars
    BY <2>1 DEF vars
  <2>2. CASE algorithm \in {"none", "admit"} /\ Admit
    <3>1. PICK call \in Admissions :
             AdmissionCall(IF algorithm = "none" THEN NewOwner ELSE output, call, output')
      BY <2>2 DEF Admit
    <3>2. Admitting(IF algorithm = "none" THEN NewOwner ELSE output)
      BY <2>2, NewOwnerAdmits
    <3>3. Admitting(output')
      BY <3>1, <3>2, AdmissionCallKeeps
    <3> QED  BY <3>3
  <2>3. CASE Chunk \/ Run \/ Receive \/ BackOff \/ ListPage \/ ServeRange \/ Attempt
    BY <2>3 DEF Chunk, Run, Receive, BackOff, ListPage, ServeRange, Attempt, Apply
  <2>4. CASE /\ algorithm \in {"run", "receive"}
             /\ NextEvent \/ EndOfStream
    BY <2>4 DEF NextEvent, EndOfStream, Apply
  <2>5. CASE algorithm = "chunk" /\ GoOnCutting
    BY <2>5 DEF GoOnCutting
  <2> QED  BY <2>1, <2>2, <2>3, <2>4, <2>5 DEF Next
<1>3. Inv => AdmissionKeepsLimits
  <2> SUFFICES ASSUME Admitting(output) PROVE AdmissionKeepsLimits
    BY DEF AdmissionKeepsLimits
  <2>1. output.active \in 0 .. MaxActive
    BY RateNumbers DEF Admitting, Owner
  <2> QED  BY <2>1 DEF Admitting, Window, AdmissionKeepsLimits
<1> QED  BY <1>1, <1>2, <1>3, PTL DEF Spec

-----------------------------------------------------------------------------
(* The limiter of attempts.                                                 *)

\* Nothing is forgotten that lies within a window as short as every one that has
\* been asked with, and the table is bounded.
Limiting(l, calls) ==
    /\ l.now \in Nat
    /\ l.attempts \in [AuthKeys -> Seq(Nat)] /\ l.admitted \in [AuthKeys -> Seq(Nat)]
    /\ \A k \in AuthKeys : Follows(l.attempts[k], l.admitted[k], l.now)
    /\ \A k \in AuthKeys : \A w \in 0 .. AuthWindow[k] :
          (\A i \in DOMAIN calls : w <= AuthWindow[calls[i].key])
             => Window(l.attempts[k], l.admitted[k], l.now, AuthLimit[k], w)
    /\ Cardinality(Names(l.attempts)) <= MaxEntries

\* An attempt was refused only at a limit.
Refusing(l) ==
    ~l.verdict.allowed =>
        LET key == l.verdict.key
            recent(k) == Since(l.admitted[k], l.now - AuthWindow[key])
        IN  \/ Cardinality(recent(key)) >= AuthLimit[key]
            \/ Cardinality({k \in AuthKeys : recent(k) # {}}) >= MaxEntries

LEMMA FiniteNames ==
    ASSUME NEW attempts
    PROVE  IsFiniteSet(Names(attempts)) /\ Cardinality(Names(attempts)) \in Nat
<1>1. Names(attempts) \in SUBSET AuthKeys /\ IsFiniteSet(AuthKeys)
  BY RatesAssumption DEF Names
<1> QED  BY <1>1, FS_Subset, FS_CardinalityType

LEMMA NewLimiterLimits == Limiting(NewLimiter, <<>>) /\ Refusing(NewLimiter)
<1>1. PICK none : none = <<>>
  OBVIOUS
<1>2. none \in Seq(Nat)
  BY <1>1
<1>3. /\ NewLimiter.now = 0 /\ NewLimiter.verdict.allowed = TRUE
      /\ NewLimiter.attempts = [k \in AuthKeys |-> none]
      /\ NewLimiter.admitted = [k \in AuthKeys |-> none]
  BY <1>1 DEF NewLimiter
<1>4. \A w \in Nat : \A limit \in Nat : Window(none, none, 0, limit, w)
  BY <1>1, WindowOpens
<1>5. Follows(none, none, 0)
  BY <1>4 DEF Window
<1>6. Names(NewLimiter.attempts) = {}
  BY <1>1, <1>3 DEF Names
<1>7. Cardinality(Names(NewLimiter.attempts)) <= MaxEntries
  BY <1>6, FS_EmptySet, RateNumbers
<1>8. \A k \in AuthKeys : \A w \in 0 .. AuthWindow[k] :
         Window(NewLimiter.attempts[k], NewLimiter.admitted[k], NewLimiter.now, AuthLimit[k], w)
  BY <1>3, <1>4, RateNumbers
<1>9. \A k \in AuthKeys :
         Follows(NewLimiter.attempts[k], NewLimiter.admitted[k], NewLimiter.now)
  BY <1>3, <1>5
<1>10. /\ NewLimiter.now \in Nat /\ NewLimiter.attempts \in [AuthKeys -> Seq(Nat)]
       /\ NewLimiter.admitted \in [AuthKeys -> Seq(Nat)]
  BY <1>2, <1>3
<1>11. Limiting(NewLimiter, <<>>)
  BY <1>7, <1>8, <1>9, <1>10 DEF Limiting
<1>12. Refusing(NewLimiter)
  BY <1>3 DEF Refusing
<1> QED  BY <1>11, <1>12

\* The time is now, and all names have been pruned.
LEMMA Pruned ==
    ASSUME NEW l, NEW calls \in Seq(Logins), Limiting(l, calls), NEW call \in Logins,
           NEW now, now = l.now + call.gap,
           NEW since, since = now - AuthWindow[call.key],
           NEW pruned, pruned = [k \in AuthKeys |-> Recent(l.attempts[k], since)]
    PROVE  /\ now \in Nat /\ since \in Int /\ call.key \in AuthKeys
           /\ pruned \in [AuthKeys -> Seq(Nat)]
           /\ \A k \in AuthKeys : Follows(pruned[k], l.admitted[k], now)
           /\ \A k \in AuthKeys : \A w \in 0 .. AuthWindow[k] :
                 (\A i \in DOMAIN Append(calls, call) : w <= AuthWindow[Append(calls, call)[i].key])
                    => Window(pruned[k], l.admitted[k], now, AuthLimit[k], w)
           /\ Cardinality(Names(pruned)) <= MaxEntries
           /\ \A k \in Names(pruned) : Since(l.admitted[k], since) # {}
           /\ \A k \in AuthKeys : Len(pruned[k]) \in Nat
                 /\ Len(pruned[k]) <= Cardinality(Since(l.admitted[k], since))
<1>1. call.key \in AuthKeys /\ call.gap \in Nat
  BY CallsAssumption
<1>2. l.now \in Nat /\ now \in Nat /\ now >= l.now /\ since \in Int
  <2>1. l.now \in Nat /\ AuthWindow[call.key] \in Nat
    BY <1>1, RateNumbers DEF Limiting
  <2> QED  BY <1>1, <2>1
<1>3. ASSUME NEW k \in AuthKeys
      PROVE  /\ Follows(pruned[k], l.admitted[k], now)
             /\ Cardinality(Since(pruned[k], since)) = Len(pruned[k])
             /\ pruned[k] # <<>> => Since(l.admitted[k], since) # {}
             /\ l.attempts[k] = <<>> => pruned[k] = <<>>
  <2>1. Follows(l.attempts[k], l.admitted[k], l.now)
    BY DEF Limiting
  <2>2. Follows(l.attempts[k], l.admitted[k], now)
    BY <1>2, <2>1, TimePasses
  <2>3. pruned[k] = Recent(l.attempts[k], since)
    OBVIOUS
  <2> QED  BY <1>2, <2>2, <2>3, RecentKeeps
<1>4. ASSUME NEW k \in AuthKeys, NEW w \in 0 .. AuthWindow[k],
             \A i \in DOMAIN Append(calls, call) : w <= AuthWindow[Append(calls, call)[i].key]
      PROVE  Window(pruned[k], l.admitted[k], now, AuthLimit[k], w)
  <2>1. w \in Nat /\ AuthLimit[k] \in Nat /\ AuthWindow[call.key] \in Nat
    BY <1>1, RateNumbers
  <2>2. /\ \A i \in DOMAIN calls : w <= AuthWindow[calls[i].key]
        /\ w <= AuthWindow[call.key]
    <3>1. /\ DOMAIN Append(calls, call) = 1 .. Len(calls) + 1 /\ Len(calls) \in Nat
          /\ DOMAIN calls = 1 .. Len(calls)
          /\ \A i \in 1 .. Len(calls) : Append(calls, call)[i] = calls[i]
          /\ Append(calls, call)[Len(calls) + 1] = call
      OBVIOUS
    <3> QED  BY <1>4, <3>1
  <2>3. Window(l.attempts[k], l.admitted[k], l.now, AuthLimit[k], w)
    BY <2>2 DEF Limiting
  <2>4. Window(l.attempts[k], l.admitted[k], now, AuthLimit[k], w)
    BY <1>2, <2>1, <2>3, WindowWaits
  <2>5. since <= now - w
    BY <1>2, <2>1, <2>2
  <2>6. pruned[k] = Recent(l.attempts[k], since)
    OBVIOUS
  <2> QED  BY <1>2, <2>1, <2>4, <2>5, <2>6, WindowForgets
<1>5. pruned \in [AuthKeys -> Seq(Nat)]
  BY <1>3 DEF Follows
<1>6. Cardinality(Names(pruned)) <= MaxEntries
  <2>1. Names(pruned) \subseteq Names(l.attempts)
    BY <1>3 DEF Names
  <2>2. Cardinality(Names(pruned)) <= Cardinality(Names(l.attempts))
    BY <2>1, FiniteNames, FS_Subset
  <2>3. Cardinality(Names(l.attempts)) <= MaxEntries
    BY DEF Limiting
  <2> QED  BY <2>2, <2>3, FiniteNames, RateNumbers
<1>7. \A k \in Names(pruned) : Since(l.admitted[k], since) # {}
  BY <1>3 DEF Names
<1>8. ASSUME NEW k \in AuthKeys
      PROVE  Len(pruned[k]) \in Nat /\ Len(pruned[k]) <= Cardinality(Since(l.admitted[k], since))
  <2>1. Len(pruned[k]) \in Nat
    BY <1>5
  <2>2. Cardinality(Since(pruned[k], since)) <= Cardinality(Since(l.admitted[k], since))
    BY <1>2, <1>3 DEF Follows
  <2> QED  BY <1>3, <2>1, <2>2
<1> QED  BY <1>1, <1>2, <1>3, <1>4, <1>5, <1>6, <1>7, <1>8

\* Whatever is attempted, and whenever.
LEMMA AttemptKeeps ==
    ASSUME NEW l, NEW calls \in Seq(Logins), Limiting(l, calls), NEW call \in Logins
    PROVE  /\ Limiting(AllowAttempt(l, call), Append(calls, call))
           /\ Refusing(AllowAttempt(l, call))
<1>1. PICK now : now = l.now + call.gap
  OBVIOUS
<1>2. PICK since : since = now - AuthWindow[call.key]
  OBVIOUS
<1>3. PICK pruned : pruned = [k \in AuthKeys |-> Recent(l.attempts[k], since)]
  OBVIOUS
<1>4. PICK key : key = call.key
  OBVIOUS
<1>5. PICK more : more = Append(calls, call)
  OBVIOUS
<1>6. /\ now \in Nat /\ since \in Int /\ key \in AuthKeys
      /\ pruned \in [AuthKeys -> Seq(Nat)]
      /\ \A k \in AuthKeys : Follows(pruned[k], l.admitted[k], now)
      /\ \A k \in AuthKeys : \A w \in 0 .. AuthWindow[k] :
            (\A i \in DOMAIN more : w <= AuthWindow[more[i].key])
               => Window(pruned[k], l.admitted[k], now, AuthLimit[k], w)
      /\ Cardinality(Names(pruned)) <= MaxEntries
      /\ \A k \in Names(pruned) : Since(l.admitted[k], since) # {}
      /\ \A k \in AuthKeys : Len(pruned[k]) \in Nat
            /\ Len(pruned[k]) <= Cardinality(Since(l.admitted[k], since))
  <2>1. /\ now \in Nat /\ since \in Int /\ call.key \in AuthKeys
        /\ pruned \in [AuthKeys -> Seq(Nat)]
    BY <1>1, <1>2, <1>3, Pruned
  <2>2. \A k \in AuthKeys : Follows(pruned[k], l.admitted[k], now)
    BY <1>1, <1>2, <1>3, Pruned
  <2>3. \A k \in AuthKeys : \A w \in 0 .. AuthWindow[k] :
            (\A i \in DOMAIN Append(calls, call) : w <= AuthWindow[Append(calls, call)[i].key])
               => Window(pruned[k], l.admitted[k], now, AuthLimit[k], w)
    BY <1>1, <1>2, <1>3, Pruned
  <2>4. /\ Cardinality(Names(pruned)) <= MaxEntries
        /\ \A k \in Names(pruned) : Since(l.admitted[k], since) # {}
        /\ \A k \in AuthKeys : Len(pruned[k]) \in Nat
              /\ Len(pruned[k]) <= Cardinality(Since(l.admitted[k], since))
    BY <1>1, <1>2, <1>3, Pruned
  <2> QED  BY <1>4, <1>5, <2>1, <2>2, <2>3, <2>4
<1>7. l.admitted \in [AuthKeys -> Seq(Nat)]
  BY DEF Limiting
<1> DEFINE allowed == /\ Len(pruned[key]) < AuthLimit[key]
                      /\ pruned[key] = <<>> => Cardinality(Names(pruned)) < MaxEntries
<1>8. PICK m : m = AllowAttempt(l, call)
  OBVIOUS
<1>9. CASE ~allowed
  <2>1. /\ m.now = now /\ m.attempts = pruned /\ m.admitted = l.admitted
        /\ m.verdict.allowed = FALSE /\ m.verdict.key = key
    BY <1>1, <1>2, <1>3, <1>4, <1>8, <1>9 DEF AllowAttempt
  <2>2. Limiting(m, more)
    BY <1>6, <1>7, <2>1 DEF Limiting
  <2>3. Refusing(m)
    <3>1. CASE ~(Len(pruned[key]) < AuthLimit[key])
      <4>1. PICK n \in Nat : n = Cardinality(Since(l.admitted[key], since))
        BY <1>6, <1>7, FiniteSince
      <4>2. n >= AuthLimit[key]
        BY <1>6, <3>1, <4>1, RateNumbers
      <4> QED  BY <1>2, <1>4, <2>1, <4>1, <4>2 DEF Refusing
    <3>2. CASE ~(Cardinality(Names(pruned)) < MaxEntries)
      <4>1. PICK busy : busy = {k \in AuthKeys : Since(l.admitted[k], since) # {}}
        OBVIOUS
      <4>2. IsFiniteSet(busy)
        <5>1. busy \in SUBSET AuthKeys /\ IsFiniteSet(AuthKeys)
          BY <4>1, RatesAssumption
        <5> QED  BY <5>1, FS_Subset
      <4>3. Cardinality(Names(pruned)) <= Cardinality(busy) /\ Cardinality(busy) \in Nat
        <5>1. Names(pruned) \subseteq busy
          BY <1>6, <4>1 DEF Names
        <5> QED  BY <4>2, <5>1, FS_Subset, FS_CardinalityType
      <4>4. Cardinality(busy) >= MaxEntries
        BY <3>2, <4>3, FiniteNames, RateNumbers
      <4> QED  BY <1>2, <1>4, <2>1, <4>1, <4>4 DEF Refusing
    <3> QED  BY <1>9, <3>1, <3>2
  <2> QED  BY <1>5, <1>8, <2>2, <2>3
<1>10. CASE allowed
  <2>1. PICK kept, all : /\ kept = [pruned EXCEPT ![key] = Append(@, now)]
                         /\ all = [l.admitted EXCEPT ![key] = Append(@, now)]
    OBVIOUS
  <2>2. m.now = now /\ m.attempts = kept /\ m.admitted = all /\ m.verdict.allowed = TRUE
    BY <1>1, <1>2, <1>3, <1>4, <1>8, <1>10, <2>1 DEF AllowAttempt
  <2>3. /\ kept \in [AuthKeys -> Seq(Nat)] /\ all \in [AuthKeys -> Seq(Nat)]
        /\ kept[key] = Append(pruned[key], now) /\ all[key] = Append(l.admitted[key], now)
        /\ \A k \in AuthKeys : k # key => kept[k] = pruned[k] /\ all[k] = l.admitted[k]
    BY <1>6, <1>7, <2>1
  <2>4. ASSUME NEW k \in AuthKeys PROVE Follows(kept[k], all[k], now)
    <3>1. CASE k = key
      BY <1>6, <2>3, <3>1, AdmissionNoted
    <3>2. CASE k # key
      BY <1>6, <2>3, <3>2
    <3> QED  BY <3>1, <3>2
  <2>5. ASSUME NEW k \in AuthKeys, NEW w \in 0 .. AuthWindow[k],
               \A i \in DOMAIN more : w <= AuthWindow[more[i].key]
        PROVE  Window(kept[k], all[k], now, AuthLimit[k], w)
    <3>1. Window(pruned[k], l.admitted[k], now, AuthLimit[k], w)
      BY <1>6, <2>5
    <3>2. w \in Nat /\ AuthLimit[k] \in Nat
      BY RateNumbers
    <3>3. CASE k = key
      BY <1>10, <2>3, <3>1, <3>2, <3>3, WindowAdmits
    <3>4. CASE k # key
      BY <2>3, <3>1, <3>4
    <3> QED  BY <3>3, <3>4
  <2>6. Cardinality(Names(kept)) <= MaxEntries
    <3>1. kept[key] # <<>>
      <4>1. pruned[key] \in Seq(Nat)
        BY <1>6
      <4>2. Len(kept[key]) = Len(pruned[key]) + 1 /\ Len(pruned[key]) \in Nat
        BY <1>6, <2>3, <4>1
      <4> QED  BY <4>2
    <3>2. Names(kept) = Names(pruned) \cup {key}
      BY <1>6, <2>3, <3>1 DEF Names
    <3>3. Cardinality(Names(pruned) \cup {key}) =
             IF key \in Names(pruned) THEN Cardinality(Names(pruned))
             ELSE Cardinality(Names(pruned)) + 1
      BY FiniteNames, FS_AddElement
    <3>4. CASE key \in Names(pruned)
      BY <1>6, <3>2, <3>3, <3>4
    <3>5. CASE key \notin Names(pruned)
      <4>1. Cardinality(Names(pruned)) < MaxEntries
        BY <1>6, <1>10, <3>5 DEF Names
      <4> QED  BY <3>2, <3>3, <3>5, <4>1, FiniteNames, RateNumbers
    <3> QED  BY <3>4, <3>5
  <2>7. Limiting(m, more)
    BY <1>6, <2>2, <2>3, <2>4, <2>5, <2>6 DEF Limiting
  <2>8. Refusing(m)
    BY <2>2 DEF Refusing
  <2> QED  BY <1>5, <1>8, <2>7, <2>8
<1> QED  BY <1>9, <1>10

\* The in-memory limiter keeps every key within its limit, in every window that
\* nobody has asked with a shorter one, its table within its bound, and refuses
\* nobody without need: for any keys, windows, attempts and times.
THEOREM AttemptsBounded == Spec => []SlidingLimit
<1> DEFINE Inv == /\ algorithm = "none" => input = <<>>
                  /\ algorithm = "attempt" => /\ input \in Seq(Logins)
                                              /\ Limiting(output, input) /\ Refusing(output)
<1>1. Init => Inv
  BY DEF Init
<1>2. Inv /\ [Next]_vars => Inv'
  <2> SUFFICES ASSUME Inv, [Next]_vars PROVE Inv'
    OBVIOUS
  <2>1. CASE UNCHANGED vars
    BY <2>1 DEF vars
  <2>2. CASE algorithm \in {"none", "attempt"} /\ Attempt
    <3>1. PICK l : l = IF algorithm = "none" THEN NewLimiter ELSE output
      OBVIOUS
    <3>2. PICK call \in Logins :
             /\ algorithm' = "attempt" /\ input' = Append(input, call)
             /\ output' = AllowAttempt(l, call)
      BY <2>2, <3>1 DEF Attempt, Apply
    <3>3. input \in Seq(Logins) /\ Limiting(l, input)
      <4>1. CASE algorithm = "none"
        <5>1. input = <<>> /\ l = NewLimiter
          BY <3>1, <4>1
        <5> QED  BY <5>1, NewLimiterLimits
      <4>2. CASE algorithm = "attempt"
        BY <3>1, <4>2
      <4> QED  BY <2>2, <4>1, <4>2
    <3>4. input' \in Seq(Logins)
      BY <3>2, <3>3
    <3>5. Limiting(output', input') /\ Refusing(output')
      BY <3>2, <3>3, AttemptKeeps
    <3> QED  BY <3>2, <3>4, <3>5
  <2>3. CASE Chunk \/ Run \/ Receive \/ BackOff \/ ListPage \/ ServeRange \/ Admit
    BY <2>3 DEF Chunk, Run, Receive, BackOff, ListPage, ServeRange, Admit, Apply
  <2>4. CASE /\ algorithm \in {"run", "receive"}
             /\ NextEvent \/ EndOfStream
    BY <2>4 DEF NextEvent, EndOfStream, Apply
  <2>5. CASE algorithm = "chunk" /\ GoOnCutting
    BY <2>5 DEF GoOnCutting
  <2> QED  BY <2>1, <2>2, <2>3, <2>4, <2>5 DEF Next
<1>3. Inv => SlidingLimit
  <2> SUFFICES ASSUME Limiting(output, input), Refusing(output) PROVE SlidingLimit
    BY DEF SlidingLimit
  <2>1. \A k \in AuthKeys : \A w \in 0 .. AuthWindow[k] :
           Remembered(w) => AtMostPer(output.admitted[k], AuthLimit[k], w)
    BY DEF Limiting, Window, Remembered
  <2>2. Cardinality(Names(output.attempts)) <= MaxEntries
    BY DEF Limiting
  <2> QED  BY <2>1, <2>2 DEF SlidingLimit, Refusing
<1> QED  BY <1>1, <1>2, <1>3, PTL DEF Spec

-----------------------------------------------------------------------------
(* Backoff.                                                                 *)

\* A sequence of numbers can be given by its first and by what follows each.
LEMMA Iterated ==
    ASSUME NEW step \in [Int -> Int], NEW first \in Int, NEW k \in Nat \ {0}
    PROVE  \E h \in [1 .. k -> Int] :
              h = [n \in 1 .. k |-> IF n = 1 THEN first ELSE step[h[n - 1]]]
<1> DEFINE Defines(h, n) == h = [i \in 1 .. n |-> IF i = 1 THEN first ELSE step[h[i - 1]]]
           without == {n \in Nat \ {0} : ~ \E h \in [1 .. n -> Int] : Defines(h, n)}
<1>1. ASSUME without # {} PROVE FALSE
  <2>1. without \in SUBSET Nat
    OBVIOUS
  <2>2. PICK n \in without : \A m \in without : n <= m
    BY <1>1, <2>1, LeastNumber
  <2>3. n \in Nat \ {0}
    OBVIOUS
  <2>4. CASE n = 1
    <3>1. PICK h : h = [i \in 1 .. 1 |-> first]
      OBVIOUS
    <3>2. h \in [1 .. 1 -> Int] /\ Defines(h, 1)
      BY <3>1
    <3> QED  BY <2>4, <3>2
  <2>5. CASE n # 1
    <3>1. PICK m \in Nat \ {0} : n = m + 1
      BY <2>3, <2>5
    <3>2. m \notin without
      <4>1. ~(n <= m)
        BY <3>1
      <4> HIDE DEF without
      <4> QED  BY <2>2, <4>1
    <3>3. PICK h \in [1 .. m -> Int] : Defines(h, m)
      BY <3>1, <3>2
    <3>4. PICK g : g = [i \in 1 .. n |-> IF i = n THEN step[h[m]] ELSE h[i]]
      OBVIOUS
    <3>5. g \in [1 .. n -> Int]
      BY <3>1, <3>4
    <3>6. ASSUME NEW i \in 1 .. n
          PROVE  g[i] = IF i = 1 THEN first ELSE step[g[i - 1]]
      <4>1. CASE i = n
        BY <3>1, <3>4, <4>1
      <4>2. CASE i # n
        <5>1. i \in 1 .. m /\ g[i] = h[i]
          BY <3>1, <3>4, <4>2
        <5>2. h[i] = IF i = 1 THEN first ELSE step[h[i - 1]]
          BY <3>3, <5>1
        <5>3. i # 1 => g[i - 1] = h[i - 1]
          BY <3>1, <3>4, <5>1
        <5> QED  BY <5>1, <5>2, <5>3
      <4> QED  BY <4>1, <4>2
    <3>7. Defines(g, n)
      BY <3>4, <3>6
    <3> QED  BY <3>5, <3>7
  <2> QED  BY <2>4, <2>5
<1> QED  BY <1>1

Follow(delay, attempt, initial, max) ==
    \A n \in 1 .. attempt :
        delay[n] = IF n = 1 THEN initial
                   ELSE IF delay[n - 1] < max THEN DoubledDelay(delay[n - 1], max)
                   ELSE delay[n - 1]

LEMMA DelaysStep ==
    ASSUME NEW attempt \in Nat \ {0}, NEW initial \in Int, NEW max \in Int,
           NEW delay, delay = Delays(attempt, initial, max)
    PROVE  Follow(delay, attempt, initial, max)
<1>1. PICK step : step = [d \in Int |-> IF d < max THEN DoubledDelay(d, max) ELSE d]
  OBVIOUS
<1>2. step \in [Int -> Int]
  BY <1>1, StreamAssumption DEF DoubledDelay, Wrap
<1>3. PICK h \in [1 .. attempt -> Int] :
         h = [n \in 1 .. attempt |-> IF n = 1 THEN initial ELSE step[h[n - 1]]]
  BY <1>2, Iterated
<1>4. h = [n \in 1 .. attempt |->
              IF n = 1 THEN initial
              ELSE IF h[n - 1] < max THEN DoubledDelay(h[n - 1], max) ELSE h[n - 1]]
  <2> SUFFICES ASSUME NEW n \in 1 .. attempt, n # 1
               PROVE  step[h[n - 1]] = IF h[n - 1] < max THEN DoubledDelay(h[n - 1], max)
                                       ELSE h[n - 1]
    BY <1>3
  <2>1. n - 1 \in 1 .. attempt
    OBVIOUS
  <2>2. h[n - 1] \in Int
    BY <2>1
  <2> QED  BY <1>1, <2>2
<1>5. delay = [n \in 1 .. attempt |->
                  IF n = 1 THEN initial
                  ELSE IF delay[n - 1] < max THEN DoubledDelay(delay[n - 1], max)
                  ELSE delay[n - 1]]
  BY <1>4 DEF Delays
<1> QED  BY <1>5 DEF Follow

\* A number smaller than the number of durations is not changed.
LEMMA NoOverflow ==
    ASSUME NEW n \in 0 .. MaxDuration
    PROVE  Wrap(n) = n
<1>1. PICK durations \in Nat : durations = 2 * (MaxDuration + 1) /\ durations > n
  BY StreamAssumption
<1>2. n % durations = n
  BY <1>1
<1> QED  BY <1>1, <1>2, StreamAssumption DEF Wrap

\* The delay is the exact one until either reaches the largest.
LEMMA DelaysCapped ==
    ASSUME NEW attempt \in Nat \ {0}, NEW initial \in 1 .. MaxDuration,
           NEW max \in 1 .. MaxDuration,
           NEW delay, NEW exact,
           delay = Delays(attempt, initial, max),
           exact = [n \in 1 .. attempt |-> IF n = 1 THEN initial ELSE 2 * exact[n - 1]]
    PROVE  \A n \in 1 .. attempt :
              /\ delay[n] \in 1 .. MaxDuration /\ exact[n] \in Nat
              /\ Smaller(delay[n], max) = Smaller(exact[n], max)
<1> DEFINE Agree(d, e) == /\ d \in 1 .. MaxDuration /\ e \in Nat
                          /\ Smaller(d, max) = Smaller(e, max)
           wrong == {n \in 1 .. attempt : ~ Agree(delay[n], exact[n])}
<1>1. /\ MaxDuration \in Nat /\ initial \in Nat /\ max \in Nat /\ initial >= 1 /\ max >= 1
      /\ initial <= MaxDuration /\ max <= MaxDuration
  BY StreamAssumption
<1>4. Follow(delay, attempt, initial, max)
  <2>1. initial \in Int /\ max \in Int
    BY <1>1
  <2> QED  BY <2>1, DelaysStep
<1>2. ASSUME wrong # {} PROVE FALSE
  <2>1. wrong \in SUBSET Nat
    OBVIOUS
  <2>2. PICK n \in wrong : \A m \in wrong : n <= m
    BY <1>2, <2>1, LeastNumber
  <2>3. n \in 1 .. attempt /\ ~ Agree(delay[n], exact[n])
    OBVIOUS
  <2>4. CASE n = 1
    <3>1. delay[1] = initial /\ exact[1] = initial
      BY <1>4, <2>3, <2>4 DEF Follow
    <3>2. Agree(initial, initial)
      BY <1>1
    <3> QED  BY <2>3, <2>4, <3>1, <3>2
  <2>5. CASE n # 1
    <3>1. PICK m \in 1 .. attempt : m = n - 1 /\ ~(n <= m)
      BY <2>3, <2>5
    <3>2. Agree(delay[m], exact[m])
      <4>1. m \notin wrong
        <5> HIDE DEF wrong
        <5> QED  BY <2>2, <3>1
      <4> QED  BY <4>1
    <3>3. PICK d \in Nat, e \in Nat : d = delay[m] /\ e = exact[m]
      BY <3>2
    <3>4. d >= 1 /\ d <= MaxDuration /\ Smaller(d, max) = Smaller(e, max)
      BY <3>2, <3>3
    <3>5. delay[n] = IF d < max THEN DoubledDelay(d, max) ELSE d
      <4>1. delay[n] = IF delay[m] < max THEN DoubledDelay(delay[m], max) ELSE delay[m]
        BY <1>4, <2>3, <2>5, <3>1 DEF Follow
      <4> QED  BY <3>3, <4>1
    <3>6. exact[n] = 2 * e
      BY <2>3, <2>5, <3>1, <3>3
    <3>7. CASE d >= max
      <4>1. delay[n] = d /\ e >= max
        BY <1>1, <3>4, <3>5, <3>7 DEF Smaller
      <4> QED  BY <1>1, <2>3, <3>4, <3>6, <3>7, <4>1 DEF Smaller
    <3>8. CASE d < max /\ d > max \div 2
      <4>1. delay[n] = max /\ e = d /\ 2 * d > max
        BY <1>1, <3>4, <3>5, <3>8 DEF Smaller, DoubledDelay
      <4> QED  BY <1>1, <2>3, <3>4, <3>6, <3>8, <4>1 DEF Smaller
    <3>9. CASE d < max /\ ~(d > max \div 2)
      <4>1. e = d /\ d * 2 <= max /\ d * 2 \in 1 .. MaxDuration
        BY <1>1, <3>4, <3>9 DEF Smaller
      <4>2. delay[n] = d * 2
        BY <3>5, <3>9, <4>1, NoOverflow DEF DoubledDelay
      <4>3. d * 2 = 2 * e
        BY <4>1
      <4> QED  BY <2>3, <3>6, <4>1, <4>2, <4>3
    <3> QED  BY <1>1, <3>7, <3>8, <3>9
  <2> QED  BY <2>4, <2>5
<1>3. \A n \in 1 .. attempt : Agree(delay[n], exact[n])
  BY <1>2
<1> QED  BY <1>3

LEMMA DoublesStep ==
    ASSUME NEW attempt \in Nat \ {0}, NEW initial \in Int
    PROVE  \E exact : /\ exact = [n \in 1 .. attempt |->
                                      IF n = 1 THEN initial ELSE 2 * exact[n - 1]]
                      /\ Doubled(attempt, initial) = exact[attempt]
<1>1. PICK step : step = [d \in Int |-> 2 * d]
  OBVIOUS
<1>2. step \in [Int -> Int]
  BY <1>1
<1>3. PICK h \in [1 .. attempt -> Int] :
         h = [n \in 1 .. attempt |-> IF n = 1 THEN initial ELSE step[h[n - 1]]]
  BY <1>2, Iterated
<1>4. h = [n \in 1 .. attempt |-> IF n = 1 THEN initial ELSE 2 * h[n - 1]]
  <2> SUFFICES ASSUME NEW n \in 1 .. attempt, n # 1
               PROVE  step[h[n - 1]] = 2 * h[n - 1]
    BY <1>3
  <2>1. n - 1 \in 1 .. attempt
    OBVIOUS
  <2>2. h[n - 1] \in Int
    BY <2>1
  <2> QED  BY <1>1, <2>2
<1> QED  BY <1>4 DEF Doubled

\* The backoff is the exact one, capped.
LEMMA BackoffIsRight ==
    ASSUME NEW attempt \in Nat \ {0}, NEW initial \in 1 .. MaxDuration,
           NEW max \in 1 .. MaxDuration
    PROVE  RetryBackoff(attempt, initial, max) = Smaller(Doubled(attempt, initial), max)
<1>1. initial \in Int /\ max \in Int
  OBVIOUS
<1>2. PICK exact :
         /\ exact = [n \in 1 .. attempt |-> IF n = 1 THEN initial ELSE 2 * exact[n - 1]]
         /\ Doubled(attempt, initial) = exact[attempt]
  BY <1>1, DoublesStep
<1>3. PICK delay : delay = Delays(attempt, initial, max)
  OBVIOUS
<1>4. /\ delay[attempt] \in 1 .. MaxDuration /\ exact[attempt] \in Nat
      /\ Smaller(delay[attempt], max) = Smaller(exact[attempt], max)
  BY <1>2, <1>3, DelaysCapped
<1>5. RetryBackoff(attempt, initial, max) = Smaller(delay[attempt], max)
  BY <1>1, <1>3, <1>4 DEF RetryBackoff, Smaller
<1> QED  BY <1>2, <1>4, <1>5

\* A retry waits as long as it should: for all attempts and configurations, and
\* any width of a duration.
THEOREM BackoffCapped == Spec => []BackoffIsCapped
<1>1. Init => BackoffIsCapped
  BY DEF Init, BackoffIsCapped
<1>2. BackoffIsCapped /\ [Next]_vars => BackoffIsCapped'
  <2> SUFFICES ASSUME BackoffIsCapped, [Next]_vars PROVE BackoffIsCapped'
    OBVIOUS
  <2>1. CASE UNCHANGED vars
    BY <2>1 DEF vars, BackoffIsCapped
  <2>2. CASE BackOff
    <3>1. PICK b \in Backoffs :
             input' = b /\ output' = RetryBackoff(b.attempt, b.initial, b.max)
      BY <2>2 DEF BackOff, Apply
    <3>2. /\ b.attempt \in Nat \ {0} /\ b.initial \in 1 .. MaxDuration
          /\ b.max \in 1 .. MaxDuration
      BY BackoffsAssumption
    <3> QED  BY <3>1, <3>2, BackoffIsRight DEF BackoffIsCapped
  <2>3. CASE Chunk \/ Run \/ Receive \/ ListPage \/ ServeRange \/ Admit \/ Attempt
    BY <2>3 DEF Chunk, Run, Receive, ListPage, ServeRange, Admit, Attempt, Apply, BackoffIsCapped
  <2>4. CASE /\ algorithm \in {"run", "receive"}
             /\ NextEvent \/ EndOfStream
    BY <2>4 DEF NextEvent, EndOfStream, Apply, BackoffIsCapped
  <2>5. CASE algorithm = "chunk" /\ GoOnCutting
    BY <2>5 DEF GoOnCutting, BackoffIsCapped
  <2> QED  BY <2>1, <2>2, <2>3, <2>4, <2>5 DEF Next
<1> QED  BY <1>1, <1>2, PTL DEF Spec

-----------------------------------------------------------------------------
(* The pages of a list.                                                     *)

\* Documents are ordered by their times, and by their ids where those are equal.
LEMMA BeforeIsOrder ==
    ASSUME NEW created \in [Documents -> Nat]
    PROVE  /\ \A d \in Documents : ~Before(created, d, d)
           /\ \A d, e \in Documents : d = e \/ Before(created, d, e) \/ Before(created, e, d)
           /\ \A d, e, f \in Documents :
                 Before(created, d, e) /\ Before(created, e, f) => Before(created, d, f)
<1>1. \A d \in Documents : d \in Nat /\ created[d] \in Nat
  BY ReadsAssumption
<1>2. \A d \in Documents : ~Before(created, d, d)
  BY <1>1 DEF Before
<1>3. \A d, e \in Documents : d = e \/ Before(created, d, e) \/ Before(created, e, d)
  BY <1>1 DEF Before
<1>4. \A d, e, f \in Documents :
         Before(created, d, e) /\ Before(created, e, f) => Before(created, d, f)
  BY <1>1 DEF Before
<1> QED  BY <1>2, <1>3, <1>4

\* Still to come: what is behind the cursor.
ToCome(created, next) == {d \in Documents : next = Absent \/ Before(created, d, next)}

\* items are listed in order, all of them before what is to come; and nothing is
\* missing that has been there in every snapshot, and is not to come.
Listed(items, hasMore, next, created, snapshots) ==
    /\ items \in Seq(Documents) /\ snapshots \in Seq(SUBSET Documents)
    /\ next \in Documents \union {Absent} /\ hasMore \in BOOLEAN
    /\ \A i, j \in 1 .. Len(items) : i < j => Before(created, items[j], items[i])
    /\ hasMore => \A i \in 1 .. Len(items) :
          \A d \in ToCome(created, next) : Before(created, d, items[i])
    /\ \A i \in 1 .. Len(items) : \E k \in 1 .. Len(snapshots) : items[i] \in snapshots[k]
    /\ \A d \in Documents : (\A k \in 1 .. Len(snapshots) : d \in snapshots[k])
          => \/ \E i \in 1 .. Len(items) : d = items[i]
             \/ hasMore /\ d \in ToCome(created, next)

LEMMA NothingListed ==
    ASSUME NEW created, NEW none, none = <<>>
    PROVE  Listed(none, TRUE, Absent, created, none)
<1>1. \A d \in Documents : d \in ToCome(created, Absent)
  BY DEF ToCome
<1>2. Len(none) = 0 /\ none \in Seq(Documents) /\ none \in Seq(SUBSET Documents)
  OBVIOUS
<1> QED  BY <1>1, <1>2 DEF Listed

\* What the query returns.
IsPage(rows, created, snapshot, limit, next) ==
    /\ rows \in Seq(Documents) /\ Len(rows) \in Nat /\ Len(rows) <= limit
    /\ \A i \in 1 .. Len(rows) : rows[i] \in snapshot /\ rows[i] \in ToCome(created, next)
    /\ \A i, j \in 1 .. Len(rows) : i < j => Before(created, rows[j], rows[i])
    /\ \A d \in snapshot : d \in ToCome(created, next) =>
          \/ \E i \in 1 .. Len(rows) : d = rows[i]
          \/ Len(rows) = limit /\ Before(created, d, rows[limit])

LEMMA PageOfRows ==
    ASSUME NEW created \in [Documents -> Nat], NEW snapshot \in SUBSET Documents,
           NEW limit \in Nat, NEW next \in Documents \union {Absent},
           NEW rows \in ListOwnedPage(created, snapshot, limit, next)
    PROVE  IsPage(rows, created, snapshot, limit, next)
<1> DEFINE found == {d \in snapshot : next = Absent \/ Before(created, d, next)}
<1>1. PICK m \in 0 .. limit : rows \in [1 .. m -> found]
  BY DEF ListOwnedPage, BoundedSeq, SeqOf
<1>2. rows \in Seq(found) /\ Len(rows) = m /\ DOMAIN rows = 1 .. m
  BY <1>1
<1>3. found \subseteq snapshot /\ found \subseteq ToCome(created, next)
      /\ \A d \in snapshot : d \in ToCome(created, next) => d \in found
  BY DEF ToCome
<1>4. /\ \A i, j \in DOMAIN rows : i < j => Before(created, rows[j], rows[i])
      /\ \A d \in found \ ToSet(rows) : Len(rows) = limit /\ Before(created, d, rows[limit])
  BY DEF ListOwnedPage
<1>5. \A i \in 1 .. Len(rows) : rows[i] \in found
  BY <1>1, <1>2
<1>6. \A d : d \in ToSet(rows) => \E i \in 1 .. Len(rows) : d = rows[i]
  BY <1>2 DEF ToSet
<1>7. rows \in Seq(Documents)
  BY <1>2, <1>3
<1> HIDE DEF found
<1> QED  BY <1>1, <1>2, <1>3, <1>4, <1>5, <1>6, <1>7 DEF IsPage

\* A page is appended.
Appended(all, items, page) ==
    /\ all \in Seq(Documents) /\ Len(all) = Len(items) + Len(page)
    /\ \A i \in 1 .. Len(items) : all[i] = items[i]
    /\ \A i \in 1 .. Len(page) : all[Len(items) + i] = page[i]
    /\ \A i \in 1 .. Len(all) :
          i \in 1 .. Len(items) \/ \E k \in 1 .. Len(page) : i = Len(items) + k

LEMMA PageAppended ==
    ASSUME NEW items \in Seq(Documents), NEW page \in Seq(Documents),
           NEW all, all = items \o page
    PROVE  Appended(all, items, page)
<1>1. Len(items) \in Nat /\ Len(page) \in Nat
  OBVIOUS
<1>2. all \in Seq(Documents) /\ Len(all) = Len(items) + Len(page)
  OBVIOUS
<1>3. ASSUME NEW i \in 1 .. Len(items) PROVE all[i] = items[i]
  OBVIOUS
<1>4. ASSUME NEW i \in 1 .. Len(page) PROVE all[Len(items) + i] = page[i]
  <2>1. /\ Len(items) + i \in 1 .. Len(items) + Len(page)
        /\ ~(Len(items) + i <= Len(items)) /\ (Len(items) + i) - Len(items) = i
    BY <1>1
  <2> QED  BY <2>1
<1>5. ASSUME NEW i \in 1 .. Len(all), i \notin 1 .. Len(items)
      PROVE  \E k \in 1 .. Len(page) : i = Len(items) + k
  <2>1. i - Len(items) \in 1 .. Len(page) /\ i = Len(items) + (i - Len(items))
    BY <1>1, <1>2, <1>5
  <2> QED  BY <2>1
<1> QED  BY <1>2, <1>3, <1>4, <1>5 DEF Appended

\* What is returned of the rows, and whether there are more behind the cursor.
Returned(rows, limit, ahead, page, hasMore, cursor) ==
    /\ ahead = limit + 1
    /\ page = IF Len(rows) > limit THEN SubSeq(rows, 1, limit) ELSE rows
    /\ hasMore <=> Len(rows) > limit
    /\ cursor = IF Len(rows) > limit THEN rows[limit] ELSE Absent

\* One page more: the rows are one more than limit, at most.
LEMMA PageListed ==
    ASSUME NEW created \in [Documents -> Nat], NEW items, NEW next, NEW snapshots,
           Listed(items, TRUE, next, created, snapshots),
           NEW snapshot \in SUBSET Documents, NEW limit \in Nat, limit >= 1,
           NEW ahead \in Nat, NEW rows, IsPage(rows, created, snapshot, ahead, next),
           NEW page, NEW hasMore \in BOOLEAN, NEW cursor,
           Returned(rows, limit, ahead, page, hasMore, cursor),
           NEW all, Appended(all, items, page)
    PROVE  Listed(all, hasMore, cursor, created, Append(snapshots, snapshot))
<1>1. /\ ahead = limit + 1
      /\ page = IF Len(rows) > limit THEN SubSeq(rows, 1, limit) ELSE rows
      /\ hasMore <=> Len(rows) > limit
      /\ cursor = IF Len(rows) > limit THEN rows[limit] ELSE Absent
  BY DEF Returned
<1>4. /\ items \in Seq(Documents) /\ snapshots \in Seq(SUBSET Documents)
      /\ next \in Documents \union {Absent} /\ Len(items) \in Nat
      /\ \A i, j \in 1 .. Len(items) : i < j => Before(created, items[j], items[i])
      /\ \A i \in 1 .. Len(items) :
            \A d \in ToCome(created, next) : Before(created, d, items[i])
  BY DEF Listed
<1>5. /\ rows \in Seq(Documents) /\ Len(rows) \in Nat /\ Len(rows) <= ahead
      /\ \A i \in 1 .. Len(rows) : rows[i] \in snapshot /\ rows[i] \in ToCome(created, next)
      /\ \A i, j \in 1 .. Len(rows) : i < j => Before(created, rows[j], rows[i])
      /\ \A d \in snapshot : d \in ToCome(created, next) =>
            \/ \E i \in 1 .. Len(rows) : d = rows[i]
            \/ Len(rows) = ahead /\ Before(created, d, rows[ahead])
  BY <1>1 DEF IsPage
<1>6. PICK more : more = Append(snapshots, snapshot)
  OBVIOUS
<1>7. /\ page \in Seq(Documents) /\ Len(page) \in Nat
      /\ Len(page) = IF Len(rows) > limit THEN limit ELSE Len(rows)
      /\ \A i \in 1 .. Len(page) : page[i] = rows[i]
  <2>1. CASE Len(rows) > limit
    <3>1. page = SubSeq(rows, 1, limit) /\ limit <= Len(rows)
      BY <1>1, <1>5, <2>1
    <3>2. /\ page \in Seq(Documents) /\ Len(page) = limit
          /\ \A i \in 1 .. limit : page[i] = rows[i]
      BY <1>5, <3>1
    <3> QED  BY <2>1, <3>2
  <2>2. CASE ~(Len(rows) > limit)
    BY <1>1, <1>5, <2>2
  <2> QED  BY <2>1, <2>2
<1>8. Len(page) <= Len(rows) /\ \A i \in 1 .. Len(page) : i \in 1 .. Len(rows)
  BY <1>5, <1>7
<1>9. /\ more \in Seq(SUBSET Documents)
      /\ Len(snapshots) \in Nat /\ Len(more) = Len(snapshots) + 1
      /\ more[Len(more)] = snapshot /\ Len(more) \in 1 .. Len(more)
      /\ \A k \in 1 .. Len(snapshots) : k \in 1 .. Len(more) /\ more[k] = snapshots[k]
  BY <1>4, <1>6
<1>12. /\ all \in Seq(Documents) /\ Len(all) = Len(items) + Len(page)
       /\ \A i \in 1 .. Len(items) : all[i] = items[i]
       /\ \A i \in 1 .. Len(page) : all[Len(items) + i] = page[i]
       /\ \A i \in 1 .. Len(all) :
             i \in 1 .. Len(items) \/ \E k \in 1 .. Len(page) : i = Len(items) + k
  BY DEF Appended
<1>13. /\ \A i \in 1 .. Len(items) : i \in 1 .. Len(all)
       /\ \A i \in 1 .. Len(page) : Len(items) + i \in 1 .. Len(all)
  <2>1. PICK n \in Nat, k \in Nat : n = Len(items) /\ k = Len(page) /\ Len(all) = n + k
    BY <1>4, <1>7, <1>12
  <2> QED  BY <2>1
<1>14. ASSUME hasMore
       PROVE  /\ Len(rows) = ahead /\ Len(page) = limit
              /\ cursor = rows[limit] /\ cursor = page[limit] /\ cursor = all[Len(all)]
              /\ cursor \in Documents /\ cursor # Absent
              /\ limit \in 1 .. Len(rows) /\ ahead \in 1 .. Len(rows) /\ limit < ahead
  <2>1. /\ Len(rows) > limit /\ Len(rows) = ahead /\ limit < ahead
        /\ limit \in 1 .. Len(rows) /\ ahead \in 1 .. Len(rows)
    BY <1>1, <1>5, <1>14
  <2>2. cursor = rows[limit] /\ Len(page) = limit
    BY <1>1, <1>7, <2>1
  <2>3. limit \in 1 .. Len(page)
    BY <2>1, <2>2
  <2>4. page[limit] = rows[limit] /\ all[Len(items) + limit] = page[limit]
        /\ Len(all) = Len(items) + limit
    BY <1>7, <1>12, <2>2, <2>3
  <2>5. rows[limit] \in Documents
    BY <1>5, <2>1
  <2>6. rows[limit] # Absent
    BY <2>5, ReadsAssumption DEF Absent
  <2> QED  BY <2>1, <2>2, <2>4, <2>5, <2>6
<1>15. cursor \in Documents \union {Absent}
  <2>1. CASE hasMore
    BY <1>14, <2>1
  <2>2. CASE ~hasMore
    BY <1>1, <2>2
  <2> QED  BY <2>1, <2>2
<1>16. ASSUME NEW i \in 1 .. Len(all), NEW j \in 1 .. Len(all), i < j
       PROVE  Before(created, all[j], all[i])
  <2>1. CASE i \in 1 .. Len(items) /\ j \in 1 .. Len(items)
    BY <1>4, <1>12, <1>16, <2>1
  <2>2. CASE i \in 1 .. Len(items) /\ j \notin 1 .. Len(items)
    <3>1. PICK k \in 1 .. Len(page) : j = Len(items) + k
      BY <1>12, <2>2
    <3>2. all[j] = rows[k] /\ k \in 1 .. Len(rows)
      BY <1>7, <1>8, <1>12, <3>1
    <3>3. all[j] \in ToCome(created, next)
      BY <1>5, <3>2
    <3>4. all[i] = items[i]
      BY <1>12, <2>2
    <3> QED  BY <1>4, <2>2, <3>3, <3>4
  <2>3. CASE i \notin 1 .. Len(items)
    <3>1. PICK m \in 1 .. Len(page) : i = Len(items) + m
      BY <1>12, <2>3
    <3>2. j \notin 1 .. Len(items)
      BY <1>4, <1>16, <3>1
    <3>3. PICK k \in 1 .. Len(page) : j = Len(items) + k
      BY <1>12, <3>2
    <3>4. m < k
      BY <1>4, <1>16, <3>1, <3>3
    <3>5. all[j] = rows[k] /\ all[i] = rows[m] /\ k \in 1 .. Len(rows) /\ m \in 1 .. Len(rows)
      BY <1>7, <1>8, <1>12, <3>1, <3>3
    <3> QED  BY <1>5, <3>4, <3>5
  <2> QED  BY <2>1, <2>2, <2>3
<1>17. ASSUME hasMore, NEW i \in 1 .. Len(all), NEW d \in ToCome(created, cursor)
       PROVE  Before(created, d, all[i])
  <2>1. d \in Documents /\ Before(created, d, cursor)
    BY <1>14, <1>17 DEF ToCome
  <2>2. CASE i = Len(all)
    BY <1>14, <1>17, <2>1, <2>2
  <2>3. CASE i # Len(all)
    <3>1. Len(all) \in 1 .. Len(all) /\ i < Len(all)
      <4>1. Len(all) \in Nat
        BY <1>12
      <4> QED  BY <2>3, <4>1
    <3>2. Before(created, cursor, all[i])
      BY <1>14, <1>16, <1>17, <3>1
    <3>3. all[i] \in Documents /\ cursor \in Documents
      BY <1>12, <1>14, <1>17
    <3> QED  BY <2>1, <3>2, <3>3, BeforeIsOrder
  <2> QED  BY <2>2, <2>3
<1>18. ASSUME NEW i \in 1 .. Len(all)
       PROVE  \E k \in 1 .. Len(more) : all[i] \in more[k]
  <2>1. CASE i \in 1 .. Len(items)
    <3>1. PICK k \in 1 .. Len(snapshots) : items[i] \in snapshots[k]
      BY <2>1 DEF Listed
    <3> QED  BY <1>9, <1>12, <2>1, <3>1
  <2>2. CASE i \notin 1 .. Len(items)
    <3>1. PICK k \in 1 .. Len(page) : i = Len(items) + k
      BY <1>12, <2>2
    <3>2. all[i] = rows[k] /\ k \in 1 .. Len(rows)
      BY <1>7, <1>8, <1>12, <3>1
    <3>3. all[i] \in snapshot
      BY <1>5, <3>2
    <3> QED  BY <1>9, <3>3
  <2> QED  BY <2>1, <2>2
<1>19. ASSUME NEW d \in Documents, \A k \in 1 .. Len(more) : d \in more[k]
       PROVE  \/ \E i \in 1 .. Len(all) : d = all[i]
              \/ hasMore /\ d \in ToCome(created, cursor)
  <2>1. d \in snapshot /\ \A k \in 1 .. Len(snapshots) : d \in snapshots[k]
    BY <1>9, <1>19
  <2>2. ASSUME NEW i \in 1 .. Len(rows), d = rows[i], i <= Len(page)
        PROVE  \E m \in 1 .. Len(all) : d = all[m]
    <3>1. i \in 1 .. Len(page)
      BY <1>7, <2>2
    <3>2. Len(items) + i \in 1 .. Len(all)
      BY <1>13, <3>1
    <3>3. all[Len(items) + i] = rows[i]
      BY <1>7, <1>12, <3>1
    <3> QED  BY <2>2, <3>2, <3>3
  <2>3. CASE \E i \in 1 .. Len(items) : d = items[i]
    <3>1. PICK i \in 1 .. Len(items) : d = items[i]
      BY <2>3
    <3>2. i \in 1 .. Len(all) /\ all[i] = d
      BY <1>12, <1>13, <3>1
    <3> QED  BY <3>2
  <2>4. CASE d \in ToCome(created, next)
    <3>1. \/ \E i \in 1 .. Len(rows) : d = rows[i]
          \/ Len(rows) = ahead /\ Before(created, d, rows[ahead])
      BY <1>5, <2>1, <2>4
    <3>2. CASE ~hasMore
      <4>1. Len(page) = Len(rows) /\ Len(rows) # ahead
        BY <1>1, <1>5, <1>7, <3>2
      <4>2. PICK i \in 1 .. Len(rows) : d = rows[i]
        BY <3>1, <4>1
      <4>3. i <= Len(page)
        BY <1>5, <4>1
      <4>4. \E m \in 1 .. Len(all) : d = all[m]
        BY <2>2, <4>2, <4>3
      <4> QED  BY <4>4
    <3>3. CASE hasMore
      <4>1. /\ Len(page) = limit /\ cursor = rows[limit] /\ cursor # Absent
            /\ limit \in 1 .. Len(rows) /\ ahead \in 1 .. Len(rows) /\ limit < ahead
            /\ Len(rows) = ahead
        BY <1>14, <3>3
      <4>2. Before(created, rows[ahead], cursor) /\ cursor \in Documents
            /\ rows[ahead] \in Documents
        BY <1>5, <4>1
      <4>3. CASE Before(created, d, cursor)
        BY <3>3, <4>3 DEF ToCome
      <4>4. CASE \E i \in 1 .. Len(rows) : d = rows[i]
        <5>1. PICK i \in 1 .. Len(rows) : d = rows[i]
          BY <4>4
        <5>2. CASE i <= Len(page)
          <6>1. \E m \in 1 .. Len(all) : d = all[m]
            BY <2>2, <5>1, <5>2
          <6> QED  BY <6>1
        <5>3. CASE ~(i <= Len(page))
          <6>1. i = ahead
            BY <1>1, <4>1, <5>1, <5>3
          <6> QED  BY <4>2, <4>3, <5>1, <6>1
        <5> QED  BY <5>2, <5>3
      <4>5. CASE Before(created, d, rows[ahead])
        <5>1. Before(created, d, cursor)
          BY <4>2, <4>5, BeforeIsOrder
        <5> QED  BY <4>3, <5>1
      <4> QED  BY <3>1, <4>4, <4>5
    <3> QED  BY <3>2, <3>3
  <2> QED  BY <2>1, <2>3, <2>4 DEF Listed
<1>20. Listed(all, hasMore, cursor, created, more)
  BY <1>9, <1>12, <1>15, <1>16, <1>17, <1>18, <1>19 DEF Listed
<1> QED  BY <1>6, <1>20

\* What a client has listed, of the snapshots so far.
ListedSoFar(s, created, snapshots) ==
    Listed(s.items, s.hasMore, s.next, created, snapshots)

LEMMA ListKeeps ==
    ASSUME NEW s, NEW l \in Listings, NEW snapshots, ListedSoFar(s, l.created, snapshots),
           NEW snapshot \in SUBSET Documents, NEW t,
           List(s, l.created, snapshot, l.query, t)
    PROVE  ListedSoFar(t, l.created, Append(snapshots, snapshot))
<1>1. PICK limit : limit = PageLimit(l.query)
  OBVIOUS
<1>2. l.created \in [Documents -> Nat] /\ l.query \in Int
  BY ListingsAssumption
<1>3. limit \in Nat /\ limit >= 1
  BY <1>1, <1>2, ReadsAssumption DEF PageLimit
<1>4. PICK ahead \in Nat : ahead = limit + 1
  BY <1>3
<1>5. PICK rows \in ListOwnedPage(l.created, snapshot, ahead, s.next) :
         /\ s.hasMore
         /\ t = IF Len(rows) > limit
                THEN [items |-> s.items \o SubSeq(rows, 1, limit), hasMore |-> TRUE,
                      next |-> NextCursor(rows, limit)]
                ELSE [items |-> s.items \o rows, hasMore |-> FALSE, next |-> Absent]
  BY <1>1, <1>4 DEF List
<1>6. PICK page : page = IF Len(rows) > limit THEN SubSeq(rows, 1, limit) ELSE rows
  OBVIOUS
<1>7. PICK items : items = s.items
  OBVIOUS
<1>8. Listed(items, TRUE, s.next, l.created, snapshots)
  <2>1. s.hasMore = TRUE
    BY <1>5 DEF ListedSoFar, Listed
  <2> QED  BY <1>7, <2>1 DEF ListedSoFar
<1>9. IsPage(rows, l.created, snapshot, ahead, s.next)
  BY <1>2, <1>8, PageOfRows DEF Listed
<1>10. items \in Seq(Documents) /\ page \in Seq(Documents)
  BY <1>3, <1>6, <1>8, <1>9 DEF Listed, IsPage
<1>11. PICK all : all = items \o page
  OBVIOUS
<1>12. Appended(all, items, page)
  BY <1>10, <1>11, PageAppended
<1>13. PICK hasMore \in BOOLEAN : hasMore <=> Len(rows) > limit
  OBVIOUS
<1>14. PICK cursor : cursor = IF Len(rows) > limit THEN rows[limit] ELSE Absent
  OBVIOUS
<1>15. Returned(rows, limit, ahead, page, hasMore, cursor)
  BY <1>4, <1>6, <1>13, <1>14 DEF Returned
<1>16. Listed(all, hasMore, cursor, l.created, Append(snapshots, snapshot))
  BY <1>2, <1>3, <1>8, <1>9, <1>12, <1>15, PageListed
<1>17. t.items = all /\ t.hasMore = hasMore /\ t.next = cursor
  BY <1>5, <1>6, <1>7, <1>11, <1>13, <1>14 DEF NextCursor
<1> QED  BY <1>16, <1>17 DEF ListedSoFar

\* The pages of a list hold every document once: for any number of documents and
\* pages, any times, and whatever is uploaded and deleted in between.
THEOREM PagesComplete == Spec => []PagesListOnce
<1> DEFINE Inv == algorithm = "list" =>
              /\ input.listing \in Listings
              /\ ListedSoFar(output, input.listing.created, input.snapshots)
<1>1. Init => Inv
  BY DEF Init
<1>2. Inv /\ [Next]_vars => Inv'
  <2> SUFFICES ASSUME Inv, [Next]_vars PROVE Inv'
    OBVIOUS
  <2>1. CASE UNCHANGED vars
    BY <2>1 DEF vars
  <2>2. CASE algorithm \in {"none", "list"} /\ ListPage
    <3>1. PICK l \in IF algorithm = "none" THEN Listings ELSE {input.listing},
               snapshot \in SUBSET Documents :
             /\ algorithm' = "list"
             /\ input' = [listing |-> l,
                          snapshots |-> IF algorithm = "none" THEN <<snapshot>>
                                        ELSE Append(input.snapshots, snapshot)]
             /\ List(IF algorithm = "none" THEN NewListing ELSE output,
                     l.created, snapshot, l.query, output')
      BY <2>2 DEF ListPage
    <3>2. l \in Listings
      BY <2>2, <3>1
    <3>3. CASE algorithm = "none"
      <4>1. PICK none : none = <<>>
        OBVIOUS
      <4>2. ListedSoFar(NewListing, l.created, none)
        BY <4>1, NothingListed DEF ListedSoFar, NewListing
      <4>3. ListedSoFar(output', l.created, Append(none, snapshot))
        BY <3>1, <3>2, <3>3, <4>2, ListKeeps
      <4>4. Append(none, snapshot) = <<snapshot>>
        BY <4>1
      <4> QED  BY <3>1, <3>2, <3>3, <4>3, <4>4
    <3>4. CASE algorithm = "list"
      <4>1. ListedSoFar(output, l.created, input.snapshots)
        BY <3>1, <3>4
      <4>2. ListedSoFar(output', l.created, Append(input.snapshots, snapshot))
        BY <3>1, <3>2, <3>4, <4>1, ListKeeps
      <4> QED  BY <3>1, <3>2, <3>4, <4>2
    <3> QED  BY <2>2, <3>3, <3>4
  <2>3. CASE Chunk \/ Run \/ Receive \/ BackOff \/ ServeRange \/ Admit \/ Attempt
    BY <2>3 DEF Chunk, Run, Receive, BackOff, ServeRange, Admit, Attempt, Apply
  <2>4. CASE /\ algorithm \in {"run", "receive"}
             /\ NextEvent \/ EndOfStream
    BY <2>4 DEF NextEvent, EndOfStream, Apply
  <2>5. CASE algorithm = "chunk" /\ GoOnCutting
    BY <2>5 DEF GoOnCutting
  <2> QED  BY <2>1, <2>2, <2>3, <2>4, <2>5 DEF Next
<1>3. Inv => PagesListOnce
  <2> SUFFICES ASSUME algorithm = "list", Inv PROVE PagesListOnce
    BY DEF PagesListOnce
  <2>1. PICK items, created, snapshots :
           items = output.items /\ created = input.listing.created /\ snapshots = input.snapshots
    OBVIOUS
  <2>2. created \in [Documents -> Nat]
    BY <2>1, ListingsAssumption
  <2>3. Listed(items, output.hasMore, output.next, created, snapshots)
    BY <2>1 DEF ListedSoFar
  <2>4. /\ items \in Seq(Documents) /\ DOMAIN items = 1 .. Len(items) /\ Len(items) \in Nat
        /\ snapshots \in Seq(SUBSET Documents) /\ DOMAIN snapshots = 1 .. Len(snapshots)
        /\ \A i, j \in 1 .. Len(items) : i < j => Before(created, items[j], items[i])
    BY <2>3 DEF Listed
  <2>5. IsInjective(items)
    <3> SUFFICES ASSUME NEW i \in 1 .. Len(items), NEW j \in 1 .. Len(items),
                        items[i] = items[j], i # j
                 PROVE  FALSE
      BY <2>4 DEF IsInjective
    <3>1. items[i] \in Documents /\ (i < j \/ j < i)
      BY <2>4
    <3>2. Before(created, items[i], items[i])
      BY <2>4, <3>1
    <3> QED  BY <2>2, <3>1, <3>2, BeforeIsOrder
  <2>6. ASSUME ~output.hasMore, NEW d \in UNION ToSet(snapshots), \A x \in ToSet(snapshots) : d \in x
        PROVE  d \in ToSet(items)
    <3>1. d \in Documents
      BY <2>4, <2>6 DEF ToSet
    <3>2. \A k \in 1 .. Len(snapshots) : d \in snapshots[k]
      BY <2>4, <2>6 DEF ToSet
    <3>3. \E i \in 1 .. Len(items) : d = items[i]
      BY <2>3, <2>6, <3>1, <3>2 DEF Listed
    <3> QED  BY <2>4, <3>3 DEF ToSet
  <2>7. ToSet(items) \subseteq UNION ToSet(snapshots)
    <3>1. \A i \in 1 .. Len(items) : \E k \in 1 .. Len(snapshots) : items[i] \in snapshots[k]
      BY <2>3 DEF Listed
    <3> QED  BY <2>4, <3>1 DEF ToSet
  <2>8. \A i \in 1 .. Len(items) - 1 : Before(created, items[i + 1], items[i])
    <3> SUFFICES ASSUME NEW i \in 1 .. Len(items) - 1 PROVE Before(created, items[i + 1], items[i])
      OBVIOUS
    <3>1. i \in 1 .. Len(items) /\ i + 1 \in 1 .. Len(items) /\ i < i + 1
      BY <2>4
    <3> QED  BY <2>4, <3>1
  <2> QED  BY <2>1, <2>5, <2>6, <2>7, <2>8 DEF PagesListOnce
<1> QED  BY <1>1, <1>2, <1>3, PTL DEF Spec
-----------------------------------------------------------------------------
(* The events of a document.                                                *)

\* The numbers of the first k chunks.
FirstChunks(k) == [i \in 1 .. k |-> i - 1]

Receiver ==
    [verdict : {"none", "extracted", "permanent", "retryable"},
     expected : Int, nextBatch : Nat, chunks : Seq(Nat)]

\* What the receiver is after n events, none of which it has rejected.
Taken(s, events, n) ==
    /\ s.nextBatch = IF n = 0 THEN 0 ELSE n - 1
    /\ s.expected = IF n = 0 THEN -1 ELSE events[1].count
    /\ s.chunks = FirstChunks(Len(s.chunks))
    /\ IF n = 0 THEN Len(s.chunks) = 0 ELSE Whole(events, n, Len(s.chunks))

\* The chunks of a batch go on where the receiver is.
GoesOn(chunks, k) ==
    \A j \in DOMAIN chunks : /\ chunks[j] = [index |-> k + j - 1, fits |-> TRUE]
                              /\ k + j - 1 < MaxProcessedChunks

LEMMA ChunksAppended ==
    ASSUME NEW k \in Nat, NEW m \in Nat
    PROVE  FirstChunks(k) \o [j \in 1 .. m |-> k + j - 1] = FirstChunks(k + m)
<1>1. PICK front : front = FirstChunks(k)
  OBVIOUS
<1>2. PICK back : back = [j \in 1 .. m |-> k + j - 1]
  OBVIOUS
<1>3. front \in Seq(Nat) /\ back \in Seq(Nat) /\ Len(front) = k /\ Len(back) = m
  <2>1. (\A i \in 1 .. k : i - 1 \in Nat) /\ (\A j \in 1 .. m : k + j - 1 \in Nat)
    OBVIOUS
  <2>2. front \in Seq(Nat) /\ Len(front) = k
    BY <1>1, <2>1 DEF FirstChunks
  <2>3. back \in Seq(Nat) /\ Len(back) = m
    BY <1>2, <2>1
  <2> QED  BY <2>2, <2>3
<1>4. PICK all : all = front \o back
  OBVIOUS
<1>5. /\ all \in Seq(Nat) /\ Len(all) = k + m
      /\ \A i \in 1 .. k + m : all[i] = IF i <= k THEN front[i] ELSE back[i - k]
  <2>1. /\ all \in Seq(Nat) /\ Len(all) = Len(front) + Len(back)
        /\ \A i \in 1 .. Len(front) + Len(back) :
              all[i] = IF i <= Len(front) THEN front[i] ELSE back[i - Len(front)]
    BY <1>3, <1>4, ConcatProperties
  <2> QED  BY <1>3, <2>1
<1>6. \A i \in 1 .. k + m : all[i] = i - 1
  <2>1. ASSUME NEW i \in 1 .. k + m PROVE all[i] = i - 1
    <3>1. CASE i <= k
      BY <1>1, <1>5, <3>1 DEF FirstChunks
    <3>2. CASE ~(i <= k)
      <4>1. i - k \in 1 .. m
        BY <3>2
      <4>2. back[i - k] = k + (i - k) - 1
        BY <1>2, <4>1
      <4> QED  BY <1>5, <3>2, <4>2
    <3> QED  BY <3>1, <3>2
  <2> QED  BY <2>1
<1>7. all = [i \in 1 .. k + m |-> i - 1]
  BY <1>5, <1>6
<1> QED  BY <1>1, <1>2, <1>4, <1>7 DEF FirstChunks

\* A batch more, of chunks that go on, and it is still a whole.
LEMMA WholeGrows ==
    ASSUME NEW events, NEW n \in Nat, NEW total \in Nat, Whole(events, n, total),
           events[n + 1].kind = "batch", events[n + 1].index = n - 1,
           Len(events[n + 1].chunks) \in Nat, GoesOn(events[n + 1].chunks, total)
    PROVE  Whole(events, n + 1, total + Len(events[n + 1].chunks))
<1>1. /\ n >= 1 /\ events[1].kind = "metadata"
      /\ events[1].fits /\ events[1].count <= MaxProcessedChunks
  BY DEF Whole
<1>2. \A i \in 2 .. n : events[i].kind = "batch" /\ events[i].index = i - 2
  BY DEF Whole
<1>3. PICK arrived \in [1 .. n -> 0 .. total] :
         /\ arrived[1] = 0 /\ arrived[n] = total
         /\ \A i \in 2 .. n :
               /\ arrived[i] = arrived[i - 1] + Len(events[i].chunks)
               /\ \A j \in DOMAIN events[i].chunks :
                     events[i].chunks[j] = [index |-> arrived[i - 1] + j - 1, fits |-> TRUE]
  BY DEF Whole
<1>4. PICK more \in Nat : more = total + Len(events[n + 1].chunks)
  OBVIOUS
<1>5. PICK grown : grown = [i \in 1 .. n + 1 |-> IF i = n + 1 THEN more ELSE arrived[i]]
  OBVIOUS
<1>6. /\ \A i \in 1 .. n : i \in 1 .. n + 1 /\ i # n + 1 /\ grown[i] = arrived[i]
      /\ grown[n + 1] = more /\ more >= total
  BY <1>1, <1>4, <1>5
<1>7. grown \in [1 .. n + 1 -> 0 .. more]
  <2>1. ASSUME NEW i \in 1 .. n + 1 PROVE grown[i] \in 0 .. more
    <3>1. CASE i = n + 1
      BY <1>6, <3>1
    <3>2. CASE i # n + 1
      <4>1. i \in 1 .. n
        BY <3>2
      <4>2. arrived[i] \in 0 .. total
        BY <1>3, <4>1
      <4> QED  BY <1>6, <4>1, <4>2
    <3> QED  BY <3>1, <3>2
  <2> QED  BY <1>5, <2>1
<1>8. grown[1] = 0 /\ grown[n + 1] = more
  BY <1>1, <1>3, <1>6
<1>9. ASSUME NEW i \in 2 .. n + 1
      PROVE  /\ grown[i] = grown[i - 1] + Len(events[i].chunks)
             /\ \A j \in DOMAIN events[i].chunks :
                   events[i].chunks[j] = [index |-> grown[i - 1] + j - 1, fits |-> TRUE]
  <2>1. CASE i = n + 1
    <3>1. i - 1 = n /\ n \in 1 .. n
      BY <1>1, <2>1
    <3>2. grown[i - 1] = total
      BY <1>3, <1>6, <3>1
    <3> QED  BY <1>4, <1>6, <2>1, <3>2 DEF GoesOn
  <2>2. CASE i # n + 1
    <3>1. i \in 2 .. n /\ i \in 1 .. n /\ i - 1 \in 1 .. n
      BY <2>2
    <3>2. grown[i] = arrived[i] /\ grown[i - 1] = arrived[i - 1]
      BY <1>6, <3>1
    <3> QED  BY <1>3, <3>1, <3>2
  <2> QED  BY <2>1, <2>2
<1>10. \A i \in 2 .. n + 1 : events[i].kind = "batch" /\ events[i].index = i - 2
  <2>1. ASSUME NEW i \in 2 .. n + 1
        PROVE  events[i].kind = "batch" /\ events[i].index = i - 2
    <3>1. CASE i = n + 1
      BY <3>1
    <3>2. CASE i # n + 1
      <4>1. i \in 2 .. n
        BY <3>2
      <4> QED  BY <1>2, <4>1
    <3> QED  BY <3>1, <3>2
  <2> QED  BY <2>1
<1>11. Whole(events, n + 1, more)
  <2>1. n + 1 >= 1
    OBVIOUS
  <2> QED  BY <1>1, <1>7, <1>8, <1>9, <1>10, <2>1 DEF Whole
<1> QED  BY <1>4, <1>11

\* What a receiver takes after n events.
Accepts(s, event, n) ==
    IF n = 0
    THEN event.kind = "metadata" /\ event.fits /\ event.count <= MaxProcessedChunks
    ELSE event.kind = "batch" /\ event.index = n - 1 /\ GoesOn(event.chunks, Len(s.chunks))

\* An event of either kind.
LEMMA EventKinds ==
    ASSUME NEW event \in Event
    PROVE  \/ event.kind = "metadata" /\ event.count \in Nat /\ event.fits \in BOOLEAN
           \/ /\ event.kind = "batch" /\ event.index \in Nat
              /\ event.chunks \in Seq([index : Nat, fits : BOOLEAN])
BY DEF Event

\* Chunks go on exactly if ReceiveBatch finds nothing wrong with them.
LEMMA GoodChunksGoOn ==
    ASSUME NEW chunks \in Seq([index : Nat, fits : BOOLEAN]), NEW k \in Nat
    PROVE  GoesOn(chunks, k) <=>
              ~\E j \in DOMAIN chunks : \/ k + j - 1 >= MaxProcessedChunks
                                        \/ chunks[j].index # k + j - 1
                                        \/ ~chunks[j].fits
<1>1. \A j \in DOMAIN chunks : chunks[j] \in [index : Nat, fits : BOOLEAN]
  <2>1. PICK Chunks : Chunks = [index : Nat, fits : BOOLEAN]
    OBVIOUS
  <2>2. chunks \in Seq(Chunks)
    BY <2>1
  <2>3. \A j \in DOMAIN chunks : chunks[j] \in Chunks
    BY <2>2
  <2> QED  BY <2>1, <2>3
<1>2. ASSUME NEW j \in DOMAIN chunks
      PROVE  /\ chunks[j] = [index |-> k + j - 1, fits |-> TRUE]
                   <=> ~(chunks[j].index # k + j - 1 \/ ~chunks[j].fits)
             /\ k + j - 1 < MaxProcessedChunks <=> ~(k + j - 1 >= MaxProcessedChunks)
  <2>1. PICK chunk \in [index : Nat, fits : BOOLEAN] : chunk = chunks[j]
    BY <1>1
  <2>2. PICK m : m = k + j - 1
    OBVIOUS
  <2>3. chunk = [index |-> chunk.index, fits |-> chunk.fits] /\ chunk.fits \in BOOLEAN
    OBVIOUS
  <2>4. chunk = [index |-> m, fits |-> TRUE] <=> ~(chunk.index # m \/ ~chunk.fits)
    BY <2>3
  <2>5. j \in Nat
    OBVIOUS
  <2>6. k + j - 1 < MaxProcessedChunks <=> ~(k + j - 1 >= MaxProcessedChunks)
    BY <2>5, StreamAssumption
  <2> QED  BY <2>1, <2>2, <2>4, <2>6
<1> QED  BY <1>2 DEF GoesOn

\* A receiver of which some fields are set.
Expecting(s, count) == [s EXCEPT !.expected = count]
GoingOn(s, next, all) == [s EXCEPT !.nextBatch = next, !.chunks = all]

HasFields(s, expected, next, chunks) ==
    /\ s \in Receiver /\ s.verdict = "none"
    /\ s.expected = expected /\ s.nextBatch = next /\ s.chunks = chunks

LEMMA ExpectingSet ==
    ASSUME NEW s \in Receiver, s.verdict = "none", NEW count \in Int
    PROVE  HasFields(Expecting(s, count), count, s.nextBatch, s.chunks)
BY DEF Receiver, Expecting, HasFields

LEMMA GoingOnSet ==
    ASSUME NEW s \in Receiver, s.verdict = "none", NEW next \in Nat, NEW all \in Seq(Nat)
    PROVE  HasFields(GoingOn(s, next, all), s.expected, next, all)
BY DEF Receiver, GoingOn, HasFields

\* The metadata, as the first event.
LEMMA MetadataTaken ==
    ASSUME NEW events \in Seq(Event), 0 < Len(events),
           NEW s \in Receiver, s.verdict = "none", Taken(s, events, 0),
           Accepts(s, events[1], 0),
           NEW t, t = ReceiveEvent(s, events[1])
    PROVE  /\ t \in Receiver /\ t.verdict = "none" /\ Taken(t, events, 1)
           /\ Len(t.chunks) = 0
<1>1. 1 \in 1 .. Len(events) /\ events[1] \in Event
  OBVIOUS
<1>2. /\ events[1].kind = "metadata" /\ events[1].count \in Nat
      /\ events[1].fits /\ events[1].count <= MaxProcessedChunks
      /\ ~(events[1].count > MaxProcessedChunks)
  BY <1>1, EventKinds, StreamAssumption DEF Accepts
<1>3. /\ s.nextBatch = 0 /\ s.expected = -1 /\ s.chunks = FirstChunks(Len(s.chunks))
      /\ Len(s.chunks) = 0
  BY DEF Taken
<1>4. t = [s EXCEPT !.expected = events[1].count]
  BY <1>2, <1>3 DEF ReceiveEvent, ReceiveMetadata
<1>5. /\ t \in Receiver /\ t.verdict = "none" /\ t.expected = events[1].count
      /\ t.nextBatch = s.nextBatch /\ t.chunks = s.chunks
  <2>1. PICK count \in Int : count = events[1].count
    BY <1>2
  <2>2. t = Expecting(s, count)
    BY <1>4, <2>1 DEF Expecting
  <2>3. HasFields(t, count, s.nextBatch, s.chunks)
    BY <2>2, ExpectingSet
  <2> QED  BY <2>1, <2>3 DEF HasFields
<1>6. Whole(events, 1, 0)
  <2>1. PICK arrived : arrived = [i \in 1 .. 1 |-> 0]
    OBVIOUS
  <2>2. arrived \in [1 .. 1 -> 0 .. 0] /\ arrived[1] = 0 /\ \A i \in 2 .. 1 : FALSE
    BY <2>1
  <2> QED  BY <1>2, <2>2 DEF Whole
<1>7. Taken(t, events, 1)
  BY <1>3, <1>5, <1>6 DEF Taken
<1> QED  BY <1>3, <1>5, <1>7

\* A batch that goes on.
LEMMA BatchTaken ==
    ASSUME NEW events \in Seq(Event), NEW n \in Nat, n >= 1, n < Len(events),
           NEW s \in Receiver, s.verdict = "none", Taken(s, events, n),
           Accepts(s, events[n + 1], n),
           NEW t, t = ReceiveEvent(s, events[n + 1])
    PROVE  /\ t \in Receiver /\ t.verdict = "none" /\ Taken(t, events, n + 1)
           /\ Len(t.chunks) = Len(s.chunks) + Len(events[n + 1].chunks)
<1>1. 1 \in 1 .. Len(events) /\ n + 1 \in 1 .. Len(events)
  OBVIOUS
<1>2. PICK event \in Event : event = events[n + 1]
  BY <1>1
<1>3. PICK k \in Nat : k = Len(s.chunks)
  BY DEF Receiver
<1>4. event.kind = "batch" /\ event.index = n - 1 /\ GoesOn(event.chunks, k)
  BY <1>2, <1>3 DEF Accepts
<1>5. PICK chunks \in Seq([index : Nat, fits : BOOLEAN]) : chunks = event.chunks
  BY <1>2, <1>4, EventKinds
<1>6. PICK m \in Nat : m = Len(chunks) /\ DOMAIN chunks = 1 .. m
  BY <1>5
<1>7. /\ s.nextBatch = n - 1 /\ s.expected = events[1].count
      /\ s.chunks = FirstChunks(k) /\ Whole(events, n, k)
  BY <1>3 DEF Taken
<1>8. s.expected # -1
  <2>1. events[1].kind = "metadata" /\ events[1] \in Event
    BY <1>1, <1>7 DEF Whole
  <2> QED  BY <1>7, <2>1, EventKinds
<1>9. t = ReceiveBatch(s, chunks)
  BY <1>2, <1>4, <1>5, <1>7, <1>8 DEF ReceiveEvent
<1>10. ~\E j \in DOMAIN chunks : \/ k + j - 1 >= MaxProcessedChunks
                                  \/ chunks[j].index # k + j - 1
                                  \/ ~chunks[j].fits
  BY <1>4, <1>5, GoodChunksGoOn
<1>11. PICK numbers : numbers = [j \in DOMAIN chunks |-> chunks[j].index]
  OBVIOUS
<1>12. t = [s EXCEPT !.nextBatch = s.nextBatch + 1, !.chunks = s.chunks \o numbers]
  BY <1>3, <1>9, <1>10, <1>11 DEF ReceiveBatch
<1>13. numbers = [j \in 1 .. m |-> k + j - 1]
  BY <1>6, <1>10, <1>11
<1>14. s.chunks \o numbers = FirstChunks(k + m)
  BY <1>7, <1>13, ChunksAppended
<1>15. FirstChunks(k + m) \in Seq(Nat) /\ Len(FirstChunks(k + m)) = k + m
  <2>1. k + m \in Nat /\ \A i \in 1 .. k + m : i - 1 \in Nat
    OBVIOUS
  <2> QED  BY <2>1 DEF FirstChunks
<1>16. /\ t \in Receiver /\ t.verdict = "none" /\ t.expected = s.expected
       /\ t.nextBatch = s.nextBatch + 1 /\ t.chunks = FirstChunks(k + m)
  <2>1. PICK next \in Nat, all \in Seq(Nat) :
           next = s.nextBatch + 1 /\ all = FirstChunks(k + m)
    BY <1>7, <1>15
  <2>2. t = GoingOn(s, next, all)
    BY <1>12, <1>14, <2>1 DEF GoingOn
  <2>3. HasFields(t, s.expected, next, all)
    BY <2>2, GoingOnSet
  <2> QED  BY <2>1, <2>3 DEF HasFields
<1>17. Len(t.chunks) = k + m
  BY <1>15, <1>16
<1>18. Whole(events, n + 1, k + m)
  BY <1>2, <1>4, <1>5, <1>6, <1>7, WholeGrows
<1>19. Taken(t, events, n + 1)
  <2>1. n + 1 # 0 /\ t.nextBatch = (n + 1) - 1 /\ t.expected = events[1].count
    BY <1>7, <1>16
  <2> QED  BY <1>16, <1>17, <1>18, <2>1 DEF Taken
<1> QED  BY <1>2, <1>3, <1>5, <1>6, <1>16, <1>17, <1>19

\* Everything else is rejected.
LEMMA OthersRejected ==
    ASSUME NEW events \in Seq(Event), NEW n \in Nat, n < Len(events),
           NEW s \in Receiver, s.verdict = "none", Taken(s, events, n),
           ~Accepts(s, events[n + 1], n),
           NEW t, t = ReceiveEvent(s, events[n + 1])
    PROVE  t \in Receiver /\ t.verdict = "permanent"
<1>1. n + 1 \in 1 .. Len(events) /\ 1 \in 1 .. Len(events)
  OBVIOUS
<1>2. PICK event \in Event : event = events[n + 1]
  BY <1>1
<1>3. t = Rejected(s)
  <2>1. CASE n = 0
    <3>1. s.expected = -1
      BY <2>1 DEF Taken
    <3>2. CASE event.kind # "metadata"
      BY <1>2, <3>1, <3>2 DEF ReceiveEvent
    <3>3. CASE event.kind = "metadata"
      <4>1. event.count \in Nat /\ (~event.fits \/ ~(event.count <= MaxProcessedChunks))
        BY <1>2, <2>1, <3>3, EventKinds DEF Accepts
      <4>2. ~event.fits \/ event.count > MaxProcessedChunks
        BY <4>1, StreamAssumption
      <4> QED  BY <1>2, <3>3, <4>2 DEF ReceiveEvent, ReceiveMetadata
    <3> QED  BY <3>2, <3>3
  <2>2. CASE n # 0
    <3>1. s.nextBatch = n - 1 /\ s.expected # -1
      <4>1. events[1].kind = "metadata" /\ events[1] \in Event
        BY <1>1, <2>2 DEF Taken, Whole
      <4> QED  BY <2>2, <4>1, EventKinds DEF Taken
    <3>2. CASE event.kind = "metadata"
      BY <1>2, <3>1, <3>2 DEF ReceiveEvent, ReceiveMetadata
    <3>3. CASE event.kind # "metadata" /\ event.index # n - 1
      BY <1>2, <3>1, <3>3 DEF ReceiveEvent
    <3>4. CASE event.kind # "metadata" /\ event.index = n - 1
      <4>1. event.kind = "batch" /\ event.chunks \in Seq([index : Nat, fits : BOOLEAN])
        BY <1>2, <3>4, EventKinds
      <4>2. ~GoesOn(event.chunks, Len(s.chunks)) /\ Len(s.chunks) \in Nat
        BY <1>2, <2>2, <3>4, <4>1 DEF Accepts, Receiver
      <4>3. \E j \in DOMAIN event.chunks : \/ Len(s.chunks) + j - 1 >= MaxProcessedChunks
                                            \/ event.chunks[j].index # Len(s.chunks) + j - 1
                                            \/ ~event.chunks[j].fits
        BY <4>1, <4>2, GoodChunksGoOn
      <4>4. ReceiveBatch(s, event.chunks) = Rejected(s)
        BY <4>3 DEF ReceiveBatch
      <4> QED  BY <1>2, <3>1, <3>4, <4>4 DEF ReceiveEvent
    <3> QED  BY <3>2, <3>3, <3>4
  <2> QED  BY <2>1, <2>2
<1> QED  BY <1>3 DEF Rejected, Receiver

\* A stream that has been taken for a whole document.
Complete(stream, s) ==
    /\ stream.end = "EOF"
    /\ Whole(stream.events, Len(stream.events), stream.events[1].count)
    /\ s.chunks = [i \in 1 .. stream.events[1].count |-> i - 1]

\* The receiver after n events of any stream.
ReceivedSoFar(stream, n, s) ==
    /\ n \in 0 .. Len(stream.events) /\ s \in Receiver
    /\ s.verdict = "none" => Taken(s, stream.events, n)
    /\ s.verdict = "extracted" => Complete(stream, s)

LEMMA NothingReceived ==
    ASSUME NEW stream \in Stream
    PROVE  ReceivedSoFar(stream, 0, Waiting)
<1>1. PICK events \in Seq(Event) : events = stream.events
  BY DEF Stream
<1>2. 0 \in 0 .. Len(events) /\ Waiting \in Receiver /\ Waiting.verdict = "none"
  BY DEF Waiting, Receiver
<1>3. Taken(Waiting, events, 0)
  <2>1. Waiting.chunks = <<>> /\ FirstChunks(0) = <<>> /\ Len(<<>>) = 0
    BY DEF Waiting, FirstChunks
  <2> QED  BY <2>1 DEF Waiting, Taken
<1> QED  BY <1>1, <1>2, <1>3 DEF ReceivedSoFar

LEMMA EventReceived ==
    ASSUME NEW stream \in Stream, NEW n \in Nat, n < Len(stream.events), NEW s,
           ReceivedSoFar(stream, n, s), s.verdict = "none"
    PROVE  ReceivedSoFar(stream, n + 1, ReceiveEvent(s, stream.events[n + 1]))
<1>1. PICK events \in Seq(Event) : events = stream.events
  BY DEF Stream
<1>2. PICK t : t = ReceiveEvent(s, events[n + 1])
  OBVIOUS
<1>3. s \in Receiver /\ Taken(s, events, n)
  BY <1>1 DEF ReceivedSoFar
<1>4. n < Len(events) /\ n + 1 \in 0 .. Len(events)
  BY <1>1
<1>5. /\ t \in Receiver /\ t.verdict # "extracted"
      /\ t.verdict = "none" => Taken(t, events, n + 1)
  <2>1. CASE ~Accepts(s, events[n + 1], n)
    <3>1. t \in Receiver /\ t.verdict = "permanent"
      BY <1>2, <1>3, <1>4, <2>1, OthersRejected
    <3> QED  BY <3>1
  <2>2. CASE n = 0 /\ Accepts(s, events[n + 1], n)
    <3>1. n + 1 = 1 /\ 0 < Len(events)
      BY <1>4, <2>2
    <3>2. Accepts(s, events[1], 0) /\ Taken(s, events, 0)
      BY <1>3, <2>2, <3>1
    <3>3. t \in Receiver /\ t.verdict = "none" /\ Taken(t, events, 1)
      BY <1>2, <1>3, <3>1, <3>2, MetadataTaken
    <3> QED  BY <3>1, <3>3
  <2>3. CASE n # 0 /\ Accepts(s, events[n + 1], n)
    <3>1. n >= 1
      BY <2>3
    <3>2. t \in Receiver /\ t.verdict = "none" /\ Taken(t, events, n + 1)
      BY <1>2, <1>3, <1>4, <2>3, <3>1, BatchTaken
    <3> QED  BY <3>2
  <2> QED  BY <2>1, <2>2, <2>3
<1> QED  BY <1>1, <1>2, <1>4, <1>5 DEF ReceivedSoFar

\* At the end, what is extracted is whole.
LEMMA EndReceived ==
    ASSUME NEW stream \in Stream, NEW n, n = Len(stream.events), NEW s,
           ReceivedSoFar(stream, n, s), s.verdict = "none"
    PROVE  ReceivedSoFar(stream, n, ReceiveEnd(s, stream.end))
<1>1. PICK events, end : /\ events = stream.events /\ end = stream.end
                         /\ events \in Seq(Event)
  BY DEF Stream
<1>2. PICK t : t = ReceiveEnd(s, end)
  OBVIOUS
<1>3. s \in Receiver /\ Taken(s, events, n) /\ n \in 0 .. Len(events)
  BY <1>1 DEF ReceivedSoFar
<1>4. PICK verdict \in {"extracted", "permanent", "retryable"} :
         /\ t = [s EXCEPT !.verdict = verdict]
         /\ verdict = "extracted" => end = "EOF" /\ AtEOF(s)
  <2>1. ProcessorError(end) \in {"permanent", "retryable"}
    BY DEF ProcessorError
  <2> QED  BY <1>2, <2>1 DEF ReceiveEnd
<1>5. t \in Receiver /\ t.verdict = verdict /\ t.chunks = s.chunks
  BY <1>3, <1>4 DEF Receiver
<1>6. ASSUME verdict = "extracted" PROVE Complete(stream, t)
  <2>1. end = "EOF" /\ s.expected # -1 /\ Len(s.chunks) = s.expected
    BY <1>4, <1>6 DEF AtEOF
  <2>2. n # 0
    BY <1>3, <2>1 DEF Taken
  <2>3. /\ s.expected = events[1].count /\ s.chunks = FirstChunks(Len(s.chunks))
        /\ Whole(events, n, Len(s.chunks))
    BY <1>3, <2>2 DEF Taken
  <2>4. Whole(events, n, events[1].count) /\ s.chunks = FirstChunks(events[1].count)
    BY <2>1, <2>3
  <2> QED  BY <1>1, <1>5, <2>1, <2>4 DEF Complete, FirstChunks
<1> QED  BY <1>1, <1>2, <1>3, <1>4, <1>5, <1>6 DEF ReceivedSoFar

\* The batches of Process.

LEMMA BatchNumbers ==
    ASSUME NEW i \in Nat
    PROVE  /\ i * BatchSize \in Nat
           /\ (i + 1) * BatchSize = i * BatchSize + BatchSize
<1>1. BatchSize \in Nat
  BY StreamAssumption
<1> QED  BY <1>1

\* If there is a batch, there are all those before it.
LEMMA EarlierBatches ==
    ASSUME NEW count \in Nat, NEW sent \in Nat, HasBatch(count, sent - 1),
           NEW i \in Nat, i < sent
    PROVE  HasBatch(count, i)
<1>1. PICK k \in Nat, last \in Nat : k = sent - 1 - i /\ last = sent - 1
  OBVIOUS
<1>2. BatchSize \in Nat
  BY StreamAssumption
<1>3. last = i + k /\ last * BatchSize < count
  BY <1>1 DEF HasBatch
<1>4. (i + k) * BatchSize = i * BatchSize + k * BatchSize /\ k * BatchSize >= 0
  BY <1>2
<1>5. i * BatchSize \in Nat /\ k * BatchSize \in Nat
  BY <1>2
<1>6. i * BatchSize < count
  BY <1>3, <1>4, <1>5
<1> QED  BY <1>6 DEF HasBatch

UnfitBatch(run, i) == \E c \in ToSet(BatchAt(run.count, run.unfit, i).chunks) : ~c.fits

\* The i-th batch of a run, counted from 0: its chunks go on from i * BatchSize,
\* unless one does not fit.
LEMMA BatchSent ==
    ASSUME NEW run, run.count \in Nat, run.unfit \in SUBSET Nat,
           NEW i \in Nat, HasBatch(run.count, i),
           NEW batch, batch = BatchAt(run.count, run.unfit, i)
    PROVE  /\ batch \in Event /\ batch.kind = "batch" /\ batch.index = i
           /\ Len(batch.chunks) = IF HasBatch(run.count, i + 1) THEN BatchSize
                                  ELSE run.count - i * BatchSize
           /\ run.count <= MaxProcessedChunks =>
                 (GoesOn(batch.chunks, i * BatchSize) <=> ~UnfitBatch(run, i))
<1>1. PICK first \in Nat, count \in Nat, unfit \in SUBSET Nat :
         /\ first = i * BatchSize /\ count = run.count /\ unfit = run.unfit
         /\ (i + 1) * BatchSize = first + BatchSize
  BY BatchNumbers
<1>2. BatchSize \in Nat /\ first < count
  BY <1>1, StreamAssumption DEF HasBatch
<1>3. PICK size : size = IF first + BatchSize <= count THEN BatchSize ELSE count - first
  OBVIOUS
<1>4. size \in Nat /\ size = IF HasBatch(count, i + 1) THEN BatchSize ELSE count - first
  <2>1. HasBatch(count, i + 1) <=> first + BatchSize < count
    BY <1>1 DEF HasBatch
  <2>2. CASE first + BatchSize < count
    BY <1>2, <1>3, <2>1, <2>2
  <2>3. CASE first + BatchSize = count
    BY <1>2, <1>3, <2>1, <2>3
  <2>4. CASE first + BatchSize > count
    BY <1>2, <1>3, <2>1, <2>4
  <2> QED  BY <1>2, <2>2, <2>3, <2>4
<1>5. PICK chunks : chunks = [j \in 1 .. size |->
                                [index |-> first + j - 1, fits |-> first + j - 1 \notin unfit]]
  OBVIOUS
<1>6. batch = [kind |-> "batch", index |-> i, chunks |-> chunks]
  BY <1>1, <1>3, <1>5 DEF BatchAt, Batch
<1>7. \A j \in 1 .. size : /\ first + j - 1 \in Nat
                           /\ chunks[j] = [index |-> first + j - 1, fits |-> first + j - 1 \notin unfit]
                           /\ chunks[j] \in [index : Nat, fits : BOOLEAN]
  <2> TAKE j \in 1 .. size
  <2>1. first + j - 1 \in Nat
    BY <1>4
  <2>2. chunks[j] = [index |-> first + j - 1, fits |-> first + j - 1 \notin unfit]
    BY <1>5
  <2>3. PICK k \in Nat, fits \in BOOLEAN : k = first + j - 1 /\ fits = (first + j - 1 \notin unfit)
    BY <2>1
  <2>4. [index |-> k, fits |-> fits] \in [index : Nat, fits : BOOLEAN]
    OBVIOUS
  <2>5. chunks[j] = [index |-> k, fits |-> fits]
    BY <2>2, <2>3
  <2> QED  BY <2>1, <2>2, <2>4, <2>5
<1>8. chunks \in Seq([index : Nat, fits : BOOLEAN]) /\ Len(chunks) = size /\ DOMAIN chunks = 1 .. size
  <2>1. PICK Chunks : Chunks = [index : Nat, fits : BOOLEAN]
    OBVIOUS
  <2>2. PICK at : at = [j \in 1 .. size |-> chunks[j]]
    OBVIOUS
  <2>3. chunks = at
    BY <1>5, <2>2
  <2>4. \A j \in 1 .. size : chunks[j] \in Chunks
    BY <1>7, <2>1
  <2>5. at \in Seq(Chunks) /\ Len(at) = size /\ DOMAIN at = 1 .. size
    BY <1>4, <2>2, <2>4
  <2> QED  BY <2>1, <2>3, <2>5
<1>9. batch \in Event /\ batch.kind = "batch" /\ batch.index = i /\ batch.chunks = chunks
  BY <1>6, <1>8 DEF Event
<1>10. ASSUME count <= MaxProcessedChunks
       PROVE  GoesOn(chunks, first) <=> ~\E j \in 1 .. size : ~chunks[j].fits
  <2>1. ASSUME NEW j \in 1 .. size PROVE chunks[j].index = first + j - 1
    <3>1. PICK k, fits : /\ k = first + j - 1 /\ fits = (k \notin unfit)
                         /\ chunks[j] = [index |-> k, fits |-> fits]
      BY <1>7
    <3> QED  BY <3>1
  <2>2. \A j \in 1 .. size : ~(first + j - 1 >= MaxProcessedChunks)
    <3>1. size <= count - first
      BY <1>2, <1>3
    <3>2. first + size <= MaxProcessedChunks
      BY <1>2, <1>4, <1>10, <3>1, StreamAssumption
    <3> QED  BY <1>4, <3>2, StreamAssumption
  <2> QED  BY <1>8, <2>1, <2>2, GoodChunksGoOn
<1>11. UnfitBatch(run, i) <=> \E j \in 1 .. size : ~chunks[j].fits
  <2>1. UnfitBatch(run, i) <=> \E c \in ToSet(chunks) : ~c.fits
    BY <1>9 DEF UnfitBatch
  <2>2. ToSet(chunks) = {chunks[j] : j \in 1 .. size}
    BY <1>8 DEF ToSet
  <2> QED  BY <2>1, <2>2
<1> QED  BY <1>1, <1>4, <1>8, <1>9, <1>10, <1>11

\* What Process sends.
LEMMA ProcessSends ==
    ASSUME NEW run \in Runs
    PROVE  /\ Process(run) \in Stream /\ Process(run).end = End(run.stop)
           /\ run.count \in Nat /\ run.unfit \in SUBSET Nat /\ run.fits \in BOOLEAN
           /\ run.sent = -1 => Process(run).events = <<>>
           /\ run.sent # -1 =>
                 /\ run.sent \in Nat /\ Len(Process(run).events) = run.sent + 1
                 /\ Process(run).events[1] = Metadata(run.count, run.fits)
                 /\ \A i \in Nat : i < run.sent =>
                       /\ HasBatch(run.count, i)
                       /\ Process(run).events[i + 2] = BatchAt(run.count, run.unfit, i)
<1>1. run \in ProcessorRun /\ Possible(run)
  BY StreamsAssumption
<1>2. PICK count, fits, unfit, sent, stop :
         /\ count = run.count /\ fits = run.fits /\ unfit = run.unfit
         /\ sent = run.sent /\ stop = run.stop
         /\ count \in Nat /\ fits \in BOOLEAN /\ unfit \in SUBSET Nat /\ sent \in Int
  BY <1>1 DEF ProcessorRun
<1>3. sent # -1 => sent \in Nat /\ (sent > 0 => HasBatch(count, sent - 1))
  BY <1>1, <1>2 DEF Possible
<1>4. Process(run).end = End(run.stop) /\ End(stop) \in {"EOF", "INVALID_ARGUMENT", "UNAVAILABLE"}
  BY DEF Process, End
<1>5. CASE sent = -1
  <2>1. Process(run).events = <<>>
    BY <1>2, <1>5 DEF Process
  <2>2. Process(run) = [events |-> <<>>, end |-> End(run.stop)]
    BY <1>2, <1>5 DEF Process
  <2>3. Process(run) \in Stream
    BY <1>2, <1>4, <2>2 DEF Stream
  <2> QED  BY <1>2, <1>4, <1>5, <2>1, <2>3
<1>6. CASE sent # -1
  <2>1. sent \in Nat /\ \A i \in Nat : i < sent => HasBatch(count, i)
    BY <1>2, <1>3, <1>6, EarlierBatches
  <2>2. PICK head : head = <<Metadata(count, fits)>>
    OBVIOUS
  <2>3. head \in Seq(Event) /\ Len(head) = 1 /\ head[1] = Metadata(count, fits)
    BY <1>2, <2>2 DEF Metadata, Event
  <2>4. PICK tail : tail = [i \in 1 .. sent |-> BatchAt(count, unfit, i - 1)]
    OBVIOUS
  <2>5. tail \in Seq(Event) /\ Len(tail) = sent
    <3>1. ASSUME NEW i \in 1 .. sent PROVE BatchAt(count, unfit, i - 1) \in Event
      <4>1. i - 1 \in Nat /\ HasBatch(count, i - 1)
        BY <2>1
      <4> QED  BY <1>2, <4>1, BatchSent
    <3> QED  BY <2>1, <2>4, <3>1
  <2>6. PICK events : events = head \o tail
    OBVIOUS
  <2>7. /\ events \in Seq(Event) /\ Len(events) = sent + 1 /\ events[1] = head[1]
        /\ \A i \in Nat : i < sent => events[i + 2] = tail[i + 1]
    <3>1. /\ events \in Seq(Event) /\ Len(events) = Len(head) + Len(tail)
          /\ \A i \in 1 .. Len(head) + Len(tail) :
                events[i] = IF i <= Len(head) THEN head[i] ELSE tail[i - Len(head)]
      BY <2>3, <2>5, <2>6, ConcatProperties
    <3>2. /\ Len(events) = 1 + sent
          /\ \A i \in 1 .. 1 + sent : events[i] = IF i <= 1 THEN head[i] ELSE tail[i - 1]
      BY <2>3, <2>5, <3>1
    <3>3. ASSUME NEW i \in Nat, i < sent PROVE events[i + 2] = tail[i + 1]
      <4>1. PICK k \in Nat, m \in Nat : k = i + 2 /\ m = i + 1
        OBVIOUS
      <4>2. k \in 1 .. 1 + sent /\ ~(k <= 1) /\ k - 1 = m
        BY <2>1, <3>3, <4>1
      <4>3. events[k] = tail[m]
        BY <3>2, <4>2
      <4> QED  BY <4>1, <4>3
    <3>4. 1 \in 1 .. 1 + sent
      BY <2>1
    <3> QED  BY <2>1, <3>1, <3>2, <3>3, <3>4
  <2>8. Process(run) = [events |-> events, end |-> End(stop)]
    BY <1>2, <1>6, <2>2, <2>4, <2>6 DEF Process
  <2>9. Process(run).events = events /\ Process(run) \in Stream
    BY <1>4, <2>7, <2>8 DEF Stream
  <2>10. \A i \in Nat : i < sent => events[i + 2] = BatchAt(count, unfit, i)
    <3>1. ASSUME NEW i \in Nat, i < sent PROVE events[i + 2] = BatchAt(count, unfit, i)
      <4>1. PICK m \in Nat : m = i + 1 /\ m \in 1 .. sent /\ m - 1 = i
        BY <2>1, <3>1
      <4>2. tail[m] = BatchAt(count, unfit, i)
        BY <2>4, <4>1
      <4> QED  BY <2>7, <3>1, <4>1, <4>2
    <3> QED  BY <3>1
  <2> QED  BY <1>2, <1>4, <1>6, <2>1, <2>3, <2>7, <2>9, <2>10
<1> QED  BY <1>5, <1>6

LEMMA UnfitAmongSent ==
    ASSUME NEW run \in Runs
    PROVE  UnfitSent(run) <=> \E i \in Nat : i < run.sent /\ UnfitBatch(run, i)
<1>1. run.sent \in Int
  BY StreamsAssumption DEF ProcessorRun
<1>2. ASSUME NEW i \in 1 .. run.sent, UnfitBatch(run, i - 1)
      PROVE  \E k \in Nat : k < run.sent /\ UnfitBatch(run, k)
  <2>1. i - 1 \in Nat /\ i - 1 < run.sent
    BY <1>1
  <2> QED  BY <1>2, <2>1
<1>3. ASSUME NEW k \in Nat, k < run.sent, UnfitBatch(run, k)
      PROVE  \E i \in 1 .. run.sent : UnfitBatch(run, i - 1)
  <2>1. k + 1 \in 1 .. run.sent /\ (k + 1) - 1 = k
    BY <1>1, <1>3
  <2> QED  BY <1>3, <2>1
<1>4. UnfitSent(run) <=> \E i \in 1 .. run.sent : UnfitBatch(run, i - 1)
  BY DEF UnfitSent, UnfitBatch
<1> QED  BY <1>2, <1>3, <1>4

\* The verdict on a run.
RightVerdict(run, verdict) ==
    /\ verdict = "extracted" <=> run.stop = "complete" /\ ~Oversize(run)
    /\ run.stop = "invalid" => verdict = "permanent"
    /\ run.stop \in {"refused", "failed", "lost"} /\ ~Oversize(run) => verdict = "retryable"

\* What is rejected of a run is beyond the limits, and then the verdict is right.
LEMMA OversizeRejected ==
    ASSUME NEW run, Oversize(run)
    PROVE  RightVerdict(run, "permanent")
BY DEF RightVerdict

\* How many chunks there are after the metadata and i batches.
ChunksSent(run, i) == IF HasBatch(run.count, i) THEN i * BatchSize ELSE run.count

\* The receiver after n events of a run: all it has rejected is beyond the limits.
RunSoFar(run, n, s) ==
    /\ s.verdict = "none" =>
          /\ n >= 1 => Len(s.chunks) = ChunksSent(run, n - 1)
          /\ \A i \in Nat : i + 1 < n => ~UnfitBatch(run, i)
    /\ s.verdict # "none" => RightVerdict(run, s.verdict)

LEMMA RunStarts ==
    ASSUME NEW run
    PROVE  RunSoFar(run, 0, Waiting)
BY DEF RunSoFar, Waiting

\* The metadata is the first event, and rejected only beyond the limits.
LEMMA RunMetadata ==
    ASSUME NEW run \in Runs, 0 < Len(Process(run).events), NEW s,
           ReceivedSoFar(Process(run), 0, s), s.verdict = "none", RunSoFar(run, 0, s)
    PROVE  RunSoFar(run, 1, ReceiveEvent(s, Process(run).events[1]))
<1>1. PICK events \in Seq(Event) : events = Process(run).events
  BY ProcessSends DEF Stream
<1>2. run.sent # -1
  BY ProcessSends
<1>3. /\ events[1].kind = "metadata" /\ events[1].count = run.count /\ events[1].fits = run.fits
      /\ run.count \in Nat /\ run.sent \in Nat
  <2>1. events[1] = Metadata(run.count, run.fits) /\ run.count \in Nat /\ run.sent \in Nat
    BY <1>1, <1>2, ProcessSends
  <2> QED  BY <2>1 DEF Metadata
<1>4. s \in Receiver /\ Taken(s, events, 0) /\ 0 < Len(events)
  BY <1>1 DEF ReceivedSoFar
<1>5. PICK t : t = ReceiveEvent(s, events[1])
  OBVIOUS
<1>6. CASE Accepts(s, events[1], 0)
  <2>1. t.verdict = "none" /\ Len(t.chunks) = 0
    BY <1>4, <1>5, <1>6, MetadataTaken
  <2>2. ChunksSent(run, 0) = 0
    <3>1. 0 * BatchSize = 0
      BY StreamAssumption
    <3> QED  BY <1>3, <3>1 DEF ChunksSent, HasBatch
  <2>3. \A i \in Nat : ~(i + 1 < 1)
    OBVIOUS
  <2>4. 1 - 1 = 0
    OBVIOUS
  <2> QED  BY <1>1, <1>5, <2>1, <2>2, <2>3, <2>4 DEF RunSoFar
<1>7. CASE ~Accepts(s, events[1], 0)
  <2>1. ~run.fits \/ ~(run.count <= MaxProcessedChunks)
    BY <1>3, <1>7 DEF Accepts
  <2>2. Oversize(run)
    <3>1. ~(run.count <= MaxProcessedChunks) => run.count > MaxProcessedChunks
      BY <1>3, StreamAssumption
    <3>2. run.sent >= 0
      BY <1>3
    <3> QED  BY <2>1, <3>1, <3>2 DEF Oversize
  <2>3. 0 + 1 = 1
    OBVIOUS
  <2>4. t.verdict = "permanent"
    BY <1>4, <1>5, <1>7, <2>3, OthersRejected
  <2> QED  BY <1>1, <1>5, <2>2, <2>4, OversizeRejected DEF RunSoFar
<1> QED  BY <1>6, <1>7

\* Every other event is a batch, and rejected only for a chunk that does not fit.
LEMMA RunBatch ==
    ASSUME NEW run \in Runs, NEW n \in Nat, n >= 1, n < Len(Process(run).events), NEW s,
           ReceivedSoFar(Process(run), n, s), s.verdict = "none", RunSoFar(run, n, s)
    PROVE  RunSoFar(run, n + 1, ReceiveEvent(s, Process(run).events[n + 1]))
<1>1. PICK events \in Seq(Event) : events = Process(run).events
  BY ProcessSends DEF Stream
<1>2. PICK m \in Nat : m = n - 1
  OBVIOUS
<1>3. run.sent # -1
  <2>1. CASE run.sent = -1
    <3>1. events = <<>>
      BY <1>1, <2>1, ProcessSends
    <3> QED  BY <1>1, <3>1
  <2> QED  BY <2>1
<1>4. run.sent \in Nat /\ Len(events) = run.sent + 1 /\ m < run.sent
  BY <1>1, <1>2, <1>3, ProcessSends
<1>5. /\ HasBatch(run.count, m) /\ events[m + 2] = BatchAt(run.count, run.unfit, m)
      /\ run.count \in Nat /\ run.unfit \in SUBSET Nat
  BY <1>1, <1>3, <1>4, ProcessSends
<1>6. PICK batch : batch = BatchAt(run.count, run.unfit, m)
  OBVIOUS
<1>7. events[n + 1] = batch
  <2>1. n + 1 = m + 2
    BY <1>2
  <2> QED  BY <1>5, <1>6, <2>1
<1>8. /\ batch.kind = "batch" /\ batch.index = m
      /\ Len(batch.chunks) = IF HasBatch(run.count, m + 1) THEN BatchSize
                             ELSE run.count - m * BatchSize
      /\ run.count <= MaxProcessedChunks =>
            (GoesOn(batch.chunks, m * BatchSize) <=> ~UnfitBatch(run, m))
  BY <1>5, <1>6, BatchSent
<1>9. /\ s \in Receiver /\ Taken(s, events, n) /\ n < Len(events)
      /\ run.count <= MaxProcessedChunks
  <2>1. s \in Receiver /\ Taken(s, events, n) /\ n < Len(events)
    BY <1>1 DEF ReceivedSoFar
  <2>2. events[1] = Metadata(run.count, run.fits)
    BY <1>1, <1>3, ProcessSends
  <2>3. events[1].count <= MaxProcessedChunks
    BY <2>1 DEF Taken, Whole
  <2> QED  BY <2>1, <2>2, <2>3 DEF Metadata
<1>10. Len(s.chunks) = m * BatchSize
  BY <1>2, <1>5 DEF RunSoFar, ChunksSent
<1>11. Accepts(s, batch, n) <=> ~UnfitBatch(run, m)
  BY <1>2, <1>8, <1>9, <1>10 DEF Accepts
<1>12. PICK t : t = ReceiveEvent(s, events[n + 1])
  OBVIOUS
<1>13. CASE UnfitBatch(run, m)
  <2>1. ~Accepts(s, events[n + 1], n)
    BY <1>7, <1>11, <1>13
  <2>2. t.verdict = "permanent"
    BY <1>9, <1>12, <2>1, OthersRejected
  <2>3. Oversize(run)
    <3>1. UnfitSent(run)
      BY <1>4, <1>13, UnfitAmongSent
    <3>2. run.sent >= 0
      BY <1>4
    <3> QED  BY <3>1, <3>2 DEF Oversize
  <2>4. RightVerdict(run, t.verdict)
    BY <2>2, <2>3, OversizeRejected
  <2> QED  BY <1>1, <1>12, <2>2, <2>4 DEF RunSoFar
<1>14. CASE ~UnfitBatch(run, m)
  <2>1. Accepts(s, events[n + 1], n)
    BY <1>7, <1>11, <1>14
  <2>2. t.verdict = "none" /\ Len(t.chunks) = Len(s.chunks) + Len(batch.chunks)
    BY <1>7, <1>9, <1>12, <2>1, BatchTaken
  <2>3. Len(t.chunks) = ChunksSent(run, n)
    <3>1. n = m + 1
      BY <1>2
    <3>2. m * BatchSize \in Nat /\ (m + 1) * BatchSize = m * BatchSize + BatchSize
      BY BatchNumbers
    <3>3. PICK first \in Nat : first = m * BatchSize
      BY <3>2
    <3>4. CASE HasBatch(run.count, m + 1)
      BY <1>8, <1>10, <2>2, <3>1, <3>2, <3>4 DEF ChunksSent
    <3>5. CASE ~HasBatch(run.count, m + 1)
      <4>1. Len(t.chunks) = first + (run.count - first)
        BY <1>8, <1>10, <2>2, <3>3, <3>5
      <4> QED  BY <1>5, <3>1, <3>5, <4>1 DEF ChunksSent
    <3> QED  BY <3>4, <3>5
  <2>4. ASSUME NEW i \in Nat, i + 1 < n + 1 PROVE ~UnfitBatch(run, i)
    <3>1. CASE i = m
      BY <1>14, <3>1
    <3>2. CASE i # m
      <4>1. i + 1 < n
        BY <1>2, <2>4, <3>2
      <4> QED  BY <4>1 DEF RunSoFar
    <3> QED  BY <3>1, <3>2
  <2>5. (n + 1) - 1 = n
    OBVIOUS
  <2> QED  BY <1>1, <1>12, <2>2, <2>3, <2>4, <2>5 DEF RunSoFar
<1> QED  BY <1>13, <1>14

\* The end of a run.
LEMMA RunEnds ==
    ASSUME NEW run \in Runs, NEW n, n = Len(Process(run).events), NEW s,
           ReceivedSoFar(Process(run), n, s), s.verdict = "none", RunSoFar(run, n, s)
    PROVE  RunSoFar(run, n, ReceiveEnd(s, Process(run).end))
<1>1. PICK events, end : /\ events = Process(run).events /\ end = Process(run).end
                         /\ events \in Seq(Event)
  BY ProcessSends DEF Stream
<1>2. s \in Receiver /\ Taken(s, events, n) /\ n \in Nat
  BY <1>1 DEF ReceivedSoFar
<1>3. end = End(run.stop) /\ run.count \in Nat
  BY <1>1, ProcessSends
<1>4. run.stop \in Stops /\ Possible(run) /\ run.sent \in Int
  BY StreamsAssumption DEF ProcessorRun
<1>5. PICK t : t = ReceiveEnd(s, end)
  OBVIOUS
<1>6. t.verdict = IF end # "EOF" THEN ProcessorError(end)
                  ELSE IF AtEOF(s) THEN "extracted" ELSE "permanent"
  BY <1>2, <1>5 DEF ReceiveEnd, Receiver
<1>7. ~Oversize(run)
  <2>1. CASE run.sent = -1
    BY <2>1 DEF Oversize
  <2>2. CASE run.sent # -1
    <3>1. run.sent \in Nat /\ n = run.sent + 1
      BY <1>1, <2>2, ProcessSends
    <3>2. \A i \in Nat : i < run.sent => i + 1 < n
      BY <3>1
    <3>3. \A i \in Nat : i + 1 < n => ~UnfitBatch(run, i)
      BY DEF RunSoFar
    <3>4. events[1] = Metadata(run.count, run.fits)
      BY <1>1, <2>2, ProcessSends
    <3>5. events[1].fits /\ events[1].count <= MaxProcessedChunks
      <4>1. n # 0
        BY <3>1
      <4> QED  BY <1>2, <4>1 DEF Taken, Whole
    <3>6. run.fits /\ run.count <= MaxProcessedChunks
      BY <3>4, <3>5 DEF Metadata
    <3>7. ~(run.count > MaxProcessedChunks)
      BY <1>3, <3>6, StreamAssumption
    <3> QED  BY <3>2, <3>3, <3>6, <3>7, UnfitAmongSent DEF Oversize
  <2> QED  BY <2>1, <2>2
<1>8. CASE run.stop \in {"invalid", "timed out", "refused", "failed", "lost"}
  <2>1. /\ end = IF run.stop \in {"invalid", "timed out"} THEN "INVALID_ARGUMENT" ELSE "UNAVAILABLE"
        /\ end # "EOF"
    BY <1>3, <1>8 DEF End
  <2>2. t.verdict = IF run.stop \in {"invalid", "timed out"} THEN "permanent" ELSE "retryable"
    BY <1>6, <1>8, <2>1 DEF ProcessorError
  <2>3. RightVerdict(run, t.verdict)
    BY <1>7, <1>8, <2>2 DEF RightVerdict
  <2> QED  BY <1>1, <1>5, <1>8, <2>2, <2>3 DEF RunSoFar
<1>9. CASE run.stop \in {"complete", "drained"}
  <2>1. end = "EOF"
    BY <1>3, <1>9 DEF End
  <2>2. run.sent \in Nat /\ (HasBatch(run.count, run.sent) <=> run.stop = "drained")
    BY <1>4, <1>9 DEF Possible
  <2>3. n = run.sent + 1 /\ events[1] = Metadata(run.count, run.fits)
    BY <1>1, <2>2, ProcessSends
  <2>4. n # 0 /\ n >= 1 /\ n - 1 = run.sent
    BY <2>2, <2>3
  <2>5. s.expected = run.count
    BY <1>2, <2>3, <2>4 DEF Taken, Metadata
  <2>6. Len(s.chunks) = ChunksSent(run, run.sent)
    BY <2>4 DEF RunSoFar
  <2>7. AtEOF(s) <=> Len(s.chunks) = run.count
    BY <1>3, <2>5 DEF AtEOF
  <2>8. CASE run.stop = "complete"
    <3>1. t.verdict = "extracted"
      BY <1>6, <2>1, <2>2, <2>6, <2>7, <2>8 DEF ChunksSent
    <3>2. RightVerdict(run, t.verdict)
      BY <1>7, <2>8, <3>1 DEF RightVerdict
    <3> QED  BY <1>1, <1>5, <3>1, <3>2 DEF RunSoFar
  <2>9. CASE run.stop = "drained"
    <3>1. Len(s.chunks) # run.count
      <4>1. run.sent * BatchSize < run.count /\ run.sent * BatchSize \in Nat
        BY <2>2, <2>9, BatchNumbers DEF HasBatch
      <4>2. Len(s.chunks) = run.sent * BatchSize
        BY <2>2, <2>6, <2>9 DEF ChunksSent
      <4> QED  BY <1>3, <4>1, <4>2
    <3>2. t.verdict = "permanent"
      BY <1>6, <2>1, <2>7, <3>1
    <3>3. RightVerdict(run, t.verdict)
      BY <2>9, <1>7, <3>2 DEF RightVerdict
    <3> QED  BY <1>1, <1>5, <3>2, <3>3 DEF RunSoFar
  <2> QED  BY <1>9, <2>8, <2>9
<1> QED  BY <1>4, <1>8, <1>9 DEF Stops

\* Whatever Process sends of a document of any size, in batches of any size, and
\* however it stops: the document is ready exactly if all of it came within the
\* limits, an invalid PDF fails for good and a refused, failed or lost run is
\* tried again; and whatever else arrives, what is extracted is whole.
THEOREM VerdictsRight == Spec => []VerdictIsRight
<1> DEFINE RunInv == algorithm = "run" =>
              \E run \in Runs, n \in Nat :
                 /\ input = [run |-> run, stream |-> Process(run), received |-> n]
                 /\ ReceivedSoFar(Process(run), n, output) /\ RunSoFar(run, n, output)
           ReceiveInv == algorithm = "receive" =>
              \E stream \in Streams, n \in Nat :
                 /\ input = [stream |-> stream, received |-> n]
                 /\ ReceivedSoFar(stream, n, output)
<1>1. Init => RunInv /\ ReceiveInv
  BY DEF Init
<1>2. RunInv /\ ReceiveInv /\ [Next]_vars => RunInv' /\ ReceiveInv'
  <2> SUFFICES ASSUME RunInv, ReceiveInv, [Next]_vars PROVE RunInv' /\ ReceiveInv'
    OBVIOUS
  <2>1. CASE UNCHANGED vars
    BY <2>1 DEF vars
  <2>2. CASE Run
    <3>1. PICK run \in Runs :
             /\ algorithm' = "run" /\ output' = Waiting
             /\ input' = [run |-> run, stream |-> Process(run), received |-> 0]
      BY <2>2 DEF Run, Apply
    <3>2. ReceivedSoFar(Process(run), 0, Waiting) /\ RunSoFar(run, 0, Waiting)
      BY ProcessSends, NothingReceived, RunStarts
    <3> QED  BY <3>1, <3>2
  <2>3. CASE Receive
    <3>1. PICK stream \in Streams :
             /\ algorithm' = "receive" /\ output' = Waiting
             /\ input' = [stream |-> stream, received |-> 0]
      BY <2>3 DEF Receive, Apply
    <3>2. ReceivedSoFar(stream, 0, Waiting)
      BY NothingReceived, StreamsAssumption
    <3> QED  BY <3>1, <3>2
  <2>4. CASE algorithm = "run" /\ NextEvent
    <3>1. PICK run \in Runs, n \in Nat :
             /\ input = [run |-> run, stream |-> Process(run), received |-> n]
             /\ ReceivedSoFar(Process(run), n, output) /\ RunSoFar(run, n, output)
      BY <2>4
    <3>2. PICK stream \in Stream : stream = Process(run)
      BY ProcessSends
    <3>3. input.received = n /\ input.stream = stream
      BY <3>1, <3>2
    <3>4. /\ algorithm' = "run" /\ output.verdict = "none" /\ n < Len(stream.events)
          /\ input' = [input EXCEPT !.received = n + 1]
          /\ output' = ReceiveEvent(output, stream.events[n + 1])
      BY <2>4, <3>3 DEF NextEvent, Apply
    <3>5. input' = [run |-> run, stream |-> Process(run), received |-> n + 1]
      BY <3>1, <3>4
    <3>6. ReceivedSoFar(stream, n + 1, output')
      BY <3>1, <3>2, <3>4, EventReceived
    <3>7. RunSoFar(run, n + 1, output')
      <4>1. CASE n = 0
        <5>1. n + 1 = 1
          BY <4>1
        <5> QED  BY <3>1, <3>2, <3>4, <4>1, <5>1, RunMetadata
      <4>2. CASE n # 0
        <5>1. n >= 1
          BY <4>2
        <5> QED  BY <3>1, <3>2, <3>4, <5>1, RunBatch
      <4> QED  BY <4>1, <4>2
    <3>8. n + 1 \in Nat
      OBVIOUS
    <3> QED  BY <3>2, <3>4, <3>5, <3>6, <3>7, <3>8
  <2>5. CASE algorithm = "receive" /\ NextEvent
    <3>1. PICK stream \in Streams, n \in Nat :
             input = [stream |-> stream, received |-> n] /\ ReceivedSoFar(stream, n, output)
      BY <2>5
    <3>2. stream \in Stream /\ input.received = n /\ input.stream = stream
      BY <3>1, StreamsAssumption
    <3>3. /\ algorithm' = "receive" /\ output.verdict = "none" /\ n < Len(stream.events)
          /\ input' = [input EXCEPT !.received = n + 1]
          /\ output' = ReceiveEvent(output, stream.events[n + 1])
      BY <2>5, <3>2 DEF NextEvent, Apply
    <3>4. input' = [stream |-> stream, received |-> n + 1] /\ n + 1 \in Nat
      BY <3>1, <3>3
    <3>5. ReceivedSoFar(stream, n + 1, output')
      BY <3>1, <3>2, <3>3, EventReceived
    <3> QED  BY <3>3, <3>4, <3>5
  <2>6. CASE algorithm = "run" /\ EndOfStream
    <3>1. PICK run \in Runs, n \in Nat :
             /\ input = [run |-> run, stream |-> Process(run), received |-> n]
             /\ ReceivedSoFar(Process(run), n, output) /\ RunSoFar(run, n, output)
      BY <2>6
    <3>2. PICK stream \in Stream : stream = Process(run)
      BY ProcessSends
    <3>3. input.received = n /\ input.stream = stream
      BY <3>1, <3>2
    <3>4. /\ algorithm' = "run" /\ output.verdict = "none" /\ n = Len(stream.events)
          /\ input' = input /\ output' = ReceiveEnd(output, stream.end)
      BY <2>6, <3>3 DEF EndOfStream, Apply
    <3>5. ReceivedSoFar(stream, n, output')
      BY <3>1, <3>2, <3>4, EndReceived
    <3>6. RunSoFar(run, n, output')
      BY <3>1, <3>2, <3>4, RunEnds
    <3> QED  BY <3>1, <3>2, <3>4, <3>5, <3>6
  <2>7. CASE algorithm = "receive" /\ EndOfStream
    <3>1. PICK stream \in Streams, n \in Nat :
             input = [stream |-> stream, received |-> n] /\ ReceivedSoFar(stream, n, output)
      BY <2>7
    <3>2. stream \in Stream /\ input.received = n /\ input.stream = stream
      BY <3>1, StreamsAssumption
    <3>3. /\ algorithm' = "receive" /\ output.verdict = "none" /\ n = Len(stream.events)
          /\ input' = input /\ output' = ReceiveEnd(output, stream.end)
      BY <2>7, <3>2 DEF EndOfStream, Apply
    <3>4. ReceivedSoFar(stream, n, output')
      BY <3>1, <3>2, <3>3, EndReceived
    <3> QED  BY <3>1, <3>3, <3>4
  <2>8. CASE Chunk \/ BackOff \/ ListPage \/ ServeRange \/ Admit \/ Attempt
    BY <2>8 DEF Chunk, BackOff, ListPage, ServeRange, Admit, Attempt, Apply
  <2>9. CASE algorithm = "chunk" /\ GoOnCutting
    BY <2>9 DEF GoOnCutting
  <2> QED  BY <2>1, <2>2, <2>3, <2>4, <2>5, <2>6, <2>7, <2>8, <2>9 DEF Next
<1>3. RunInv /\ ReceiveInv => VerdictIsRight
  <2> SUFFICES ASSUME RunInv, ReceiveInv PROVE VerdictIsRight
    OBVIOUS
  <2>1. CASE algorithm = "run"
    <3>1. PICK run \in Runs, n \in Nat :
             /\ input = [run |-> run, stream |-> Process(run), received |-> n]
             /\ ReceivedSoFar(Process(run), n, output) /\ RunSoFar(run, n, output)
      BY <2>1
    <3>2. input.run = run /\ input.stream = Process(run)
      BY <3>1
    <3>3. output.verdict = "extracted" => Complete(input.stream, output)
      BY <3>1, <3>2 DEF ReceivedSoFar
    <3>4. output.verdict # "none" => RightVerdict(run, output.verdict)
      BY <3>1 DEF RunSoFar
    <3> QED  BY <2>1, <3>2, <3>3, <3>4 DEF VerdictIsRight, Complete, RightVerdict
  <2>2. CASE algorithm = "receive"
    <3>1. PICK stream \in Streams, n \in Nat :
             input = [stream |-> stream, received |-> n] /\ ReceivedSoFar(stream, n, output)
      BY <2>2
    <3>2. input.stream = stream
      BY <3>1
    <3>3. output.verdict = "extracted" => Complete(input.stream, output)
      BY <3>1, <3>2 DEF ReceivedSoFar
    <3> QED  BY <2>2, <3>3 DEF VerdictIsRight, Complete
  <2>3. CASE algorithm \notin {"run", "receive"}
    BY <2>3 DEF VerdictIsRight
  <2> QED  BY <2>1, <2>2, <2>3
<1> QED  BY <1>1, <1>2, <1>3, PTL DEF Spec

-----------------------------------------------------------------------------
(* The layout of a text.                                                    *)

LEMMA LayoutOfText ==
    ASSUME NEW text, IsText(text), NEW words, words = text.words,
           NEW lengths, lengths = text.lengths
    PROVE  /\ words \in Seq(Word) /\ lengths \in Seq(Nat)
           /\ Len(words) \in Nat \ {0} /\ Len(lengths) \in Nat
           /\ \A i \in 1 .. Len(words) :
                 /\ words[i].page \in 1 .. Len(lengths) /\ words[i].from \in Nat
                 /\ words[i].to \in Nat /\ words[i].from < words[i].to
                 /\ words[i].to <= lengths[words[i].page]
                 /\ words[i].last \in i .. Len(words)
           /\ \A i \in 1 .. Len(words) : \A j \in i .. words[i].last :
                 words[j].last = words[i].last
           /\ \A i, j \in 1 .. Len(words) : i < j =>
                 \/ words[i].page < words[j].page
                 \/ words[i].page = words[j].page /\ words[i].to < words[j].from
<1>1. words \in Seq(Word) /\ lengths \in Seq(Nat) /\ words # <<>>
  BY DEF IsText
<1>2. /\ Len(words) \in Nat \ {0} /\ Len(lengths) \in Nat
      /\ DOMAIN words = 1 .. Len(words) /\ DOMAIN lengths = 1 .. Len(lengths)
  BY <1>1
<1>3. \A i \in 1 .. Len(words) :
         /\ words[i].page \in 1 .. Len(lengths)
         /\ words[i].from < words[i].to /\ words[i].to <= lengths[words[i].page]
         /\ words[i].last \in i .. Len(words)
         /\ \A j \in i .. words[i].last : words[j].last = words[i].last
  BY <1>2 DEF IsText
<1>4. \A i \in 1 .. Len(words) : words[i].from \in Nat /\ words[i].to \in Nat
  <2>1. \A i \in 1 .. Len(words) : words[i] \in Word
    BY <1>1, <1>2
  <2> QED  BY <2>1 DEF Word
<1>5. \A i, j \in 1 .. Len(words) : i < j =>
         \/ words[i].page < words[j].page
         \/ words[i].page = words[j].page /\ words[i].to < words[j].from
  BY <1>2 DEF IsText
<1> QED  BY <1>1, <1>2, <1>3, <1>4, <1>5

\* The pages that have been joined are in order and do not overlap.
PagesJoined(lengths, starts, offset) ==
    /\ starts \in Seq(Nat) /\ offset \in Nat /\ Len(starts) <= Len(lengths)
    /\ \A p \in 1 .. Len(starts) : starts[p] + lengths[p] + 2 <= offset
    /\ \A p, q \in 1 .. Len(starts) : p < q => starts[p] + lengths[p] + 2 <= starts[q]

LEMMA PageJoined ==
    ASSUME NEW lengths \in Seq(Nat), NEW starts, NEW offset,
           PagesJoined(lengths, starts, offset), Len(starts) < Len(lengths)
    PROVE  PagesJoined(lengths, Append(starts, offset), offset + lengths[Len(starts) + 1] + 2)
<1>1. starts \in Seq(Nat) /\ offset \in Nat
  BY DEF PagesJoined
<1>2. PICK n \in Nat : n = Len(starts)
  BY <1>1
<1>3. n + 1 \in 1 .. Len(lengths) /\ lengths[n + 1] \in Nat
  BY <1>2
<1>4. PICK further \in Nat : further = offset + lengths[n + 1] + 2 /\ further >= offset
  BY <1>1, <1>3
<1>5. PICK more : more = Append(starts, offset)
  OBVIOUS
<1>6. /\ more \in Seq(Nat) /\ Len(more) = n + 1 /\ more[n + 1] = offset
      /\ \A p \in 1 .. n : more[p] = starts[p]
  BY <1>1, <1>2, <1>5, AppendProperties
<1>7. \A p \in 1 .. n : starts[p] + lengths[p] + 2 <= offset
  BY <1>2 DEF PagesJoined
<1>8. \A p \in 1 .. n + 1 : more[p] + lengths[p] + 2 <= further
  <2>1. ASSUME NEW p \in 1 .. n + 1 PROVE more[p] + lengths[p] + 2 <= further
    <3>1. CASE p = n + 1
      BY <1>4, <1>6, <3>1
    <3>2. CASE p # n + 1
      <4>1. p \in 1 .. n
        BY <3>2
      <4>2. starts[p] \in Nat /\ lengths[p] \in Nat
        <5>1. p \in 1 .. Len(lengths)
          BY <1>3, <4>1
        <5>2. p \in 1 .. Len(starts)
          BY <1>2, <4>1
        <5>3. starts[p] \in Nat
          BY <1>1, <5>2
        <5>4. lengths[p] \in Nat
          BY <5>1
        <5> QED  BY <5>3, <5>4
      <4>3. more[p] = starts[p] /\ starts[p] + lengths[p] + 2 <= offset
        BY <1>6, <1>7, <4>1
      <4>4. PICK k, l \in Nat : k = starts[p] /\ l = lengths[p]
        BY <4>2
      <4>5. k + l + 2 <= offset
        BY <4>3, <4>4
      <4>6. k + l + 2 <= further
        BY <1>1, <1>4, <4>5
      <4> QED  BY <4>3, <4>4, <4>6
    <3> QED  BY <3>1, <3>2
  <2> QED  BY <2>1
<1>9. \A p, q \in 1 .. n + 1 : p < q => more[p] + lengths[p] + 2 <= more[q]
  <2>1. ASSUME NEW p \in 1 .. n + 1, NEW q \in 1 .. n + 1, p < q
        PROVE  more[p] + lengths[p] + 2 <= more[q]
    <3>1. p \in 1 .. n
      BY <2>1
    <3>2. CASE q = n + 1
      BY <1>6, <1>7, <3>1, <3>2
    <3>3. CASE q # n + 1
      <4>1. q \in 1 .. n
        BY <3>3
      <4> QED  BY <1>2, <1>6, <2>1, <3>1, <4>1 DEF PagesJoined
    <3> QED  BY <3>2, <3>3
  <2> QED  BY <2>1
<1>10. PagesJoined(lengths, more, further)
  <2>1. n + 1 <= Len(lengths)
    BY <1>3
  <2> QED  BY <1>4, <1>6, <1>8, <1>9, <2>1 DEF PagesJoined
<1> QED  BY <1>2, <1>4, <1>5, <1>10

-----------------------------------------------------------------------------
(* The pages of a chunk.                                                    *)

\* Words that come later start later in raw_text, and are not on earlier pages.
LEMMA WordsInOrder ==
    ASSUME NEW text, IsText(text), NEW starts, NEW offset,
           PagesJoined(text.lengths, starts, offset), Len(starts) = Len(text.lengths),
           NEW i \in 1 .. Len(text.words), NEW j \in i .. Len(text.words),
           NEW words, words = text.words
    PROVE  /\ starts[words[i].page] + words[i].from <= starts[words[j].page] + words[j].from
           /\ words[i].page <= words[j].page
<1>1. PICK lengths : lengths = text.lengths
  OBVIOUS
<1>2. /\ Len(words) \in Nat /\ Len(lengths) \in Nat /\ i \in 1 .. Len(words) /\ j \in 1 .. Len(words)
      /\ lengths \in Seq(Nat)
  BY <1>1, LayoutOfText
<1>3. PICK p, q, a, b, e : /\ p = words[i].page /\ q = words[j].page
                           /\ a = words[i].from /\ b = words[j].from /\ e = words[i].to
  OBVIOUS
<1>4. /\ p \in 1 .. Len(lengths) /\ q \in 1 .. Len(lengths)
      /\ a \in Nat /\ b \in Nat /\ e \in Nat /\ a < e /\ e <= lengths[p]
  BY <1>1, <1>2, <1>3, LayoutOfText
<1>5. starts[p] \in Nat /\ starts[q] \in Nat /\ lengths[p] \in Nat
  <2>1. starts \in Seq(Nat) /\ Len(starts) = Len(lengths)
    BY <1>1 DEF PagesJoined
  <2>2. \A k \in 1 .. Len(lengths) : starts[k] \in Nat /\ lengths[k] \in Nat
    BY <1>2, <2>1
  <2> QED  BY <1>4, <2>2
<1>6. CASE i = j
  <2>1. p = q /\ a = b
    BY <1>3, <1>6
  <2>2. starts[p] + a <= starts[q] + b /\ p <= q
    BY <1>4, <1>5, <2>1
  <2> QED  BY <1>3, <2>2
<1>7. CASE i # j
  <2>1. i < j
    BY <1>2, <1>7
  <2>2. p < q \/ (p = q /\ e < b)
    <3>1. \A k, l \in 1 .. Len(words) : k < l =>
             \/ words[k].page < words[l].page
             \/ words[k].page = words[l].page /\ words[k].to < words[l].from
      BY LayoutOfText
    <3>2. \/ words[i].page < words[j].page
          \/ words[i].page = words[j].page /\ words[i].to < words[j].from
      BY <1>2, <2>1, <3>1
    <3> QED  BY <1>3, <3>2
  <2>3. p < q => starts[p] + lengths[p] + 2 <= starts[q]
    BY <1>1, <1>4 DEF PagesJoined
  <2>4. PICK k, l, m \in Nat : k = starts[p] /\ l = starts[q] /\ m = lengths[p]
    BY <1>5
  <2>5. (p < q => k + m + 2 <= l) /\ (p = q => k = l) /\ a < e /\ e <= m
    BY <1>4, <2>3, <2>4
  <2>6. p \in Int /\ q \in Int /\ a \in Nat /\ b \in Nat /\ e \in Nat
    BY <1>4
  <2>7. k + a <= l + b /\ p <= q
    BY <2>2, <2>5, <2>6
  <2> QED  BY <1>3, <2>4, <2>7
<1> QED  BY <1>6, <1>7

\* The pages whose ranges the words from i to j meet.
Covered(text, s, i, j) ==
    {p \in DOMAIN PageRanges(text, s) : /\ PageRanges(text, s)[p].from < EndOf(text, s, j)
                                        /\ PageRanges(text, s)[p].to > StartOf(text, s, i)}

\* The pages whose ranges a span of words meets begin with that of its first word,
\* and end with that of its last one, also behind blank pages.
LEMMA PagesOfSpan ==
    ASSUME NEW text, IsText(text), NEW s,
           PagesJoined(text.lengths, s.starts, s.offset), Joined(text, s),
           NEW i \in 1 .. Len(text.words), NEW j \in i .. Len(text.words),
           NEW covered, covered = Covered(text, s, i, j)
    PROVE  /\ StartOf(text, s, i) \in Int /\ EndOf(text, s, j) \in Int
           /\ covered \subseteq Nat
           /\ text.words[i].page \in covered /\ text.words[j].page \in covered
           /\ \A p \in covered : text.words[i].page <= p /\ p <= text.words[j].page
<1>1. PICK words, lengths, starts :
         words = text.words /\ lengths = text.lengths /\ starts = s.starts
  OBVIOUS
<1>2. /\ Len(words) \in Nat \ {0} /\ Len(lengths) \in Nat /\ lengths \in Seq(Nat)
      /\ i \in 1 .. Len(words) /\ j \in i .. Len(words) /\ j \in 1 .. Len(words)
      /\ 1 \in 1 .. Len(words) /\ i \in 1 .. Len(words)
  BY <1>1, LayoutOfText
<1>3. Len(starts) = Len(lengths) /\ starts \in Seq(Nat)
  BY <1>1 DEF Joined, PagesJoined
<1>4. \A p \in 1 .. Len(lengths) : starts[p] \in Nat /\ lengths[p] \in Nat
  BY <1>2, <1>3
<1>5. \A p, q \in 1 .. Len(lengths) : p < q => starts[p] + lengths[p] + 2 <= starts[q]
  BY <1>1, <1>3 DEF PagesJoined
<1>6. \A k \in 1 .. Len(words) :
         /\ words[k].page \in 1 .. Len(lengths) /\ words[k].from \in Nat
         /\ words[k].to \in Nat /\ words[k].from < words[k].to
         /\ words[k].to <= lengths[words[k].page]
  BY <1>1, LayoutOfText
<1>7. PICK f, g \in 1 .. Len(lengths) : f = words[i].page /\ g = words[j].page
  BY <1>2, <1>6
<1>8. PICK u, x, v, y \in Nat :
         u = starts[f] /\ x = lengths[f] /\ v = starts[g] /\ y = lengths[g]
  BY <1>4
<1>9. PICK a, c, d, b \in Nat :
         /\ a = words[i].from /\ c = words[i].to /\ d = words[j].from /\ b = words[j].to
         /\ a < c /\ c <= x /\ d < b /\ b <= y
  <2>1. i \in 1 .. Len(words) /\ j \in 1 .. Len(words)
    BY <1>2
  <2> QED  BY <1>6, <1>7, <1>8, <2>1
<1>10. PICK lead \in Nat : lead = starts[words[1].page] + words[1].from
  <2>1. words[1].page \in 1 .. Len(lengths) /\ words[1].from \in Nat
    BY <1>2, <1>6
  <2> QED  BY <1>4, <2>1
<1>11. lead = Leading(text, s)
  BY <1>1, <1>10 DEF Leading
<1>12. lead <= u + a /\ u + a <= v + d
  <2>1. \A k \in 1 .. Len(words) : \A l \in k .. Len(words) :
           starts[words[k].page] + words[k].from <= starts[words[l].page] + words[l].from
    BY <1>1, <1>3, WordsInOrder
  <2>2. i \in 1 .. Len(words) /\ j \in i .. Len(words) /\ 1 \in 1 .. Len(words)
    BY <1>2
  <2>3. starts[words[1].page] + words[1].from <= starts[words[i].page] + words[i].from
    BY <2>1, <2>2
  <2>4. starts[words[i].page] + words[i].from <= starts[words[j].page] + words[j].from
    BY <2>1, <2>2
  <2> QED  BY <1>7, <1>8, <1>9, <1>10, <2>3, <2>4
<1>13. PICK m, n \in Int : m = u + a - lead /\ n = v + b - lead
  OBVIOUS
<1>14. a < c /\ c <= x /\ d < b /\ b <= y
  BY <1>9
<1>15. StartOf(text, s, i) = m /\ EndOf(text, s, j) = n
  BY <1>1, <1>7, <1>8, <1>9, <1>11, <1>13 DEF StartOf, EndOf
<1>16. /\ Larger(0, u - lead) < n /\ Larger(0, u + x - lead) > m
       /\ Larger(0, v - lead) < n /\ Larger(0, v + y - lead) > m
       /\ \A k, l \in Nat :
             Larger(0, k - lead) < n /\ Larger(0, k + l - lead) > m
                => ~(k + l + 2 <= u) /\ ~(v + y + 2 <= k)
  <2>1. 0 <= m /\ m < n
    BY <1>12, <1>13, <1>14
  <2>2. u - lead < n /\ u + x - lead > m /\ v - lead < n /\ v + y - lead > m
    BY <1>12, <1>13, <1>14
  <2>3. ASSUME NEW k \in Nat, NEW l \in Nat,
               Larger(0, k - lead) < n, Larger(0, k + l - lead) > m
        PROVE  ~(k + l + 2 <= u) /\ ~(v + y + 2 <= k)
    <3>1. k - lead < n /\ k + l - lead > m
      BY <1>13, <2>1, <2>3 DEF Larger
    <3> QED  BY <1>12, <1>13, <1>14, <3>1
  <2> QED  BY <1>13, <2>1, <2>2, <2>3 DEF Larger
<1>17. PICK ranges : ranges = PageRanges(text, s)
  OBVIOUS
<1>18. covered = {p \in DOMAIN ranges : ranges[p].from < n /\ ranges[p].to > m}
  BY <1>15, <1>17 DEF Covered
<1>19. /\ DOMAIN ranges = 1 .. Len(lengths)
       /\ \A p \in 1 .. Len(lengths) :
             /\ ranges[p].from = Larger(0, starts[p] - lead)
             /\ ranges[p].to = Larger(0, starts[p] + lengths[p] - lead)
  BY <1>1, <1>2, <1>11, <1>17 DEF PageRanges
<1>20. f \in covered /\ g \in covered
  BY <1>7, <1>8, <1>16, <1>18, <1>19
<1>21. ASSUME NEW p \in covered PROVE p \in Nat /\ f <= p /\ p <= g
  <2>1. p \in 1 .. Len(lengths) /\ ranges[p].from < n /\ ranges[p].to > m
    BY <1>18, <1>19
  <2>2. PICK k, l \in Nat : k = starts[p] /\ l = lengths[p]
    BY <1>4, <2>1
  <2>3. Larger(0, k - lead) < n /\ Larger(0, k + l - lead) > m
    BY <1>19, <2>1, <2>2
  <2>4. ~(k + l + 2 <= u) /\ ~(v + y + 2 <= k)
    BY <1>16, <2>2, <2>3
  <2>5. ~(p < f) /\ ~(g < p)
    BY <1>5, <1>7, <1>8, <2>1, <2>2, <2>4
  <2> QED  BY <1>7, <2>1, <2>5
<1> QED  BY <1>1, <1>7, <1>13, <1>15, <1>20, <1>21

-----------------------------------------------------------------------------
(* The units of a text.                                                     *)

Unit == [first : Nat, last : Nat]

\* A unit is a part of a paragraph that fits into a chunk.
InParagraph(words, u) ==
    /\ u.first \in 1 .. Len(words) /\ u.last \in u.first .. words[u.first].last
    /\ u.last - u.first < ChunkSize

\* The units that have been cut hold the words in order, up to the one that next is
\* behind, or, in the middle of a paragraph, up to the overlap.
UnitsCut(words, units, next) ==
    /\ units \in Seq(Unit) /\ next \in 1 .. Len(words) + 1
    /\ \A i \in 1 .. Len(units) : InParagraph(words, units[i]) /\ units[i].first < next
    /\ \A i, j \in 1 .. Len(units) : i < j => units[i].first < units[j].first
    /\ \A i \in 1 .. Len(units) - 1 : Continues(words, units[i], units[i + 1])
    /\ IF Len(units) = 0 THEN next = 1
       ELSE /\ units[1].first = 1
            /\ LET u == units[Len(units)]
               IN  \/ u.last = words[u.first].last /\ next = u.last + 1
                   \/ u.last < words[u.first].last /\ next = u.last + 1 - Overlap

LEMMA NothingCut ==
    ASSUME NEW words, Len(words) \in Nat
    PROVE  UnitsCut(words, <<>>, 1)
<1>1. PICK none : none = <<>>
  OBVIOUS
<1>2. none \in Seq(Unit) /\ Len(none) = 0
  BY <1>1
<1>3. UnitsCut(words, none, 1)
  BY <1>2 DEF UnitsCut
<1> QED  BY <1>1, <1>3

\* The unit that starts with the next word, and the word that the next one will
\* start with.
LEMMA UnitBounds ==
    ASSUME NEW n \in Nat, NEW next \in 1 .. n, NEW end \in next .. n
    PROVE  /\ Smaller(next + ChunkSize - 1, end) \in next .. end
           /\ Smaller(next + ChunkSize - 1, end) - next < ChunkSize
           /\ Smaller(next + ChunkSize - 1, end) # end
                => /\ Smaller(next + ChunkSize - 1, end) < end
                   /\ next + ChunkSize - Overlap = Smaller(next + ChunkSize - 1, end) + 1 - Overlap
                   /\ next + ChunkSize - Overlap \in next + 1 .. end
BY ChunkAssumption DEF Smaller

LEMMA UnitIsCut ==
    ASSUME NEW text, IsText(text), NEW units, NEW next,
           UnitsCut(text.words, units, next), next <= Len(text.words)
    PROVE  LET end == text.words[next].last
               last == Smaller(next + ChunkSize - 1, end)
           IN  UnitsCut(text.words, Append(units, [first |-> next, last |-> last]),
                        IF last = end THEN end + 1 ELSE next + ChunkSize - Overlap)
<1>1. PICK words : words = text.words
  OBVIOUS
<1>2. PICK n \in Nat : n = Len(words)
  BY <1>1, LayoutOfText
<1>3. next \in 1 .. n
  <2>1. next \in 1 .. n + 1 /\ next <= n
    BY <1>1, <1>2 DEF UnitsCut
  <2> QED  BY <2>1
<1>4. PICK end \in next .. n : end = words[next].last
  BY <1>1, <1>2, <1>3, LayoutOfText
<1>5. \A k \in next .. end : words[k].last = end
  BY <1>1, <1>2, <1>3, <1>4, LayoutOfText
<1>6. PICK last \in next .. end : last = Smaller(next + ChunkSize - 1, end)
  BY <1>3, UnitBounds
<1>7. last - next < ChunkSize
  BY <1>3, <1>6, UnitBounds
<1>8. PICK after : after = IF last = end THEN end + 1 ELSE next + ChunkSize - Overlap
  OBVIOUS
<1>9. last # end => /\ last < end /\ after = last + 1 - Overlap /\ after \in next + 1 .. end
  BY <1>3, <1>6, <1>8, UnitBounds
<1>10. last = end => after = last + 1
  BY <1>8
<1>11. after \in next + 1 .. n + 1
  BY <1>3, <1>9, <1>10
<1>12. PICK u \in Unit : u = [first |-> next, last |-> last] /\ u.first = next /\ u.last = last
  <2>1. next \in Nat
    BY <1>3
  <2>2. end \in Int
    BY <2>1
  <2>3. last \in Nat
    BY <2>1, <2>2
  <2>4. [first |-> next, last |-> last] \in Unit
    BY <2>1, <2>3 DEF Unit
  <2> QED  BY <2>4
<1>13. units \in Seq(Unit)
  BY DEF UnitsCut
<1>14. PICK m \in Nat : m = Len(units)
  BY <1>13
<1>15. PICK more : more = Append(units, u)
  OBVIOUS
<1>16. /\ more \in Seq(Unit) /\ Len(more) = m + 1 /\ more[m + 1] = u
       /\ \A i \in 1 .. m : more[i] = units[i]
  BY <1>13, <1>14, <1>15, AppendProperties
<1>17. \A i \in 1 .. m : /\ InParagraph(words, more[i]) /\ more[i].first < next
                         /\ more[i].first \in Nat
  <2>1. \A i \in 1 .. m : InParagraph(words, units[i]) /\ units[i].first < next
    BY <1>1, <1>14 DEF UnitsCut
  <2>2. \A i \in 1 .. m : units[i].first \in Nat
    <3>1. \A i \in 1 .. m : units[i] \in Unit
      BY <1>13, <1>14
    <3> QED  BY <3>1 DEF Unit
  <2> QED  BY <1>16, <2>1, <2>2
<1>18. InParagraph(words, u)
  BY <1>2, <1>3, <1>4, <1>6, <1>7, <1>12 DEF InParagraph
<1>19. \A i \in 1 .. m + 1 : InParagraph(words, more[i]) /\ more[i].first < after
  <2>1. ASSUME NEW i \in 1 .. m + 1 PROVE InParagraph(words, more[i]) /\ more[i].first < after
    <3>1. CASE i = m + 1
      <4>1. more[i] = u
        BY <1>16, <3>1
      <4>2. next < after
        BY <1>3, <1>11
      <4> QED  BY <1>12, <1>18, <4>1, <4>2
    <3>2. CASE i # m + 1
      <4>1. i \in 1 .. m
        BY <3>2
      <4>2. more[i].first < next /\ more[i].first \in Nat /\ InParagraph(words, more[i])
        BY <1>17, <4>1
      <4>3. PICK f \in Nat : f = more[i].first
        BY <4>2
      <4>4. f < after
        BY <1>3, <1>11, <4>2, <4>3
      <4> QED  BY <4>2, <4>3, <4>4
    <3> QED  BY <3>1, <3>2
  <2> QED  BY <2>1
<1>20. \A i, j \in 1 .. m + 1 : i < j => more[i].first < more[j].first
  <2>1. ASSUME NEW i \in 1 .. m + 1, NEW j \in 1 .. m + 1, i < j
        PROVE  more[i].first < more[j].first
    <3>1. i \in 1 .. m
      BY <2>1
    <3>2. CASE j = m + 1
      BY <1>12, <1>16, <1>17, <3>1, <3>2
    <3>3. CASE j # m + 1
      <4>1. j \in 1 .. m
        BY <3>3
      <4>2. units[i].first < units[j].first
        BY <1>14, <2>1, <3>1, <4>1 DEF UnitsCut
      <4> QED  BY <1>16, <3>1, <4>1, <4>2
    <3> QED  BY <3>2, <3>3
  <2> QED  BY <2>1
<1>21. m # 0 => Continues(words, units[m], u)
  <2>1. SUFFICES ASSUME m # 0 PROVE Continues(words, units[m], u)
    OBVIOUS
  <2>2. PICK v \in Unit : v = units[m]
    BY <1>13, <1>14, <2>1
  <2>3. PICK a, b \in Nat : a = v.first /\ b = v.last
    BY DEF Unit
  <2>4. InParagraph(words, v)
    BY <1>1, <1>14, <2>1, <2>2 DEF UnitsCut
  <2>5. \/ b = words[a].last /\ next = b + 1
        \/ b < words[a].last /\ next = b + 1 - Overlap
    BY <1>1, <1>14, <2>1, <2>2, <2>3 DEF UnitsCut
  <2>6. CASE next = b + 1
    BY <1>12, <2>2, <2>3, <2>6 DEF Continues
  <2>7. CASE b < words[a].last /\ next = b + 1 - Overlap
    <3>1. a \in 1 .. n /\ b \in a .. words[a].last
      BY <1>2, <2>3, <2>4 DEF InParagraph
    <3>2. PICK e \in a .. n : e = words[a].last /\ \A k \in a .. e : words[k].last = e
      <4>1. words[a].last \in a .. n
        BY <1>1, <1>2, <3>1, LayoutOfText
      <4>2. \A k \in a .. words[a].last : words[k].last = words[a].last
        BY <1>1, <1>2, <3>1, LayoutOfText
      <4> QED  BY <4>1, <4>2
    <3>3. a < next
      BY <1>17, <1>14, <1>16, <2>1, <2>2, <2>3
    <3>4. next \in a .. e
      BY <1>3, <2>7, <3>1, <3>2, <3>3, ChunkAssumption
    <3>5. words[next].last = e
      BY <3>2, <3>4
    <3>6. words[u.last].last = words[a].last
      BY <1>4, <1>5, <1>6, <1>12, <3>2, <3>5
    <3> QED  BY <1>12, <2>2, <2>3, <2>7, <3>6 DEF Continues
  <2> QED  BY <2>5, <2>6, <2>7
<1>22. \A i \in 1 .. m : Continues(words, more[i], more[i + 1])
  <2>1. ASSUME NEW i \in 1 .. m PROVE Continues(words, more[i], more[i + 1])
    <3>1. CASE i = m
      BY <1>16, <1>21, <2>1, <3>1
    <3>2. CASE i # m
      <4>1. i \in 1 .. m - 1 /\ i + 1 \in 1 .. m
        BY <3>2
      <4>2. Continues(words, units[i], units[i + 1])
        BY <1>1, <1>14, <4>1 DEF UnitsCut
      <4> QED  BY <1>16, <4>1, <4>2
    <3> QED  BY <3>1, <3>2
  <2> QED  BY <2>1
<1>23. more[1].first = 1
  <2>1. CASE m = 0
    <3>1. next = 1
      BY <1>14, <2>1 DEF UnitsCut
    <3> QED  BY <1>12, <1>16, <2>1, <3>1
  <2>2. CASE m # 0
    <3>1. units[1].first = 1 /\ 1 \in 1 .. m
      BY <1>14, <2>2 DEF UnitsCut
    <3> QED  BY <1>16, <3>1
  <2> QED  BY <2>1, <2>2
<1>24. \/ u.last = words[u.first].last /\ after = u.last + 1
       \/ u.last < words[u.first].last /\ after = u.last + 1 - Overlap
  BY <1>4, <1>9, <1>10, <1>12
<1>25. UnitsCut(words, more, after)
  <2>1. m + 1 # 0 /\ (m + 1) - 1 = m
    OBVIOUS
  <2>2. after \in 1 .. n + 1
    BY <1>3, <1>11
  <2> QED
    BY <1>2, <1>16, <1>19, <1>20, <1>22, <1>23, <1>24, <2>1, <2>2 DEF UnitsCut
<1> QED  BY <1>1, <1>4, <1>6, <1>8, <1>12, <1>15, <1>25

\* When every word has been cut, the units hold every word in order.
LEMMA UnitsAreGood ==
    ASSUME NEW text, IsText(text), NEW units, NEW next,
           UnitsCut(text.words, units, next), next > Len(text.words)
    PROVE  GoodUnits(text.words, units)
<1>1. PICK words : words = text.words
  OBVIOUS
<1>2. PICK n \in Nat : n = Len(words) /\ n # 0
  BY <1>1, LayoutOfText
<1>3. next = n + 1
  <2>1. next \in 1 .. n + 1 /\ next > n
    BY <1>1, <1>2 DEF UnitsCut
  <2> QED  BY <2>1
<1>4. units \in Seq(Unit)
  BY DEF UnitsCut
<1>5. PICK m \in Nat : m = Len(units)
  BY <1>4
<1>6. m # 0 /\ units[1].first = 1
  BY <1>1, <1>2, <1>3, <1>5 DEF UnitsCut
<1>7. PICK v \in Unit : v = units[m]
  BY <1>4, <1>5, <1>6
<1>8. PICK a, b \in Nat : a = v.first /\ b = v.last
  BY DEF Unit
<1>9. a \in 1 .. n
  <2>1. InParagraph(words, v)
    BY <1>1, <1>5, <1>6, <1>7 DEF UnitsCut
  <2> QED  BY <1>2, <1>8, <2>1 DEF InParagraph
<1>10. PICK e \in a .. n : e = words[a].last
  BY <1>1, <1>2, <1>9, LayoutOfText
<1>11. (b = e /\ next = b + 1) \/ (b < e /\ next = b + 1 - Overlap)
  BY <1>1, <1>5, <1>6, <1>7, <1>8, <1>10 DEF UnitsCut
<1>12. b = n
  BY <1>3, <1>10, <1>11, ChunkAssumption
<1>13. \A i \in 1 .. m - 1 : Continues(words, units[i], units[i + 1])
  BY <1>1, <1>5 DEF UnitsCut
<1>14. units # <<>>
  BY <1>5, <1>6
<1> QED  BY <1>1, <1>2, <1>5, <1>6, <1>7, <1>8, <1>12, <1>13, <1>14 DEF GoodUnits

-----------------------------------------------------------------------------
(* The words of units that follow each other.                               *)

LEMMA NoUnits ==
    ASSUME NEW units, NEW a \in Nat, NEW b \in Nat, b < a
    PROVE  IsFiniteSet(WordsOfUnits(units, a, b)) /\ Cardinality(WordsOfUnits(units, a, b)) = 0
<1>1. a .. b = {}
  OBVIOUS
<1>2. WordsOfUnits(units, a, b) = {}
  BY <1>1 DEF WordsOfUnits
<1> QED  BY <1>2, FS_EmptySet

\* A unit has at least one word, and not more than a chunk may have.
LEMMA UnitSize ==
    ASSUME NEW text, IsText(text), NEW u \in Unit, InParagraph(text.words, u)
    PROVE  /\ UnitWords(u) \in 1 .. ChunkSize
           /\ IsFiniteSet(u.first .. u.last) /\ Cardinality(u.first .. u.last) = UnitWords(u)
           /\ u.last \in u.first .. Len(text.words) /\ u.first \in 1 .. Len(text.words)
<1>1. PICK a, b \in Nat : a = u.first /\ b = u.last
  BY DEF Unit
<1>2. PICK words, n : words = text.words /\ n = Len(words)
  OBVIOUS
<1>3. n \in Nat
  BY <1>2, LayoutOfText
<1>4. a \in 1 .. n /\ b \in a .. words[a].last /\ b - a < ChunkSize
  BY <1>1, <1>2 DEF InParagraph
<1>5. words[a].last \in a .. n
  BY <1>2, <1>4, LayoutOfText
<1>6. b \in a .. n
  BY <1>3, <1>4, <1>5
<1>7. b - a + 1 \in 1 .. ChunkSize
  BY <1>4, <1>6, ChunkAssumption
<1>8. IsFiniteSet(a .. b) /\ Cardinality(a .. b) = b - a + 1
  <2>1. /\ IsFiniteSet(a .. b)
        /\ Cardinality(a .. b) = IF a > b THEN 0 ELSE b - a + 1
    BY FS_Interval
  <2>2. ~(a > b)
    BY <1>6
  <2> QED  BY <2>1, <2>2
<1> QED  BY <1>1, <1>2, <1>4, <1>6, <1>7, <1>8 DEF UnitWords

LEMMA OneMoreUnit ==
    ASSUME NEW text, IsText(text), NEW units, NEW a \in Nat, NEW b \in Nat, a <= b + 1,
           NEW u \in Unit, u = units[b + 1], InParagraph(text.words, u),
           IsFiniteSet(WordsOfUnits(units, a, b))
    PROVE  /\ IsFiniteSet(WordsOfUnits(units, a, b + 1))
           /\ Cardinality(WordsOfUnits(units, a, b)) \in Nat
           /\ Cardinality(WordsOfUnits(units, a, b + 1)) =
                 Cardinality(WordsOfUnits(units, a, b)) + UnitWords(u)
<1>1. PICK S, T : S = u.first .. u.last /\ T = {b + 1} \X S
  OBVIOUS
<1>2. PICK k \in Nat : k = UnitWords(u)
  BY UnitSize
<1>3. IsFiniteSet(S) /\ Cardinality(S) = k
  BY <1>1, <1>2, UnitSize
<1>4. IsFiniteSet({b + 1}) /\ Cardinality({b + 1}) = 1
  BY FS_Singleton
<1>5. IsFiniteSet(T) /\ Cardinality(T) = 1 * k
  BY <1>1, <1>3, <1>4, FS_Product
<1>6. PICK W : W = WordsOfUnits(units, a, b)
  OBVIOUS
<1>7. WordsOfUnits(units, a, b + 1) = W \cup T
  <2>1. a .. b + 1 = (a .. b) \cup {b + 1}
    OBVIOUS
  <2> QED  BY <1>1, <1>6, <2>1 DEF WordsOfUnits
<1>8. W \cap T = {}
  <2>1. b + 1 \notin a .. b
    OBVIOUS
  <2> QED  BY <1>1, <1>6, <2>1 DEF WordsOfUnits
<1>9. /\ IsFiniteSet(W \cup T)
      /\ Cardinality(W \cup T) = Cardinality(W) + Cardinality(T) - Cardinality(W \cap T)
  BY <1>5, <1>6, FS_Union
<1>10. Cardinality(W \cap T) = 0
  BY <1>8, FS_EmptySet
<1>11. PICK w \in Nat : w = Cardinality(W)
  BY <1>6, FS_CardinalityType
<1>12. Cardinality(W \cup T) = w + 1 * k - 0
  BY <1>5, <1>9, <1>10, <1>11
<1>13. w + 1 * k - 0 = w + k
  OBVIOUS
<1> QED  BY <1>2, <1>6, <1>7, <1>9, <1>11, <1>12, <1>13

-----------------------------------------------------------------------------
(* The chunks of a text.                                                    *)

PlacedChunk ==
    [first : Nat, last : Nat, start : Int, end : Int, pageStart : Nat, pageEnd : Nat]

\* The chunks that have been made hold the units in order, up to the one before next.
ChunksMade(text, s, next) ==
    /\ s.result \in Seq(PlacedChunk)
    /\ \A i \in 1 .. Len(s.result) : GoodChunk(text, s, s.result[i])
    /\ \A i \in 1 .. Len(s.result) - 1 : s.result[i + 1].first = s.result[i].last + 1
    /\ IF Len(s.result) = 0 THEN next = 1
       ELSE s.result[1].first = 1 /\ next = s.result[Len(s.result)].last + 1

\* Chunks do not depend on how far the units have been packed.
LEMMA SamePlaces ==
    ASSUME NEW text, NEW s, NEW t, t.units = s.units, t.starts = s.starts, NEW c,
           GoodChunk(text, s, c)
    PROVE  GoodChunk(text, t, c)
<1>1. Leading(text, t) = Leading(text, s)
  BY DEF Leading
<1>2. \A i : StartOf(text, t, i) = StartOf(text, s, i) /\ EndOf(text, t, i) = EndOf(text, s, i)
  BY <1>1 DEF StartOf, EndOf
<1> QED  BY <1>2 DEF GoodChunk

LEMMA NothingMade ==
    ASSUME NEW text, NEW s, NEW next, s.result = <<>>, next = 1
    PROVE  ChunksMade(text, s, next)
<1>1. PICK result : result = s.result
  OBVIOUS
<1>2. result \in Seq(PlacedChunk) /\ Len(result) = 0
  BY <1>1
<1> QED  BY <1>1, <1>2 DEF ChunksMade

LEMMA StillMade ==
    ASSUME NEW text, NEW s, NEW t, NEW next, t.units = s.units, t.starts = s.starts,
           t.result = s.result, ChunksMade(text, s, next)
    PROVE  ChunksMade(text, t, next)
BY SamePlaces DEF ChunksMade

LEMMA ChunkMade ==
    ASSUME NEW text, NEW s, NEW t, t.units = s.units, t.starts = s.starts,
           NEW c \in PlacedChunk, GoodChunk(text, s, c), ChunksMade(text, s, c.first),
           t.result = Append(s.result, c)
    PROVE  ChunksMade(text, t, c.last + 1)
<1>1. PICK made, more : made = s.result /\ more = t.result
  OBVIOUS
<1>2. made \in Seq(PlacedChunk) /\ more = Append(made, c)
  BY <1>1 DEF ChunksMade
<1>3. PICK m \in Nat : m = Len(made)
  BY <1>2
<1>4. /\ more \in Seq(PlacedChunk) /\ Len(more) = m + 1 /\ more[m + 1] = c
      /\ \A i \in 1 .. m : more[i] = made[i]
  BY <1>2, <1>3, AppendProperties
<1>5. \A i \in 1 .. m + 1 : GoodChunk(text, t, more[i])
  <2>1. ASSUME NEW i \in 1 .. m + 1 PROVE GoodChunk(text, s, more[i])
    <3>1. CASE i = m + 1
      BY <1>4, <3>1
    <3>2. CASE i # m + 1
      <4>1. i \in 1 .. m
        BY <3>2
      <4>2. GoodChunk(text, s, made[i])
        BY <1>1, <1>3, <4>1 DEF ChunksMade
      <4> QED  BY <1>4, <4>1, <4>2
    <3> QED  BY <3>1, <3>2
  <2> QED  BY <2>1, SamePlaces
<1>6. m # 0 => c.first = made[m].last + 1 /\ made[1].first = 1
  BY <1>1, <1>3 DEF ChunksMade
<1>7. m = 0 => c.first = 1
  BY <1>1, <1>3 DEF ChunksMade
<1>8. \A i \in 1 .. m : more[i + 1].first = more[i].last + 1
  <2>1. ASSUME NEW i \in 1 .. m PROVE more[i + 1].first = more[i].last + 1
    <3>1. CASE i = m
      BY <1>4, <1>6, <2>1, <3>1
    <3>2. CASE i # m
      <4>1. i \in 1 .. m - 1 /\ i + 1 \in 1 .. m
        BY <3>2
      <4>2. made[i + 1].first = made[i].last + 1
        BY <1>1, <1>3, <4>1 DEF ChunksMade
      <4> QED  BY <1>4, <4>1, <4>2
    <3> QED  BY <3>1, <3>2
  <2> QED  BY <2>1
<1>9. more[1].first = 1
  <2>1. CASE m = 0
    BY <1>4, <1>7, <2>1
  <2>2. CASE m # 0
    <3>1. 1 \in 1 .. m
      BY <2>2
    <3> QED  BY <1>4, <1>6, <2>2, <3>1
  <2> QED  BY <2>1, <2>2
<1>10. m + 1 # 0 /\ (m + 1) - 1 = m
  OBVIOUS
<1> QED  BY <1>1, <1>4, <1>5, <1>8, <1>9, <1>10 DEF ChunksMade

CutState ==
    [starts : Seq(Nat), offset : Nat, units : Seq(Unit), next : Nat,
     packed : Nat, first : Nat, tokens : Nat, result : Seq(PlacedChunk),
     verdict : {"none", "done", "refused"}]

\* The current chunk holds the units from first to packed, and their words are counted.
Packed(text, s) ==
    LET words == WordsOfUnits(s.units, s.first, s.packed)
    IN  /\ s.packed <= Len(s.units) /\ s.first \in 1 .. s.packed + 1
        /\ s.first > s.packed => s.packed = 0
        /\ IsFiniteSet(words) /\ s.tokens = Cardinality(words)
        /\ s.tokens <= ChunkSize /\ (s.first <= s.packed => s.tokens >= 1)

\* The chunks that have been made end before the current one, or have been made all.
Made(text, s) ==
    \/ s.verdict = "none" /\ ChunksMade(text, s, s.first) /\ Len(s.result) < MaxChunks
    \/ /\ s.verdict = "done" /\ ChunksMade(text, s, Len(s.units) + 1)
       /\ Len(s.result) <= MaxChunks
    \/ /\ s.verdict = "refused" /\ Len(s.result) = MaxChunks
       /\ \E next \in 1 .. Len(s.units) : ChunksMade(text, s, next)

\* Pages are joined first, then units are cut, and then packed.
ChunksCut(text, s) ==
    /\ s \in CutState
    /\ PagesJoined(text.lengths, s.starts, s.offset)
    /\ UnitsCut(text.words, s.units, s.next)
    /\ Packed(text, s) /\ Made(text, s)
    /\ ~AllCut(text, s) => /\ s.packed = 0 /\ s.first = 1 /\ s.tokens = 0
                           /\ s.result = <<>> /\ s.verdict = "none"

\* A chunk that the next unit does not fit into, or the last one, is good.
LEMMA CurrentIsGood ==
    ASSUME NEW text, IsText(text), NEW s, ChunksCut(text, s), AllCut(text, s),
           s.first <= s.packed,
           s.packed < Len(s.units) => s.tokens + UnitWords(s.units[s.packed + 1]) > ChunkSize,
           NEW c, c = CurrentChunk(text, s)
    PROVE  c \in PlacedChunk /\ GoodChunk(text, s, c) /\ c.first = s.first /\ c.last = s.packed
<1>1. PICK units, words : units = s.units /\ words = text.words
  OBVIOUS
<1>2. PICK m, n \in Nat : m = Len(units) /\ n = Len(words)
  <2>1. units \in Seq(Unit)
    BY <1>1 DEF ChunksCut, UnitsCut
  <2> QED  BY <1>1, <2>1, LayoutOfText
<1>3. PICK a, b \in Nat : a = s.first /\ b = s.packed
  BY DEF ChunksCut, CutState
<1>4. a \in 1 .. m /\ b \in 1 .. m /\ a <= b
  <2>1. b <= m /\ a \in 1 .. b + 1 /\ a <= b
    BY <1>1, <1>2, <1>3 DEF ChunksCut, Packed
  <2> QED  BY <2>1
<1>5. \A k \in 1 .. m : units[k] \in Unit /\ InParagraph(words, units[k])
  <2>1. units \in Seq(Unit) /\ \A k \in 1 .. m : InParagraph(words, units[k])
    BY <1>1, <1>2 DEF ChunksCut, UnitsCut
  <2> QED  BY <1>2, <2>1
<1>6. PICK u, v \in Unit : u = units[a] /\ v = units[b]
  BY <1>4, <1>5
<1>7. PICK i, k, j \in Nat : i = u.first /\ k = v.first /\ j = v.last
  BY DEF Unit
<1>8. i \in 1 .. n /\ j \in k .. n
  <2>1. InParagraph(words, u) /\ InParagraph(words, v)
    BY <1>4, <1>5, <1>6
  <2> QED  BY <1>1, <1>2, <1>7, <2>1, UnitSize
<1>9. i <= k
  <2>1. CASE a = b
    BY <1>6, <1>7, <2>1
  <2>2. CASE a # b
    <3>1. a < b
      BY <1>4, <2>2
    <3>2. units[a].first < units[b].first
      BY <1>1, <1>2, <1>4, <3>1 DEF ChunksCut, UnitsCut
    <3> QED  BY <1>6, <1>7, <3>2
  <2> QED  BY <2>1, <2>2
<1>10. j \in i .. n
  BY <1>8, <1>9
<1>11. PICK f, g : f = words[i].page /\ g = words[j].page
  OBVIOUS
<1>12. PICK covered : covered = Covered(text, s, i, j)
  OBVIOUS
<1>13. /\ PagesJoined(text.lengths, s.starts, s.offset) /\ Joined(text, s)
       /\ i \in 1 .. Len(text.words) /\ j \in i .. Len(text.words)
  BY <1>1, <1>2, <1>8, <1>10 DEF ChunksCut, AllCut
<1>14. /\ StartOf(text, s, i) \in Int /\ EndOf(text, s, j) \in Int
       /\ covered \subseteq Nat /\ f \in covered /\ g \in covered
       /\ \A p \in covered : f <= p /\ p <= g
  BY <1>1, <1>11, <1>12, <1>13, PagesOfSpan
<1>15. c = [first |-> a, last |-> b, start |-> StartOf(text, s, i), end |-> EndOf(text, s, j),
            pageStart |-> IF covered = {} THEN 1
                          ELSE CHOOSE p \in covered : \A q \in covered : p <= q,
            pageEnd |-> IF covered = {} THEN 1
                        ELSE CHOOSE p \in covered : \A q \in covered : p >= q]
  <2>1. i = s.units[s.first].first /\ j = s.units[s.packed].last
    BY <1>1, <1>3, <1>6, <1>7
  <2> QED  BY <1>3, <1>12, <2>1 DEF CurrentChunk, Covered
<1>16. f = CHOOSE p \in covered : \A q \in covered : p <= q
  <2>1. PICK e \in covered : e = CHOOSE p \in covered : \A q \in covered : p <= q
    BY <1>14
  <2>2. \A q \in covered : e <= q
    BY <1>14, <2>1
  <2>3. e = f
    BY <1>14, <2>2
  <2> QED  BY <2>1, <2>3
<1>17. g = CHOOSE p \in covered : \A q \in covered : p >= q
  <2>1. PICK e \in covered : e = CHOOSE p \in covered : \A q \in covered : p >= q
    BY <1>14
  <2>2. \A q \in covered : e >= q
    BY <1>14, <2>1
  <2>3. e = g
    BY <1>14, <2>2
  <2> QED  BY <2>1, <2>3
<1>18. c = [first |-> a, last |-> b, start |-> StartOf(text, s, i), end |-> EndOf(text, s, j),
            pageStart |-> f, pageEnd |-> g]
  <2>1. covered # {}
    BY <1>14
  <2> QED  BY <1>15, <1>16, <1>17, <2>1
<1>19. c \in PlacedChunk
  <2>1. f \in Nat /\ g \in Nat
    BY <1>14
  <2> QED  BY <1>14, <1>18, <2>1 DEF PlacedChunk
<1>20. /\ c.first = a /\ c.last = b /\ c.start = StartOf(text, s, i) /\ c.end = EndOf(text, s, j)
       /\ c.pageStart = f /\ c.pageEnd = g
  BY <1>18
<1>21. PICK size : size = Cardinality(WordsOfUnits(units, a, b))
  OBVIOUS
<1>22. size = s.tokens /\ size \in 1 .. ChunkSize
  <2>1. size = s.tokens /\ s.tokens <= ChunkSize /\ s.tokens >= 1
    BY <1>1, <1>3, <1>4, <1>21 DEF ChunksCut, Packed
  <2>2. s.tokens \in Nat
    BY DEF ChunksCut, CutState
  <2> QED  BY <2>1, <2>2, ChunkAssumption
<1>23. b < m => size + UnitWords(units[b + 1]) > ChunkSize
  BY <1>1, <1>2, <1>3, <1>22
<1>24. GoodChunk(text, s, c)
  <2>1. s.units[c.first].first = i /\ s.units[c.last].last = j
    BY <1>1, <1>6, <1>7, <1>20
  <2>2. size = Cardinality(WordsOfUnits(s.units, c.first, c.last))
    BY <1>1, <1>20, <1>21
  <2>3. c.last < Len(s.units) => size + UnitWords(s.units[c.last + 1]) > ChunkSize
    BY <1>1, <1>2, <1>20, <1>23
  <2> QED  BY <1>1, <1>11, <1>20, <1>22, <2>1, <2>2, <2>3 DEF GoodChunk
<1> QED  BY <1>3, <1>19, <1>20, <1>24

LEMMA NothingPacked ==
    ASSUME NEW text, NEW s, s.units \in Seq(Unit), s.packed = 0, s.first = 1, s.tokens = 0,
           s.result = <<>>, s.verdict = "none"
    PROVE  Packed(text, s) /\ Made(text, s)
<1>1. Packed(text, s)
  <2>1. /\ IsFiniteSet(WordsOfUnits(s.units, 1, 0))
        /\ Cardinality(WordsOfUnits(s.units, 1, 0)) = 0
    BY NoUnits
  <2>2. Len(s.units) \in Nat
    OBVIOUS
  <2> QED  BY <2>1, <2>2, ChunkAssumption DEF Packed
<1>2. Made(text, s)
  <2>1. ChunksMade(text, s, 1)
    BY NothingMade
  <2>2. Len(s.result) = 0
    OBVIOUS
  <2> QED  BY <2>1, <2>2, ChunkAssumption DEF Made
<1> QED  BY <1>1, <1>2

\* A text that has not been cut.
LEMMA UncutText ==
    ASSUME NEW text, IsText(text)
    PROVE  ChunksCut(text, Uncut)
<1>1. PICK s : s = Uncut
  OBVIOUS
<1>2. /\ s.starts = <<>> /\ s.offset = 0 /\ s.units = <<>> /\ s.next = 1
      /\ s.packed = 0 /\ s.first = 1 /\ s.tokens = 0 /\ s.result = <<>> /\ s.verdict = "none"
  BY <1>1 DEF Uncut
<1>3. s \in CutState
  BY <1>1 DEF Uncut, CutState
<1>4. PagesJoined(text.lengths, <<>>, 0)
  <2>1. PICK none : none = <<>>
    OBVIOUS
  <2>2. none \in Seq(Nat) /\ Len(none) = 0
    BY <2>1
  <2>3. Len(text.lengths) \in Nat
    BY LayoutOfText
  <2>4. PagesJoined(text.lengths, none, 0)
    BY <2>2, <2>3 DEF PagesJoined
  <2> QED  BY <2>1, <2>4
<1>5. UnitsCut(text.words, <<>>, 1)
  BY NothingCut, LayoutOfText
<1>6. Packed(text, s) /\ Made(text, s)
  <2>1. s.units \in Seq(Unit)
    BY <1>3 DEF CutState
  <2> QED  BY <1>2, <2>1, NothingPacked
<1> QED  BY <1>1, <1>2, <1>3, <1>4, <1>5, <1>6 DEF ChunksCut

\* The next page.
LEMMA JoinPageKeeps ==
    ASSUME NEW text, IsText(text), NEW s, ChunksCut(text, s), NEW t, JoinPage(text, s, t)
    PROVE  ChunksCut(text, t)
<1>1. PICK lengths, n : lengths = text.lengths /\ n = Len(s.starts)
  OBVIOUS
<1>2. s \in CutState /\ PagesJoined(lengths, s.starts, s.offset)
  BY <1>1 DEF ChunksCut
<1>3. n \in Nat /\ s.starts \in Seq(Nat) /\ s.offset \in Nat
  BY <1>1, <1>2 DEF CutState
<1>4. n < Len(lengths)
  BY <1>1 DEF JoinPage
<1>5. lengths \in Seq(Nat) /\ n + 1 \in 1 .. Len(lengths) /\ lengths[n + 1] \in Nat
  <2>1. lengths \in Seq(Nat)
    BY <1>1, LayoutOfText
  <2> QED  BY <1>3, <1>4, <2>1
<1>6. ~AllCut(text, s)
  <2>1. Len(lengths) \in Nat
    BY <1>5
  <2> QED  BY <1>1, <1>3, <1>4, <2>1 DEF AllCut, Joined
<1>7. PICK starts, offset :
         starts = Append(s.starts, s.offset) /\ offset = s.offset + lengths[n + 1] + 2
  OBVIOUS
<1>8. t = [s EXCEPT !.starts = starts, !.offset = offset]
  BY <1>1, <1>7 DEF JoinPage
<1>9. starts \in Seq(Nat) /\ offset \in Nat
  BY <1>3, <1>5, <1>7
<1>10. t \in CutState
  BY <1>2, <1>8, <1>9 DEF CutState
<1>11. /\ t.starts = starts /\ t.offset = offset /\ t.units = s.units /\ t.next = s.next
       /\ t.packed = s.packed /\ t.first = s.first /\ t.tokens = s.tokens
       /\ t.result = s.result /\ t.verdict = s.verdict
  BY <1>2, <1>8 DEF CutState
<1>12. PagesJoined(lengths, starts, offset)
  BY <1>1, <1>2, <1>4, <1>5, <1>7, PageJoined
<1>13. /\ t.packed = 0 /\ t.first = 1 /\ t.tokens = 0 /\ t.result = <<>> /\ t.verdict = "none"
  BY <1>6, <1>11 DEF ChunksCut
<1>14. t.units \in Seq(Unit)
  BY <1>10 DEF CutState
<1>15. Packed(text, t) /\ Made(text, t)
  BY <1>13, <1>14, NothingPacked
<1> QED  BY <1>1, <1>10, <1>11, <1>12, <1>13, <1>15 DEF ChunksCut

\* The next unit.
LEMMA CutUnitKeeps ==
    ASSUME NEW text, IsText(text), NEW s, ChunksCut(text, s), NEW t, CutUnit(text, s, t)
    PROVE  ChunksCut(text, t)
<1>1. PICK end, last, after :
         /\ end = text.words[s.next].last /\ last = Smaller(s.next + ChunkSize - 1, end)
         /\ after = IF last = end THEN end + 1 ELSE s.next + ChunkSize - Overlap
  OBVIOUS
<1>2. PICK units : units = Append(s.units, [first |-> s.next, last |-> last])
  OBVIOUS
<1>3. t = [s EXCEPT !.units = units, !.next = after]
  BY <1>1, <1>2 DEF CutUnit
<1>4. s \in CutState /\ UnitsCut(text.words, s.units, s.next) /\ s.next <= Len(text.words)
  BY DEF ChunksCut, CutUnit
<1>5. UnitsCut(text.words, units, after)
  BY <1>1, <1>2, <1>4, UnitIsCut
<1>6. units \in Seq(Unit) /\ after \in Nat
  <2>1. Len(text.words) \in Nat
    BY LayoutOfText
  <2>2. units \in Seq(Unit) /\ after \in 1 .. Len(text.words) + 1
    BY <1>5 DEF UnitsCut
  <2> QED  BY <2>1, <2>2
<1>7. t \in CutState
  BY <1>3, <1>4, <1>6 DEF CutState
<1>8. /\ t.starts = s.starts /\ t.offset = s.offset /\ t.units = units /\ t.next = after
      /\ t.packed = s.packed /\ t.first = s.first /\ t.tokens = s.tokens
      /\ t.result = s.result /\ t.verdict = s.verdict
  BY <1>3, <1>4 DEF CutState
<1>9. ~AllCut(text, s)
  <2>1. Len(text.words) \in Nat /\ s.next \in Nat
    BY <1>4, LayoutOfText DEF CutState
  <2> QED  BY <1>4, <2>1 DEF AllCut
<1>10. /\ t.packed = 0 /\ t.first = 1 /\ t.tokens = 0 /\ t.result = <<>> /\ t.verdict = "none"
  BY <1>8, <1>9 DEF ChunksCut
<1>11. Packed(text, t) /\ Made(text, t)
  BY <1>6, <1>8, <1>10, NothingPacked
<1> QED  BY <1>5, <1>7, <1>8, <1>10, <1>11 DEF ChunksCut

\* The next unit joins the current chunk, or starts one of its own.
LEMMA PackUnitKeeps ==
    ASSUME NEW text, IsText(text), NEW s, ChunksCut(text, s), NEW t, PackUnit(text, s, t)
    PROVE  ChunksCut(text, t)
<1>1. PICK a, b, tokens \in Nat : a = s.first /\ b = s.packed /\ tokens = s.tokens
  BY DEF ChunksCut, CutState
<1>2. PICK units, result : units = s.units /\ result = s.result
  OBVIOUS
<1>3. /\ s \in CutState /\ units \in Seq(Unit) /\ result \in Seq(PlacedChunk)
      /\ PagesJoined(text.lengths, s.starts, s.offset)
      /\ UnitsCut(text.words, units, s.next) /\ Packed(text, s) /\ Made(text, s)
  BY <1>2 DEF ChunksCut, CutState
<1>4. PICK m, made \in Nat : m = Len(units) /\ made = Len(result)
  BY <1>3
<1>5. AllCut(text, s) /\ s.verdict = "none" /\ b < m
  BY <1>1, <1>2, <1>4 DEF PackUnit
<1>6. b + 1 \in 1 .. m
  BY <1>5
<1>7. PICK u \in Unit : u = units[b + 1]
  BY <1>3, <1>4, <1>6
<1>8. InParagraph(text.words, u)
  BY <1>3, <1>4, <1>6, <1>7 DEF UnitsCut
<1>9. PICK k \in 1 .. ChunkSize : k = UnitWords(u)
  BY <1>8, UnitSize
<1>10. k \in Nat /\ k >= 1 /\ k <= ChunkSize
  BY ChunkAssumption
<1>11. /\ a \in 1 .. b + 1 /\ (a > b => b = 0)
       /\ IsFiniteSet(WordsOfUnits(units, a, b))
       /\ tokens = Cardinality(WordsOfUnits(units, a, b))
  BY <1>1, <1>2, <1>3 DEF Packed
<1>12. ChunksMade(text, s, a) /\ made < MaxChunks
  BY <1>1, <1>2, <1>3, <1>4, <1>5 DEF Made
<1>13. CASE ~(a <= b /\ tokens + k > ChunkSize)
  <2>1. PICK more \in Nat : more = tokens + k
    BY <1>10
  <2>2. t = [s EXCEPT !.packed = b + 1, !.tokens = more]
    BY <1>1, <1>2, <1>7, <1>9, <1>13, <2>1 DEF PackUnit
  <2>3. t \in CutState
    <3>1. b + 1 \in Nat
      OBVIOUS
    <3> QED  BY <1>3, <2>2, <3>1 DEF CutState
  <2>4. /\ t.starts = s.starts /\ t.offset = s.offset /\ t.units = units /\ t.next = s.next
        /\ t.packed = b + 1 /\ t.first = a /\ t.tokens = more
        /\ t.result = result /\ t.verdict = "none"
    BY <1>1, <1>2, <1>3, <1>5, <2>2 DEF CutState
  <2>5. /\ IsFiniteSet(WordsOfUnits(units, a, b + 1))
        /\ more = Cardinality(WordsOfUnits(units, a, b + 1))
    <3>1. a <= b + 1
      BY <1>11
    <3> QED  BY <1>7, <1>8, <1>9, <1>11, <2>1, <3>1, OneMoreUnit
  <2>6. more <= ChunkSize /\ more >= 1
    <3>1. CASE a <= b
      BY <1>10, <1>13, <2>1, <3>1, ChunkAssumption
    <3>2. CASE ~(a <= b)
      <4>1. tokens = 0
        BY <1>11, <3>2, NoUnits
      <4> QED  BY <1>10, <2>1, <4>1
    <3> QED  BY <3>1, <3>2
  <2>7. Packed(text, t)
    <3>1. a \in 1 .. (b + 1) + 1 /\ ~(a > b + 1)
      BY <1>11
    <3> QED  BY <1>4, <1>6, <2>4, <2>5, <2>6, <3>1 DEF Packed
  <2>8. ChunksMade(text, t, a)
    BY <1>2, <1>12, <2>4, StillMade
  <2>9. Made(text, t)
    BY <1>4, <1>12, <2>4, <2>8 DEF Made
  <2>10. AllCut(text, t)
    BY <1>5, <2>4 DEF AllCut, Joined
  <2> QED  BY <1>3, <2>3, <2>4, <2>7, <2>9, <2>10 DEF ChunksCut
<1>14. CASE a <= b /\ tokens + k > ChunkSize
  <2>1. PICK c : c = CurrentChunk(text, s)
    OBVIOUS
  <2>2. c \in PlacedChunk /\ GoodChunk(text, s, c) /\ c.first = a /\ c.last = b
    <3>1. /\ s.first <= s.packed
          /\ s.tokens + UnitWords(s.units[s.packed + 1]) > ChunkSize
      BY <1>1, <1>2, <1>7, <1>9, <1>14
    <3> QED  BY <1>1, <1>5, <2>1, <3>1, CurrentIsGood
  <2>3. PICK longer : longer = Append(result, c)
    OBVIOUS
  <2>4. longer \in Seq(PlacedChunk) /\ Len(longer) = made + 1
    BY <1>3, <1>4, <2>2, <2>3, AppendProperties
  <2>5. CASE made + 1 >= MaxChunks
    <3>1. t = [s EXCEPT !.result = longer, !.verdict = "refused"]
      BY <1>1, <1>2, <1>7, <1>9, <1>14, <2>1, <2>3, <2>4, <2>5 DEF PackUnit
    <3>2. t \in CutState
      BY <1>3, <2>4, <3>1 DEF CutState
    <3>3. /\ t.starts = s.starts /\ t.offset = s.offset /\ t.units = units /\ t.next = s.next
          /\ t.packed = b /\ t.first = a /\ t.tokens = tokens
          /\ t.result = longer /\ t.verdict = "refused"
      BY <1>1, <1>2, <1>3, <3>1 DEF CutState
    <3>4. Packed(text, t)
      BY <1>1, <1>2, <1>3, <3>3 DEF Packed
    <3>5. ChunksMade(text, t, b + 1)
      BY <1>2, <1>12, <2>2, <2>3, <3>3, ChunkMade
    <3>6. Made(text, t)
      <4>1. made + 1 = MaxChunks
        BY <1>12, <2>5, ChunkAssumption
      <4> QED  BY <1>4, <1>6, <2>4, <3>3, <3>5, <4>1 DEF Made
    <3>7. AllCut(text, t)
      BY <1>5, <3>3 DEF AllCut, Joined
    <3> QED  BY <1>3, <3>2, <3>3, <3>4, <3>6, <3>7 DEF ChunksCut
  <2>6. CASE ~(made + 1 >= MaxChunks)
    <3>1. t = [s EXCEPT !.result = longer, !.first = b + 1, !.packed = b + 1, !.tokens = k]
      BY <1>1, <1>2, <1>7, <1>9, <1>14, <2>1, <2>3, <2>4, <2>6 DEF PackUnit
    <3>2. t \in CutState
      <4>1. b + 1 \in Nat
        OBVIOUS
      <4> QED  BY <1>3, <1>10, <2>4, <3>1, <4>1 DEF CutState
    <3>3. /\ t.starts = s.starts /\ t.offset = s.offset /\ t.units = units /\ t.next = s.next
          /\ t.packed = b + 1 /\ t.first = b + 1 /\ t.tokens = k
          /\ t.result = longer /\ t.verdict = "none"
      BY <1>2, <1>3, <1>5, <3>1 DEF CutState
    <3>4. /\ IsFiniteSet(WordsOfUnits(units, b + 1, b + 1))
          /\ k = Cardinality(WordsOfUnits(units, b + 1, b + 1))
      <4>1. /\ IsFiniteSet(WordsOfUnits(units, b + 1, b))
            /\ Cardinality(WordsOfUnits(units, b + 1, b)) = 0
        BY NoUnits
      <4>2. /\ IsFiniteSet(WordsOfUnits(units, b + 1, b + 1))
            /\ Cardinality(WordsOfUnits(units, b + 1, b + 1)) = 0 + k
        BY <1>7, <1>8, <1>9, <4>1, OneMoreUnit
      <4> QED  BY <1>10, <4>2
    <3>5. Packed(text, t)
      <4>1. b + 1 \in 1 .. (b + 1) + 1 /\ ~(b + 1 > b + 1) /\ b + 1 <= m
        BY <1>6
      <4> QED  BY <1>4, <1>10, <3>3, <3>4, <4>1 DEF Packed
    <3>6. ChunksMade(text, t, b + 1)
      BY <1>2, <1>12, <2>2, <2>3, <3>3, ChunkMade
    <3>7. Made(text, t)
      <4>1. made + 1 < MaxChunks
        BY <2>6, ChunkAssumption
      <4> QED  BY <2>4, <3>3, <3>6, <4>1 DEF Made
    <3>8. AllCut(text, t)
      BY <1>5, <3>3 DEF AllCut, Joined
    <3> QED  BY <1>3, <3>2, <3>3, <3>5, <3>7, <3>8 DEF ChunksCut
  <2> QED  BY <2>5, <2>6
<1> QED  BY <1>13, <1>14

\* The last chunk.
LEMMA LastChunkKeeps ==
    ASSUME NEW text, IsText(text), NEW s, ChunksCut(text, s), NEW t, LastChunk(text, s, t)
    PROVE  ChunksCut(text, t)
<1>1. PICK a, b, tokens \in Nat : a = s.first /\ b = s.packed /\ tokens = s.tokens
  BY DEF ChunksCut, CutState
<1>2. PICK units, result : units = s.units /\ result = s.result
  OBVIOUS
<1>3. /\ s \in CutState /\ units \in Seq(Unit) /\ result \in Seq(PlacedChunk)
      /\ PagesJoined(text.lengths, s.starts, s.offset)
      /\ UnitsCut(text.words, units, s.next) /\ Packed(text, s) /\ Made(text, s)
  BY <1>2 DEF ChunksCut, CutState
<1>4. PICK m, made \in Nat : m = Len(units) /\ made = Len(result)
  BY <1>3
<1>5. AllCut(text, s) /\ s.verdict = "none" /\ b = m
  BY <1>1, <1>2, <1>4 DEF LastChunk
<1>6. a \in 1 .. b + 1 /\ (a > b => b = 0)
  BY <1>1, <1>3 DEF Packed
<1>7. ChunksMade(text, s, a) /\ made < MaxChunks
  BY <1>1, <1>2, <1>3, <1>4, <1>5 DEF Made
<1>8. PICK c : c = CurrentChunk(text, s)
  OBVIOUS
<1>9. PICK longer : longer = IF a <= b THEN Append(result, c) ELSE result
  OBVIOUS
<1>10. t = [s EXCEPT !.result = longer, !.verdict = "done"]
  BY <1>1, <1>2, <1>8, <1>9 DEF LastChunk
<1>11. a <= b => c \in PlacedChunk /\ GoodChunk(text, s, c) /\ c.first = a /\ c.last = b
  <2>1. ~(s.packed < Len(s.units))
    BY <1>1, <1>2, <1>4, <1>5
  <2> QED  BY <1>1, <1>5, <1>8, <2>1, CurrentIsGood
<1>12. longer \in Seq(PlacedChunk) /\ Len(longer) \in {made, made + 1}
  <2>1. CASE a <= b
    <3>1. longer = Append(result, c) /\ c \in PlacedChunk
      BY <1>9, <1>11, <2>1
    <3> QED  BY <1>3, <1>4, <3>1, AppendProperties
  <2>2. CASE ~(a <= b)
    BY <1>3, <1>4, <1>9, <2>2
  <2> QED  BY <2>1, <2>2
<1>13. t \in CutState
  BY <1>3, <1>10, <1>12 DEF CutState
<1>14. /\ t.starts = s.starts /\ t.offset = s.offset /\ t.units = units /\ t.next = s.next
       /\ t.packed = b /\ t.first = a /\ t.tokens = tokens
       /\ t.result = longer /\ t.verdict = "done"
  BY <1>1, <1>2, <1>3, <1>10 DEF CutState
<1>15. Packed(text, t)
  BY <1>1, <1>2, <1>3, <1>14 DEF Packed
<1>16. ChunksMade(text, t, m + 1)
  <2>1. CASE a <= b
    <3>1. longer = Append(result, c)
      BY <1>9, <2>1
    <3>2. ChunksMade(text, t, c.last + 1)
      BY <1>2, <1>7, <1>11, <1>14, <2>1, <3>1, ChunkMade
    <3> QED  BY <1>5, <1>11, <2>1, <3>2
  <2>2. CASE ~(a <= b)
    <3>1. a = m + 1 /\ longer = result
      BY <1>5, <1>6, <1>9, <2>2
    <3> QED  BY <1>2, <1>7, <1>14, <3>1, StillMade
  <2> QED  BY <2>1, <2>2
<1>17. Made(text, t)
  <2>1. made <= MaxChunks /\ made + 1 <= MaxChunks
    BY <1>7, ChunkAssumption
  <2>2. Len(longer) <= MaxChunks
    BY <1>12, <2>1
  <2> QED  BY <1>4, <1>14, <1>16, <2>2 DEF Made
<1>18. AllCut(text, t)
  BY <1>5, <1>14 DEF AllCut, Joined
<1> QED  BY <1>3, <1>13, <1>14, <1>15, <1>17, <1>18 DEF ChunksCut

\* What has been cut when there is a verdict.
LEMMA ChunksAreGood ==
    ASSUME NEW text, IsText(text), NEW s, ChunksCut(text, s), s.verdict # "none"
    PROVE  GoodChunks(text, s)
<1>1. PICK units, result : units = s.units /\ result = s.result
  OBVIOUS
<1>2. /\ units \in Seq(Unit) /\ result \in Seq(PlacedChunk) /\ s.next \in Nat
      /\ UnitsCut(text.words, units, s.next) /\ Made(text, s) /\ AllCut(text, s)
  BY <1>1 DEF ChunksCut, CutState
<1>3. PICK m, n \in Nat : m = Len(units) /\ n = Len(result)
  BY <1>2
<1>4. GoodUnits(text.words, units)
  BY <1>2, UnitsAreGood DEF AllCut
<1>5. m # 0
  BY <1>2, <1>3, <1>4 DEF GoodUnits
<1>6. PICK next \in 1 .. m + 1 :
         /\ ChunksMade(text, s, next)
         /\ s.verdict = "done" => next = m + 1 /\ n <= MaxChunks
         /\ s.verdict = "refused" => next <= m /\ n = MaxChunks
  <2>1. CASE s.verdict = "done"
    <3>1. m + 1 \in 1 .. m + 1
      BY <1>5
    <3> QED  BY <1>1, <1>2, <1>3, <2>1, <3>1 DEF Made
  <2>2. CASE s.verdict # "done"
    <3>1. PICK k \in 1 .. m : ChunksMade(text, s, k)
      BY <1>1, <1>2, <1>3, <2>2 DEF Made
    <3>2. k \in 1 .. m + 1 /\ k <= m
      BY <3>1
    <3> QED  BY <1>1, <1>2, <1>3, <2>2, <3>1, <3>2 DEF Made
  <2> QED  BY <2>1, <2>2
<1>7. n # 0
  <2>1. SUFFICES ASSUME n = 0 PROVE FALSE
    OBVIOUS
  <2>2. next = 1
    BY <1>1, <1>3, <1>6, <2>1 DEF ChunksMade
  <2>3. s.verdict \in {"done", "refused"}
    BY DEF ChunksCut, CutState
  <2> QED  BY <1>5, <1>6, <2>1, <2>2, <2>3, ChunkAssumption
<1>8. PICK c \in PlacedChunk : c = result[n]
  BY <1>2, <1>3, <1>7
<1>9. PICK last \in Nat : last = c.last
  BY DEF PlacedChunk
<1>10. result[1].first = 1 /\ next = last + 1
  BY <1>1, <1>3, <1>6, <1>7, <1>8, <1>9 DEF ChunksMade
<1>11. /\ \A i \in 1 .. n - 1 : result[i + 1].first = result[i].last + 1
       /\ \A i \in 1 .. n : GoodChunk(text, s, result[i])
  BY <1>1, <1>3, <1>6 DEF ChunksMade
<1>12. /\ s.verdict = "done" => n <= MaxChunks /\ last = m
       /\ s.verdict = "refused" => n = MaxChunks /\ last < m
  BY <1>6, <1>10
<1>13. result # <<>>
  BY <1>3, <1>7
<1> QED  BY <1>1, <1>3, <1>4, <1>8, <1>9, <1>10, <1>11, <1>12, <1>13 DEF GoodChunks

-----------------------------------------------------------------------------
(* Every text.                                                              *)

\* The text of a behaviour that cuts one, and how far it has come.
CuttingText ==
    algorithm = "chunk" => IsText(input) /\ ChunksCut(input, output)

LEMMA CuttingSteps ==
    ASSUME CuttingText, [Next]_vars
    PROVE  CuttingText'
<1>1. CASE UNCHANGED vars
  BY <1>1 DEF CuttingText, vars
<1>2. CASE algorithm = "none" /\ Chunk
  <2>1. PICK text \in Texts : algorithm' = "chunk" /\ input' = text /\ output' = Uncut
    BY <1>2 DEF Chunk, Apply
  <2>2. IsText(text) /\ ChunksCut(text, Uncut)
    BY TextsAssumption, UncutText
  <2> QED  BY <2>1, <2>2 DEF CuttingText
<1>3. CASE algorithm = "chunk" /\ GoOnCutting
  <2>1. input' = input /\ algorithm' = algorithm /\ IsText(input) /\ ChunksCut(input, output)
    BY <1>3 DEF GoOnCutting, CuttingText
  <2>2. CASE JoinPage(input, output, output')
    BY <2>1, <2>2, JoinPageKeeps DEF CuttingText
  <2>3. CASE CutUnit(input, output, output')
    BY <2>1, <2>3, CutUnitKeeps DEF CuttingText
  <2>4. CASE PackUnit(input, output, output')
    BY <2>1, <2>4, PackUnitKeeps DEF CuttingText
  <2>5. CASE LastChunk(input, output, output')
    BY <2>1, <2>5, LastChunkKeeps DEF CuttingText
  <2> QED  BY <1>3, <2>2, <2>3, <2>4, <2>5 DEF GoOnCutting
<1>4. CASE /\ Next
           /\ ~(algorithm = "none" /\ Chunk)
           /\ ~(algorithm = "chunk" /\ GoOnCutting)
  <2>1. algorithm' # "chunk"
    BY <1>4 DEF Next, Run, Receive, NextEvent, EndOfStream, BackOff, ServeRange, ListPage,
                Admit, Attempt, Apply
  <2> QED  BY <2>1 DEF CuttingText
<1> QED  BY <1>1, <1>2, <1>3, <1>4

\* The chunks that Process cuts a text into hold all of its words in order, none is
\* empty or too large, their offsets and pages are those of their words, and a text
\* is refused only if MAX_CHUNKS chunks do not hold it.
THEOREM ChunksCover == Spec => []ChunksCoverText
<1>1. Init => CuttingText
  BY DEF Init, CuttingText
<1>2. CuttingText /\ [Next]_vars => CuttingText'
  BY CuttingSteps
<1>3. CuttingText => ChunksCoverText
  BY ChunksAreGood DEF CuttingText, ChunksCoverText
<1> QED  BY <1>1, <1>2, <1>3, PTL DEF Spec
=============================================================================
