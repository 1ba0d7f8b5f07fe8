------------------------- MODULE UsageLocks_proofs -------------------------
(***************************************************************************)
(* The order of locks in UsageLocks: why no circle of waiting transactions *)
(* holds a request or a recovery, for any number of connections, owners    *)
(* and documents.                                                          *)
(*                                                                         *)
(* A transaction takes the lock that guards another one first (Guards),    *)
(* usage rows in the order of their owners, and no lock twice.  The circle *)
(* is excluded by counting: everybody in it waits for somebody in it and   *)
(* is waited for by somebody in it, so that the recovery that waits for    *)
(* the smallest owner would have to hold a smaller one.                    *)
(***************************************************************************)
EXTENDS UsageLocks, FiniteSetTheorems, WellFoundedInduction, TLAPS

OwnerLocks == UNION {{Usage(o), Reservations(o)} : o \in Owners}

\* The locks that one transaction of each kind can ever hold.
Footprints(kind) ==
    IF kind = "quota" THEN {{Usage(o), Reservations(o)} : o \in Owners}
    ELSE IF kind = "recover" THEN {OwnerLocks}
    ELSE IF kind = "delete" THEN {{Usage(OwnerOf[d]), Chunks(d), Document(d)} : d \in Docs}
    ELSE IF kind = "complete" THEN {{Document(d), Chunks(d)} : d \in Docs}
    ELSE IF kind \in {"fail", "retry"} THEN {{Document(d)} : d \in Docs}
    ELSE IF kind = "sweep" THEN {{Document(d) : d \in Docs}}
    ELSE {{}}

\* g guards l: who takes l holds g already.
Guards(kind, g, l) ==
    \/ \E o \in Owners : g = Usage(o) /\ l = Reservations(o)
    \/ kind = "delete" /\ \E d \in Docs : g = Usage(OwnerOf[d]) /\ l \in {Chunks(d), Document(d)}
    \/ kind = "complete" /\ \E d \in Docs : g = Document(d) /\ l = Chunks(d)

Touched(t) == t.held \union ToSet(t.plan)

InFootprint(t) == \E F \in Footprints(t.kind) : Touched(t) \subseteq F

\* No lock is taken twice.
Distinct(t) ==
    /\ \A i \in DOMAIN t.plan : t.plan[i] \notin t.held
    /\ \A i, j \in DOMAIN t.plan : t.plan[i] = t.plan[j] => i = j

GuardsFirst(t) ==
    /\ \A l \in t.held : \A g \in Locks : Guards(t.kind, g, l) => g \in t.held
    /\ \A j \in DOMAIN t.plan : \A g \in Locks :
          Guards(t.kind, g, t.plan[j]) =>
              g \in t.held \/ \E i \in DOMAIN t.plan : i < j /\ t.plan[i] = g

\* Usage rows are taken in the order of their owners.
Ordered(t) ==
    \A a, b \in Owners : \A j \in DOMAIN t.plan :
        t.plan[j] = Usage(b) =>
            /\ Usage(a) \in t.held => a < b
            /\ \A i \in DOMAIN t.plan : i < j /\ t.plan[i] = Usage(a) => a < b

Disciplined(t) == InFootprint(t) /\ Distinct(t) /\ GuardsFirst(t) /\ Ordered(t)

\* A completion that has found its document goes on to the chunks.
Replaces(t) ==
    t.kind = "complete" =>
        \A d \in Docs : Document(d) \in Touched(t) => Chunks(d) \in Touched(t)

\* What a transaction has found in a document or its chunks stays so while they
\* are locked.
FoundStays ==
    \A c \in Connections : \A d \in Docs :
        /\ Document(d) \in tx[c].held => Found(tx[c].kind, Document(d))
        /\ Chunks(d) \in tx[c].held => Found(tx[c].kind, Chunks(d))

IInv ==
    /\ TypeOK
    /\ \A c \in Connections : Disciplined(tx[c]) /\ Replaces(tx[c])
    /\ FoundStays

-----------------------------------------------------------------------------
(* Locks.                                                                   *)

LEMMA LocksDiffer ==
    /\ \A o, p : Usage(o) = Usage(p) => o = p
    /\ \A o, p : Reservations(o) = Reservations(p) => o = p
    /\ \A d, e : Document(d) = Document(e) => d = e
    /\ \A d, e : Chunks(d) = Chunks(e) => d = e
    /\ \A x, y : /\ Usage(x) \notin {Reservations(y), Document(y), Chunks(y)}
                 /\ Reservations(x) \notin {Document(y), Chunks(y)}
                 /\ Document(x) # Chunks(y)
BY DEF Usage, Reservations, Document, Chunks

LEMMA LocksAre ==
    /\ \A o \in Owners : Usage(o) \in Locks /\ Reservations(o) \in Locks
    /\ \A d \in Docs : Document(d) \in Locks /\ Chunks(d) \in Locks
<1>1. ASSUME NEW o \in Owners
      PROVE  Usage(o) \in Locks /\ Reservations(o) \in Locks
  <2>1. {Usage(o), Reservations(o)} \in {{Usage(x), Reservations(x)} : x \in Owners}
    OBVIOUS
  <2> QED  BY <2>1 DEF Locks
<1>2. ASSUME NEW d \in Docs
      PROVE  Document(d) \in Locks /\ Chunks(d) \in Locks
  <2>1. {Document(d), Chunks(d)} \in {{Document(x), Chunks(x)} : x \in Docs}
    OBVIOUS
  <2> QED  BY <2>1 DEF Locks
<1> QED  BY <1>1, <1>2

\* What Found says of each kind of lock.
LEMMA FoundIs ==
    ASSUME NEW kind
    PROVE  /\ \A o : Found(kind, Usage(o)) /\ Found(kind, Reservations(o))
           /\ \A d : Found(kind, Chunks(d)) <=> kind = "complete" \/ chunks[d]
           /\ \A d : Found(kind, Document(d)) <=>
                        \/ kind = "delete" /\ status[d] # "deleted"
                        \/ kind = "retry" /\ status[d] = "failed"
                        \/ kind \in {"complete", "fail", "sweep"} /\ status[d] = "processing"
           /\ \A d : /\ Usage(d)[1] = "usage" /\ Reservations(d)[1] = "reservations"
                     /\ Document(d)[1] = "document" /\ Chunks(d)[1] = "chunks"
BY DEF Found, Usage, Reservations, Document, Chunks

LEMMA DocumentFound ==
    ASSUME NEW c \in Connections, NEW d \in Docs,
           Found(tx[c].kind, Document(d)), tx'[c] = tx[c], status'[d] = status[d]
    PROVE  Found(tx[c].kind, Document(d))'
BY DEF Found, Document

LEMMA ChunksFound ==
    ASSUME NEW c \in Connections, NEW d \in Docs,
           Found(tx[c].kind, Chunks(d)), tx'[c] = tx[c], chunks'[d] = chunks[d]
    PROVE  Found(tx[c].kind, Chunks(d))'
BY DEF Found, Chunks

\* Taking the first lock of the plan, or finding nothing there, keeps discipline.
LEMMA LockKeeps ==
    ASSUME NEW t \in Transaction, Disciplined(t), t.plan # <<>>
    PROVE  /\ Disciplined([t EXCEPT !.held = @ \union {Head(t.plan)}, !.plan = Tail(@)])
           /\ [t EXCEPT !.held = @ \union {Head(t.plan)}, !.plan = Tail(@)] \in Transaction
           /\ Replaces(t) =>
                 Replaces([t EXCEPT !.held = @ \union {Head(t.plan)}, !.plan = Tail(@)])
<1>1. PICK p \in Seq(Locks) : p = t.plan /\ p # <<>>
  BY DEF Transaction
<1>2. /\ Head(p) = p[1] /\ Head(p) \in Locks /\ 1 \in DOMAIN p
      /\ DOMAIN p = 1 .. Len(p) /\ Len(p) \in Nat \ {0}
  BY <1>1
<1>3. Tail(p) \in Seq(Locks)
  BY <1>1
<1>4. \A i \in DOMAIN Tail(p) : i \in Nat \ {0} /\ i + 1 \in DOMAIN p /\ Tail(p)[i] = p[i + 1]
  BY <1>1
<1>5. \A i \in DOMAIN p : i # 1 => i - 1 \in DOMAIN Tail(p) /\ Tail(p)[i - 1] = p[i]
  BY <1>1
<1>6. PICK u : u = [t EXCEPT !.held = @ \union {Head(p)}, !.plan = Tail(@)]
  OBVIOUS
<1>7. u.kind = t.kind /\ u.held = t.held \union {p[1]} /\ u.plan = Tail(p)
  BY <1>1, <1>2, <1>6 DEF Transaction
<1>8. u \in Transaction
  BY <1>1, <1>2, <1>3, <1>6 DEF Transaction
<1>9. InFootprint(u)
  BY <1>1, <1>2, <1>4, <1>7 DEF Disciplined, InFootprint, Touched, ToSet
<1>10. Distinct(u)
  <2>1. /\ \A i \in DOMAIN p : p[i] \notin t.held
        /\ \A i, j \in DOMAIN p : p[i] = p[j] => i = j
    BY <1>1 DEF Disciplined, Distinct
  <2>2. \A i \in DOMAIN Tail(p) : Tail(p)[i] \notin u.held
    BY <1>2, <1>4, <1>7, <2>1
  <2>3. \A i, j \in DOMAIN Tail(p) : Tail(p)[i] = Tail(p)[j] => i = j
    BY <1>4, <2>1
  <2> QED  BY <1>7, <2>2, <2>3 DEF Distinct
<1>11. GuardsFirst(u)
  <2>1. ASSUME NEW l \in u.held, NEW g \in Locks, Guards(u.kind, g, l)
        PROVE  g \in u.held
    <3>1. CASE l \in t.held
      BY <1>7, <2>1, <3>1 DEF Disciplined, GuardsFirst
    <3>2. CASE l = p[1]
      <4>1. ~\E i \in DOMAIN p : i < 1 /\ p[i] = g
        BY <1>2
      <4> QED  BY <1>1, <1>2, <1>7, <2>1, <3>2, <4>1 DEF Disciplined, GuardsFirst
    <3> QED  BY <1>7, <3>1, <3>2
  <2>2. ASSUME NEW j \in DOMAIN u.plan, NEW g \in Locks, Guards(u.kind, g, u.plan[j])
        PROVE  g \in u.held \/ \E i \in DOMAIN u.plan : i < j /\ u.plan[i] = g
    <3>1. j + 1 \in DOMAIN p /\ u.plan[j] = p[j + 1]
      BY <1>4, <1>7
    <3>2. g \in t.held \/ \E i \in DOMAIN p : i < j + 1 /\ p[i] = g
      BY <1>1, <1>7, <2>2, <3>1 DEF Disciplined, GuardsFirst
    <3>3. ASSUME NEW i \in DOMAIN p, i < j + 1, p[i] = g, i # 1
          PROVE  \E k \in DOMAIN u.plan : k < j /\ u.plan[k] = g
      <4>1. i - 1 \in DOMAIN u.plan /\ u.plan[i - 1] = g
        BY <1>5, <1>7, <3>3
      <4>2. i - 1 < j
        BY <1>2, <1>4, <1>7, <3>3
      <4> QED  BY <4>1, <4>2
    <3> QED  BY <1>7, <3>2, <3>3
  <2> QED  BY <2>1, <2>2 DEF GuardsFirst
<1>12. Ordered(u)
  <2> SUFFICES ASSUME NEW a \in Owners, NEW b \in Owners, NEW j \in DOMAIN u.plan,
                      u.plan[j] = Usage(b)
               PROVE  /\ Usage(a) \in u.held => a < b
                      /\ \A i \in DOMAIN u.plan : i < j /\ u.plan[i] = Usage(a) => a < b
    BY DEF Ordered
  <2>1. j \in Nat \ {0} /\ j + 1 \in DOMAIN p /\ p[j + 1] = Usage(b) /\ 1 < j + 1
    BY <1>4, <1>7
  <2>2. /\ Usage(a) \in t.held => a < b
        /\ \A i \in DOMAIN p : i < j + 1 /\ p[i] = Usage(a) => a < b
    BY <1>1, <2>1 DEF Disciplined, Ordered
  <2>3. Usage(a) \in u.held => a < b
    BY <1>2, <1>7, <2>1, <2>2
  <2>4. ASSUME NEW i \in DOMAIN u.plan, i < j, u.plan[i] = Usage(a)
        PROVE  a < b
    <3>1. i \in Nat /\ i + 1 \in DOMAIN p /\ p[i + 1] = Usage(a)
      BY <1>4, <1>7, <2>4
    <3>2. i + 1 < j + 1
      BY <2>1, <2>4, <3>1
    <3> QED  BY <2>2, <3>1, <3>2
  <2> QED  BY <2>3, <2>4
<1>13. ASSUME Replaces(t)
       PROVE  Replaces(u)
  <2>1. Touched(u) = Touched(t)
    <3>1. ASSUME NEW l \in Touched(t)
          PROVE  l \in Touched(u)
      <4>1. CASE l \in u.held
        BY <4>1 DEF Touched
      <4>2. CASE l \notin u.held
        <5>1. PICK i \in DOMAIN p : p[i] = l
          BY <1>1, <1>7, <3>1, <4>2 DEF Touched, ToSet
        <5>2. i # 1
          BY <1>7, <4>2, <5>1
        <5>3. i - 1 \in DOMAIN u.plan /\ u.plan[i - 1] = l
          BY <1>5, <1>7, <5>1, <5>2
        <5> QED  BY <5>3 DEF Touched, ToSet
      <4> QED  BY <4>1, <4>2
    <3>2. \A l \in Touched(u) : l \in Touched(t)
      BY <1>1, <1>2, <1>4, <1>7 DEF Touched, ToSet
    <3> QED  BY <3>1, <3>2
  <2> QED  BY <1>7, <1>13, <2>1 DEF Replaces
<1> QED  BY <1>1, <1>6, <1>8, <1>9, <1>10, <1>11, <1>12, <1>13 DEF Disciplined

\* Finding nothing at the head of the plan: no usage row, nor the document that
\* a completion needs, can be missing.
LEMMA SkipKeeps ==
    ASSUME NEW t \in Transaction, Disciplined(t), t.plan # <<>>,
           \A l \in Locks : ~Guards(t.kind, Head(t.plan), l)
    PROVE  /\ Disciplined([t EXCEPT !.plan = Tail(@)])
           /\ [t EXCEPT !.plan = Tail(@)] \in Transaction
<1>1. PICK p \in Seq(Locks) : p = t.plan /\ p # <<>>
  BY DEF Transaction
<1>2. /\ Head(p) = p[1] /\ Head(p) \in Locks /\ 1 \in DOMAIN p
      /\ DOMAIN p = 1 .. Len(p) /\ Len(p) \in Nat \ {0}
  BY <1>1
<1>3. Tail(p) \in Seq(Locks)
  BY <1>1
<1>4. \A i \in DOMAIN Tail(p) : i \in Nat \ {0} /\ i + 1 \in DOMAIN p /\ Tail(p)[i] = p[i + 1]
  BY <1>1
<1>5. \A i \in DOMAIN p : i # 1 => i - 1 \in DOMAIN Tail(p) /\ Tail(p)[i - 1] = p[i]
  BY <1>1
<1>6. PICK u : u = [t EXCEPT !.plan = Tail(@)]
  OBVIOUS
<1>7. u.kind = t.kind /\ u.held = t.held /\ u.plan = Tail(p)
  BY <1>1, <1>2, <1>6 DEF Transaction
<1>8. u \in Transaction
  BY <1>1, <1>2, <1>3, <1>6 DEF Transaction
<1>9. InFootprint(u)
  BY <1>1, <1>2, <1>4, <1>7 DEF Disciplined, InFootprint, Touched, ToSet
<1>10. Distinct(u)
  BY <1>1, <1>2, <1>4, <1>7 DEF Disciplined, Distinct
<1>11. GuardsFirst(u)
  <2>1. ASSUME NEW l \in u.held, NEW g \in Locks, Guards(u.kind, g, l)
        PROVE  g \in u.held
    BY <1>7, <2>1 DEF Disciplined, GuardsFirst
  <2>2. ASSUME NEW j \in DOMAIN u.plan, NEW g \in Locks, Guards(u.kind, g, u.plan[j])
        PROVE  g \in u.held \/ \E i \in DOMAIN u.plan : i < j /\ u.plan[i] = g
    <3>1. j + 1 \in DOMAIN p /\ u.plan[j] = p[j + 1] /\ p[j + 1] \in Locks
      BY <1>1, <1>4, <1>7
    <3>2. g \in t.held \/ \E i \in DOMAIN p : i < j + 1 /\ p[i] = g
      BY <1>1, <1>7, <2>2, <3>1 DEF Disciplined, GuardsFirst
    <3>3. ASSUME NEW i \in DOMAIN p, i < j + 1, p[i] = g, i # 1
          PROVE  \E k \in DOMAIN u.plan : k < j /\ u.plan[k] = g
      <4>1. i - 1 \in DOMAIN u.plan /\ u.plan[i - 1] = g
        BY <1>5, <1>7, <3>3
      <4>2. i - 1 < j
        BY <1>2, <1>4, <1>7, <3>3
      <4> QED  BY <4>1, <4>2
    <3>4. p[1] # g
      BY <1>1, <1>2, <1>7, <2>2, <3>1
    <3> QED  BY <1>7, <3>2, <3>3, <3>4
  <2> QED  BY <2>1, <2>2 DEF GuardsFirst
<1>12. Ordered(u)
  <2> SUFFICES ASSUME NEW a \in Owners, NEW b \in Owners, NEW j \in DOMAIN u.plan,
                      u.plan[j] = Usage(b)
               PROVE  /\ Usage(a) \in u.held => a < b
                      /\ \A i \in DOMAIN u.plan : i < j /\ u.plan[i] = Usage(a) => a < b
    BY DEF Ordered
  <2>1. j \in Nat \ {0} /\ j + 1 \in DOMAIN p /\ p[j + 1] = Usage(b)
    BY <1>4, <1>7
  <2>2. /\ Usage(a) \in t.held => a < b
        /\ \A i \in DOMAIN p : i < j + 1 /\ p[i] = Usage(a) => a < b
    BY <1>1, <2>1 DEF Disciplined, Ordered
  <2>3. ASSUME NEW i \in DOMAIN u.plan, i < j, u.plan[i] = Usage(a)
        PROVE  a < b
    <3>1. i \in Nat /\ i + 1 \in DOMAIN p /\ p[i + 1] = Usage(a)
      BY <1>4, <1>7, <2>3
    <3>2. i + 1 < j + 1
      BY <2>1, <2>3, <3>1
    <3> QED  BY <2>2, <3>1, <3>2
  <2> QED  BY <1>7, <2>2, <2>3
<1> QED  BY <1>1, <1>6, <1>8, <1>9, <1>10, <1>11, <1>12 DEF Disciplined

-----------------------------------------------------------------------------
(* Every transaction begins with discipline.                                *)

\* Nothing is held at first, and a plan of a few locks is short enough to look
\* at as it is.
Planned(kind, plan) == [kind |-> kind, held |-> {}, plan |-> plan]

Disciplining(kind, plan) ==
    /\ Planned(kind, plan) \in Transaction
    /\ Disciplined(Planned(kind, plan))
    /\ Replaces(Planned(kind, plan))

LEMMA QuotaPlan ==
    ASSUME NEW o \in Owners
    PROVE  Disciplining("quota", <<Usage(o), Reservations(o)>>)
<1>1. PICK p : p = <<Usage(o), Reservations(o)>>
  OBVIOUS
<1>2. p \in Seq(Locks) /\ DOMAIN p = {1, 2} /\ p[1] = Usage(o) /\ p[2] = Reservations(o)
  BY <1>1, LocksAre
<1>3. PICK t : t = Planned("quota", p)
  OBVIOUS
<1>4. t.kind = "quota" /\ t.held = {} /\ t.plan = p
  BY <1>3 DEF Planned
<1>5. t \in Transaction
  BY <1>2, <1>3 DEF Planned, Transaction
<1>6. InFootprint(t)
  <2>1. {Usage(o), Reservations(o)} \in Footprints("quota")
    BY DEF Footprints
  <2> QED  BY <1>2, <1>4, <2>1 DEF InFootprint, Touched, ToSet
<1>7. Distinct(t)
  BY <1>2, <1>4, LocksDiffer DEF Distinct
<1>8. GuardsFirst(t)
  BY <1>2, <1>4, LocksDiffer DEF GuardsFirst, Guards
<1>9. Ordered(t)
  BY <1>2, <1>4, LocksDiffer DEF Ordered
<1>10. Replaces(t)
  BY <1>4 DEF Replaces
<1> QED  BY <1>1, <1>3, <1>5, <1>6, <1>7, <1>8, <1>9, <1>10 DEF Disciplining, Disciplined

LEMMA DeletePlan ==
    ASSUME NEW d \in Docs
    PROVE  Disciplining("delete", <<Usage(OwnerOf[d]), Chunks(d), Document(d)>>)
<1>1. PICK p : p = <<Usage(OwnerOf[d]), Chunks(d), Document(d)>>
  OBVIOUS
<1>2. /\ p \in Seq(Locks) /\ DOMAIN p = {1, 2, 3} /\ OwnerOf[d] \in Owners
      /\ p[1] = Usage(OwnerOf[d]) /\ p[2] = Chunks(d) /\ p[3] = Document(d)
  <2>1. OwnerOf[d] \in Owners
    BY OwnersAssumption
  <2> QED  BY <1>1, <2>1, LocksAre
<1>3. PICK t : t = Planned("delete", p)
  OBVIOUS
<1>4. t.kind = "delete" /\ t.held = {} /\ t.plan = p
  BY <1>3 DEF Planned
<1>5. t \in Transaction
  BY <1>2, <1>3 DEF Planned, Transaction, StatusAfter
<1>6. InFootprint(t)
  <2>1. {Usage(OwnerOf[d]), Chunks(d), Document(d)} \in Footprints("delete")
    BY DEF Footprints
  <2> QED  BY <1>2, <1>4, <2>1 DEF InFootprint, Touched, ToSet
<1>7. Distinct(t)
  BY <1>2, <1>4, LocksDiffer DEF Distinct
<1>8. GuardsFirst(t)
  <2>1. \A g : ~Guards("delete", g, Usage(OwnerOf[d]))
    BY LocksDiffer DEF Guards
  <2>2. \A g : Guards("delete", g, Chunks(d)) \/ Guards("delete", g, Document(d)) =>
           g = Usage(OwnerOf[d])
    BY LocksDiffer DEF Guards
  <2>3. \A j \in {1, 2, 3} : \A g : Guards("delete", g, p[j]) => 1 < j /\ p[1] = g
    BY <1>2, <2>1, <2>2
  <2> QED  BY <1>2, <1>4, <2>3 DEF GuardsFirst
<1>9. Ordered(t)
  BY <1>2, <1>4, LocksDiffer DEF Ordered
<1>10. Replaces(t)
  BY <1>4 DEF Replaces
<1> QED  BY <1>1, <1>3, <1>5, <1>6, <1>7, <1>8, <1>9, <1>10 DEF Disciplining, Disciplined

LEMMA CompletePlan ==
    ASSUME NEW d \in Docs
    PROVE  Disciplining("complete", <<Document(d), Chunks(d)>>)
<1>1. PICK p : p = <<Document(d), Chunks(d)>>
  OBVIOUS
<1>2. p \in Seq(Locks) /\ DOMAIN p = {1, 2} /\ p[1] = Document(d) /\ p[2] = Chunks(d)
  BY <1>1, LocksAre
<1>3. PICK t : t = Planned("complete", p)
  OBVIOUS
<1>4. t.kind = "complete" /\ t.held = {} /\ t.plan = p
  BY <1>3 DEF Planned
<1>5. t \in Transaction
  BY <1>2, <1>3 DEF Planned, Transaction, StatusAfter
<1>6. InFootprint(t)
  <2>1. {Document(d), Chunks(d)} \in Footprints("complete")
    BY DEF Footprints
  <2> QED  BY <1>2, <1>4, <2>1 DEF InFootprint, Touched, ToSet
<1>7. Distinct(t)
  BY <1>2, <1>4, LocksDiffer DEF Distinct
<1>8. GuardsFirst(t)
  BY <1>2, <1>4, LocksDiffer DEF GuardsFirst, Guards
<1>9. Ordered(t)
  BY <1>2, <1>4, LocksDiffer DEF Ordered
<1>10. Replaces(t)
  <2>1. Touched(t) = {Document(d), Chunks(d)}
    BY <1>2, <1>4 DEF Touched, ToSet
  <2> QED  BY <2>1, LocksDiffer DEF Replaces
<1> QED  BY <1>1, <1>3, <1>5, <1>6, <1>7, <1>8, <1>9, <1>10 DEF Disciplining, Disciplined

\* Fail and RetryOwned lock one document, a sweep several, each once.
LEMMA DocumentPlan ==
    ASSUME NEW kind \in {"fail", "retry", "sweep"}, NEW n \in Nat,
           NEW order \in [1 .. n -> Docs], kind # "sweep" => n = 1,
           \A i, j \in 1 .. n : order[i] = order[j] => i = j
    PROVE  Disciplining(kind, [i \in 1 .. n |-> Document(order[i])])
<1>1. PICK p : p = [i \in 1 .. n |-> Document(order[i])]
  OBVIOUS
<1>2. p \in Seq(Locks) /\ DOMAIN p = 1 .. n /\ \A i \in 1 .. n : p[i] = Document(order[i])
  BY <1>1, LocksAre
<1>3. PICK t : t = Planned(kind, p)
  OBVIOUS
<1>4. t.kind = kind /\ t.held = {} /\ t.plan = p
  BY <1>3 DEF Planned
<1>5. t \in Transaction
  BY <1>2, <1>3 DEF Planned, Transaction, StatusAfter
<1>6. InFootprint(t)
  <2>1. Touched(t) = {Document(order[i]) : i \in 1 .. n}
    BY <1>2, <1>4 DEF Touched, ToSet
  <2>2. CASE kind = "sweep"
    <3>1. Touched(t) \subseteq {Document(d) : d \in Docs}
      BY <2>1
    <3> QED  BY <1>4, <2>2, <3>1 DEF InFootprint, Footprints
  <2>3. CASE kind # "sweep"
    <3>1. 1 \in 1 .. n /\ order[1] \in Docs /\ Touched(t) \subseteq {Document(order[1])}
      BY <2>1, <2>3
    <3> QED  BY <1>4, <2>3, <3>1 DEF InFootprint, Footprints
  <2> QED  BY <2>2, <2>3
<1>7. Distinct(t)
  BY <1>2, <1>4, LocksDiffer DEF Distinct
<1>8. GuardsFirst(t)
  BY <1>2, <1>4, LocksDiffer DEF GuardsFirst, Guards
<1>9. Ordered(t)
  BY <1>2, <1>4, LocksDiffer DEF Ordered
<1>10. Replaces(t)
  BY <1>4 DEF Replaces
<1> QED  BY <1>1, <1>3, <1>5, <1>6, <1>7, <1>8, <1>9, <1>10 DEF Disciplining, Disciplined

\* Half of an even or an odd number.
LEMMA Halves ==
    ASSUME NEW i \in Nat \ {0}
    PROVE  \/ i % 2 = 1 /\ \E k \in Nat \ {0} : i = 2 * k - 1 /\ (i + 1) \div 2 = k
           \/ i % 2 = 0 /\ \E k \in Nat \ {0} : i = 2 * k /\ i \div 2 = k
OBVIOUS

LEMMA RecoverPlan ==
    ASSUME NEW n \in Nat, NEW order \in [1 .. n -> Owners],
           \A i, j \in 1 .. n : i < j => order[i] < order[j]
    PROVE  Disciplining("recover",
               [i \in 1 .. 2 * n |->
                   IF i % 2 = 1 THEN Usage(order[(i + 1) \div 2])
                                ELSE Reservations(order[i \div 2])])
<1>1. PICK p : p = [i \in 1 .. 2 * n |->
                       IF i % 2 = 1 THEN Usage(order[(i + 1) \div 2])
                                    ELSE Reservations(order[i \div 2])]
  OBVIOUS
<1>2. DOMAIN p = 1 .. 2 * n
  BY <1>1
<1>3. ASSUME NEW i \in 1 .. 2 * n
      PROVE  \E k \in 1 .. n : \/ i = 2 * k - 1 /\ p[i] = Usage(order[k])
                               \/ i = 2 * k /\ p[i] = Reservations(order[k])
  <2>1. i \in Nat \ {0} /\ i <= 2 * n
    OBVIOUS
  <2>2. CASE i % 2 = 1
    <3>1. PICK k \in Nat \ {0} : i = 2 * k - 1 /\ (i + 1) \div 2 = k
      BY <2>1, <2>2, Halves
    <3>2. k \in 1 .. n
      BY <2>1, <3>1
    <3> QED  BY <1>1, <2>2, <3>1, <3>2
  <2>3. CASE i % 2 # 1
    <3>1. PICK k \in Nat \ {0} : i = 2 * k /\ i \div 2 = k
      BY <2>1, <2>3, Halves
    <3>2. k \in 1 .. n
      BY <2>1, <3>1
    <3> QED  BY <1>1, <2>3, <3>1, <3>2
  <2> QED  BY <2>2, <2>3
<1>4. ASSUME NEW k \in 1 .. n
      PROVE  2 * k - 1 \in 1 .. 2 * n /\ p[2 * k - 1] = Usage(order[k])
  <2>1. k \in Nat \ {0} /\ 2 * k - 1 \in 1 .. 2 * n
    OBVIOUS
  <2>2. PICK m \in 1 .. n :
           \/ 2 * k - 1 = 2 * m - 1 /\ p[2 * k - 1] = Usage(order[m])
           \/ 2 * k - 1 = 2 * m /\ p[2 * k - 1] = Reservations(order[m])
    BY <1>3, <2>1
  <2>3. m = k
    BY <2>1, <2>2
  <2> QED  BY <2>1, <2>2, <2>3
<1>5. ASSUME NEW k \in 1 .. n, NEW m \in 1 .. n
      PROVE  /\ order[k] \in Owners /\ order[k] \in Nat
             /\ order[k] = order[m] => k = m
             /\ order[k] < order[m] <=> k < m
  <2>1. order[k] \in Owners /\ order[m] \in Owners /\ k \in Nat /\ m \in Nat
    OBVIOUS
  <2>2. order[k] \in Nat /\ order[m] \in Nat
    BY <2>1, OwnersAssumption
  <2> QED  BY <2>1, <2>2
<1>6. p \in Seq(Locks)
  <2>1. \A i \in 1 .. 2 * n : p[i] \in Locks
    BY <1>3, LocksAre
  <2> QED  BY <1>1, <1>2, <2>1
<1>7. PICK t : t = Planned("recover", p)
  OBVIOUS
<1>8. t.kind = "recover" /\ t.held = {} /\ t.plan = p
  BY <1>7 DEF Planned
<1>9. t \in Transaction
  BY <1>6, <1>7 DEF Planned, Transaction
<1>10. InFootprint(t)
  <2>1. ASSUME NEW o \in Owners
        PROVE  Usage(o) \in OwnerLocks /\ Reservations(o) \in OwnerLocks
    <3>1. {Usage(o), Reservations(o)} \in {{Usage(x), Reservations(x)} : x \in Owners}
      OBVIOUS
    <3> QED  BY <3>1 DEF OwnerLocks
  <2>2. \A i \in 1 .. 2 * n : p[i] \in OwnerLocks
    BY <1>3, <2>1
  <2>3. OwnerLocks \in Footprints("recover")
    BY DEF Footprints
  <2> QED  BY <1>2, <1>8, <2>2, <2>3 DEF InFootprint, Touched, ToSet
<1>11. Distinct(t)
  <2> SUFFICES ASSUME NEW i \in 1 .. 2 * n, NEW j \in 1 .. 2 * n, p[i] = p[j]
               PROVE  i = j
    BY <1>2, <1>8 DEF Distinct
  <2>1. PICK k \in 1 .. n : \/ i = 2 * k - 1 /\ p[i] = Usage(order[k])
                            \/ i = 2 * k /\ p[i] = Reservations(order[k])
    BY <1>3
  <2>2. PICK m \in 1 .. n : \/ j = 2 * m - 1 /\ p[j] = Usage(order[m])
                            \/ j = 2 * m /\ p[j] = Reservations(order[m])
    BY <1>3
  <2>3. order[k] = order[m] /\ (i = 2 * k - 1 <=> j = 2 * m - 1)
    BY <2>1, <2>2, LocksDiffer
  <2> QED  BY <1>5, <2>1, <2>2, <2>3
<1>12. GuardsFirst(t)
  <2> SUFFICES ASSUME NEW j \in 1 .. 2 * n, NEW g \in Locks, Guards("recover", g, p[j])
               PROVE  \E i \in 1 .. 2 * n : i < j /\ p[i] = g
    BY <1>2, <1>8 DEF GuardsFirst
  <2>1. PICK o \in Owners : g = Usage(o) /\ p[j] = Reservations(o)
    BY DEF Guards
  <2>2. PICK k \in 1 .. n : j = 2 * k /\ p[j] = Reservations(order[k])
    BY <1>3, <2>1, LocksDiffer
  <2>3. order[k] = o
    BY <2>1, <2>2, LocksDiffer
  <2>4. 2 * k - 1 \in 1 .. 2 * n /\ 2 * k - 1 < j /\ p[2 * k - 1] = g
    BY <1>4, <2>1, <2>2, <2>3
  <2> QED  BY <2>4
<1>13. Ordered(t)
  <2> SUFFICES ASSUME NEW a \in Owners, NEW b \in Owners, NEW j \in 1 .. 2 * n,
                      p[j] = Usage(b), NEW i \in 1 .. 2 * n, i < j, p[i] = Usage(a)
               PROVE  a < b
    BY <1>2, <1>8 DEF Ordered
  <2>1. PICK k \in 1 .. n : i = 2 * k - 1 /\ p[i] = Usage(order[k])
    BY <1>3, LocksDiffer
  <2>2. PICK m \in 1 .. n : j = 2 * m - 1 /\ p[j] = Usage(order[m])
    BY <1>3, LocksDiffer
  <2>3. order[k] = a /\ order[m] = b /\ k < m
    BY <2>1, <2>2, LocksDiffer
  <2> QED  BY <1>5, <2>3
<1>14. Replaces(t)
  BY <1>8 DEF Replaces
<1> QED  BY <1>1, <1>7, <1>9, <1>10, <1>11, <1>12, <1>13, <1>14 DEF Disciplining, Disciplined

-----------------------------------------------------------------------------
(* The invariant.                                                           *)

LEMMA IdleIsDisciplined ==
    Idle \in Transaction /\ Disciplined(Idle) /\ Replaces(Idle) /\ Idle.held = {}
<1>1. PICK t : t = Idle
  OBVIOUS
<1>2. t.kind = "none" /\ t.held = {} /\ t.plan = <<>> /\ DOMAIN t.plan = {}
  BY <1>1 DEF Idle
<1>3. t \in Transaction
  <2>1. <<>> \in Seq(Locks)
    OBVIOUS
  <2> QED  BY <1>1, <2>1 DEF Idle, Transaction
<1>4. InFootprint(t)
  <2>1. {} \in Footprints("none") /\ ToSet(t.plan) = {}
    BY <1>2 DEF Footprints, ToSet
  <2> QED  BY <1>2, <2>1 DEF InFootprint, Touched
<1>5. Distinct(t) /\ GuardsFirst(t) /\ Ordered(t) /\ Replaces(t)
  BY <1>2 DEF Distinct, GuardsFirst, Ordered, Replaces
<1> QED  BY <1>1, <1>2, <1>3, <1>4, <1>5 DEF Disciplined

LEMMA IInvInit == Init => IInv
<1> SUFFICES ASSUME Init PROVE IInv
  OBVIOUS
<1>1. \A c \in Connections : tx[c] = Idle
  BY DEF Init
<1>2. TypeOK
  BY <1>1, IdleIsDisciplined DEF Init, TypeOK
<1> QED
  BY <1>1, <1>2, IdleIsDisciplined DEF IInv, FoundStays

\* A step that changes one transaction, and takes no lock that another one holds.
LEMMA OneTransaction ==
    ASSUME IInv, NEW c \in Connections, NEW t \in Transaction, Disciplined(t),
           tx' = [tx EXCEPT ![c] = t], UNCHANGED <<status, chunks>>,
           \A e \in Connections \ {c} : t.held \intersect tx[e].held = {},
           \A d \in Docs : /\ Document(d) \in t.held => Found(t.kind, Document(d))
                           /\ Chunks(d) \in t.held => Found(t.kind, Chunks(d)),
           Replaces(t)
    PROVE  IInv'
<1>1. tx \in [Connections -> Transaction]
  BY DEF IInv, TypeOK
<1>2. \A e \in Connections : tx'[e] = IF e = c THEN t ELSE tx[e]
  BY <1>1
<1>3. TypeOK'
  <2>1. tx' \in [Connections -> Transaction]
    BY <1>1
  <2>2. \A a, b \in Connections : a # b => tx'[a].held \intersect tx'[b].held = {}
    BY <1>2 DEF IInv, TypeOK
  <2> QED  BY <2>1, <2>2 DEF IInv, TypeOK
<1>4. \A e \in Connections : Disciplined(tx'[e]) /\ Replaces(tx'[e])
  BY <1>2 DEF IInv
<1>5. FoundStays'
  <2>1. ASSUME NEW e \in Connections, NEW d \in Docs
        PROVE  /\ Document(d) \in tx'[e].held => Found(tx'[e].kind, Document(d))
               /\ Chunks(d) \in tx'[e].held => Found(tx'[e].kind, Chunks(d))
    <3>1. CASE e = c
      BY <1>2, <3>1
    <3>2. CASE e # c
      <4>1. tx'[e] = tx[e]
        BY <1>2, <3>2
      <4>2. /\ Document(d) \in tx[e].held => Found(tx[e].kind, Document(d))
            /\ Chunks(d) \in tx[e].held => Found(tx[e].kind, Chunks(d))
        BY DEF IInv, FoundStays
      <4> QED  BY <4>1, <4>2
    <3> QED  BY <3>1, <3>2
  <2>2. ASSUME NEW e \in Connections, NEW d \in Docs
        PROVE  /\ Found(tx'[e].kind, Document(d)) => Found(tx[e].kind, Document(d))'
               /\ Found(tx'[e].kind, Chunks(d)) => Found(tx[e].kind, Chunks(d))'
    BY DEF Found, Document, Chunks
  <2> QED  BY <2>1, <2>2 DEF FoundStays
<1> QED  BY <1>3, <1>4, <1>5 DEF IInv

LEMMA BeginKeeps ==
    ASSUME IInv, NEW c \in Connections, NEW kind, NEW plan, Begin(c, kind, plan),
           Disciplining(kind, plan)
    PROVE  IInv'
<1>1. PICK t \in Transaction : t = Planned(kind, plan) /\ Disciplined(t) /\ Replaces(t)
  BY DEF Disciplining
<1>2. t.held = {} /\ tx' = [tx EXCEPT ![c] = t] /\ UNCHANGED <<status, chunks>>
  BY <1>1 DEF Begin, Planned
<1> QED  BY <1>1, <1>2, OneTransaction

LEMMA LockKeepsInv ==
    ASSUME IInv, NEW c \in Connections, Lock(c)
    PROVE  IInv'
<1>1. PICK l \in Locks : l = Wanted(c) /\ l = tx[c].plan[1]
  BY DEF IInv, TypeOK, Transaction, Lock, Wanted
<1>2. PICK t : t = [tx[c] EXCEPT !.held = @ \union {Head(tx[c].plan)}, !.plan = Tail(@)]
  OBVIOUS
<1>3. tx[c] \in Transaction /\ Disciplined(tx[c]) /\ Replaces(tx[c]) /\ tx[c].plan # <<>>
  BY DEF IInv, TypeOK, Lock
<1>4. t \in Transaction /\ Disciplined(t) /\ Replaces(t)
  BY <1>2, <1>3, LockKeeps
<1>5. t.kind = tx[c].kind /\ t.held = tx[c].held \union {l}
  BY <1>1, <1>2, <1>3 DEF Transaction, Wanted
<1>6. tx' = [tx EXCEPT ![c] = t] /\ UNCHANGED <<status, chunks>> /\ Found(tx[c].kind, l)
  BY <1>1, <1>2 DEF Lock, Wanted, IInv, TypeOK
<1>7. \A e \in Connections \ {c} : t.held \intersect tx[e].held = {}
  <2>1. \A e \in Connections : l \notin tx[e].held
    BY <1>1 DEF Lock, Holder
  <2> QED  BY <1>5, <2>1 DEF IInv, TypeOK
<1>8. \A d \in Docs : /\ Document(d) \in t.held => Found(t.kind, Document(d))
                      /\ Chunks(d) \in t.held => Found(t.kind, Chunks(d))
  BY <1>5, <1>6 DEF IInv, FoundStays
<1> QED  BY <1>4, <1>6, <1>7, <1>8, OneTransaction

LEMMA FindNothingKeeps ==
    ASSUME IInv, NEW c \in Connections, FindNothing(c)
    PROVE  IInv'
<1>1. PICK l \in Locks : l = Wanted(c) /\ l = Head(tx[c].plan)
  BY DEF IInv, TypeOK, Transaction, FindNothing, Wanted
<1>2. PICK t : t = [tx[c] EXCEPT !.plan = Tail(@)]
  OBVIOUS
<1>3. tx[c] \in Transaction /\ Disciplined(tx[c]) /\ Replaces(tx[c]) /\ tx[c].plan # <<>>
  BY DEF IInv, TypeOK, FindNothing
<1>4. ASSUME NEW m \in Locks, Guards(tx[c].kind, l, m)
      PROVE  FALSE
  <2>1. CASE l[1] = "reservations"
    BY <1>4, <2>1, FoundIs DEF Guards
  <2>2. CASE ~Found(tx[c].kind, l) /\ tx[c].kind \in {"sweep", "delete"}
    <3>1. \A o : l # Usage(o)
      <4>1. \A o : Found(tx[c].kind, Usage(o))
        BY FoundIs
      <4> QED  BY <2>2, <4>1
    <3> QED  BY <1>4, <2>2, <3>1 DEF Guards
  <2> QED  BY <1>1, <2>1, <2>2 DEF FindNothing, GoesOn
<1>5. t \in Transaction /\ Disciplined(t)
  BY <1>1, <1>2, <1>3, <1>4, SkipKeeps
<1>6. t.kind = tx[c].kind /\ t.held = tx[c].held /\ t.plan = Tail(tx[c].plan)
  BY <1>2, <1>3 DEF Transaction
<1>7. Replaces(t)
  <2> SUFFICES ASSUME t.kind = "complete", NEW d \in Docs, Document(d) \in Touched(t)
               PROVE  Chunks(d) \in Touched(t)
    BY DEF Replaces
  <2>1. l[1] = "reservations"
    BY <1>1, <1>6 DEF FindNothing, GoesOn
  <2>2. PICK p \in Seq(Locks) : p = tx[c].plan /\ p # <<>>
    BY <1>3 DEF Transaction
  <2>3. /\ \A i \in DOMAIN Tail(p) : i + 1 \in DOMAIN p /\ Tail(p)[i] = p[i + 1]
        /\ \A i \in DOMAIN p : i # 1 => i - 1 \in DOMAIN Tail(p) /\ Tail(p)[i - 1] = p[i]
        /\ p[1] = l
    BY <1>1, <2>2
  <2>4. Document(d) \in Touched(tx[c])
    BY <1>6, <2>2, <2>3 DEF Touched, ToSet
  <2>5. Chunks(d) \in Touched(tx[c]) /\ Chunks(d) # l
    BY <1>3, <1>6, <2>1, <2>4, FoundIs DEF Replaces
  <2> QED  BY <1>6, <2>2, <2>3, <2>5 DEF Touched, ToSet
<1>8. tx' = [tx EXCEPT ![c] = t] /\ UNCHANGED <<status, chunks>>
  BY <1>2 DEF FindNothing, IInv, TypeOK
<1>9. /\ \A e \in Connections \ {c} : t.held \intersect tx[e].held = {}
      /\ \A d \in Docs : /\ Document(d) \in t.held => Found(t.kind, Document(d))
                         /\ Chunks(d) \in t.held => Found(t.kind, Chunks(d))
  BY <1>6 DEF IInv, TypeOK, FoundStays
<1> QED  BY <1>5, <1>7, <1>8, <1>9, OneTransaction

LEMMA RollbackKeeps ==
    ASSUME IInv, NEW c \in Connections, Rollback(c)
    PROVE  IInv'
<1>1. PICK t \in Transaction : t = Idle /\ Disciplined(t) /\ Replaces(t) /\ t.held = {}
  BY IdleIsDisciplined
<1>2. tx' = [tx EXCEPT ![c] = t] /\ UNCHANGED <<status, chunks>>
  BY <1>1 DEF Rollback
<1> QED  BY <1>1, <1>2, OneTransaction

LEMMA CommitKeeps ==
    ASSUME IInv, NEW c \in Connections, Commit(c)
    PROVE  IInv'
<1>1. /\ tx \in [Connections -> Transaction]
      /\ \A e \in Connections : tx'[e] = IF e = c THEN Idle ELSE tx[e]
  BY DEF IInv, TypeOK, Commit
<1>2. ASSUME NEW d \in HeldDocs(c)
      PROVE  /\ d \in Docs /\ Document(d) \in tx[c].held /\ tx[c].kind \in DOMAIN StatusAfter
             /\ tx[c].kind = "retry" => status[d] = "failed"
             /\ tx[c].kind \in {"complete", "fail", "sweep"} => status[d] = "processing"
  <2>1. d \in Docs /\ Document(d) \in tx[c].held
    BY <1>2 DEF HeldDocs
  <2>2. Found(tx[c].kind, Document(d))
    BY <2>1 DEF IInv, FoundStays
  <2>3. \/ tx[c].kind = "delete"
        \/ tx[c].kind = "retry" /\ status[d] = "failed"
        \/ tx[c].kind \in {"complete", "fail", "sweep"} /\ status[d] = "processing"
    BY <2>2, FoundIs
  <2>4. DOMAIN StatusAfter = {"complete", "delete", "fail", "sweep", "retry"}
    BY DEF StatusAfter
  <2> QED  BY <2>1, <2>3, <2>4
<1>3. ASSUME NEW d \in Docs
      PROVE  /\ status'[d] = IF d \in HeldDocs(c) THEN StatusAfter[tx[c].kind] ELSE status[d]
             /\ chunks'[d] = IF d \in Written(c) THEN tx[c].kind = "complete" ELSE chunks[d]
  BY DEF Commit
<1>10. Written(c) = IF tx[c].kind \in {"complete", "delete"} THEN HeldDocs(c) ELSE {}
  <2>1. ASSUME tx[c].kind = "complete", NEW d \in Docs
        PROVE  Chunks(d) \in tx[c].held <=> Document(d) \in tx[c].held
    <3>1. Guards("complete", Document(d), Chunks(d)) /\ Document(d) \in Locks
      BY LocksAre DEF Guards
    <3>2. Chunks(d) \in tx[c].held => Document(d) \in tx[c].held
      BY <2>1, <3>1 DEF IInv, Disciplined, GuardsFirst
    <3>3. Touched(tx[c]) = tx[c].held
      BY DEF Commit, Touched, ToSet
    <3>4. Document(d) \in tx[c].held => Chunks(d) \in tx[c].held
      BY <2>1, <3>3 DEF IInv, Replaces
    <3> QED  BY <3>2, <3>4
  <2>2. CASE tx[c].kind = "complete"
    BY <2>1, <2>2 DEF Written, HeldDocs
  <2>3. CASE tx[c].kind = "delete"
    BY <2>3 DEF Written
  <2>4. CASE tx[c].kind \notin {"complete", "delete"}
    BY <2>4 DEF Written
  <2> QED  BY <2>2, <2>3, <2>4
<1>4. TypeOK'
  <2>1. tx' \in [Connections -> Transaction]
    BY <1>1, IdleIsDisciplined DEF Commit
  <2>2. \A a, b \in Connections : a # b => tx'[a].held \intersect tx'[b].held = {}
    BY <1>1, IdleIsDisciplined DEF IInv, TypeOK
  <2>3. ASSUME NEW d \in Docs
        PROVE  /\ status'[d] \in {"processing", "completed", "failed", "deleted"}
               /\ chunks'[d] = (status'[d] = "completed")
    <3>1. /\ status[d] \in {"processing", "completed", "failed", "deleted"}
          /\ chunks[d] = (status[d] = "completed")
      BY DEF IInv, TypeOK
    <3>2. CASE d \in HeldDocs(c)
      BY <1>2, <1>3, <1>10, <3>1, <3>2 DEF StatusAfter
    <3>3. CASE d \notin HeldDocs(c)
      BY <1>3, <1>10, <3>1, <3>3
    <3> QED  BY <3>2, <3>3
  <2>4. status' \in [Docs -> {"processing", "completed", "failed", "deleted"}]
    BY <2>3 DEF Commit
  <2> QED  BY <2>1, <2>2, <2>3, <2>4 DEF TypeOK
<1>5. \A e \in Connections : Disciplined(tx'[e]) /\ Replaces(tx'[e])
  BY <1>1, IdleIsDisciplined DEF IInv
<1>6. ASSUME NEW e \in Connections, NEW d \in Docs, (Document(d) \in tx[e].held)'
      PROVE  Found(tx[e].kind, Document(d))'
  <2>1. e # c /\ tx'[e] = tx[e]
    BY <1>1, <1>6, IdleIsDisciplined
  <2>2. d \notin HeldDocs(c)
    BY <1>6, <2>1 DEF HeldDocs, IInv, TypeOK
  <2>3. status'[d] = status[d]
    BY <1>3, <2>2
  <2>4. Found(tx[e].kind, Document(d))
    BY <1>6, <2>1 DEF IInv, FoundStays
  <2> QED  BY <2>1, <2>3, <2>4, DocumentFound
<1>7. ASSUME NEW e \in Connections, NEW d \in Docs, (Chunks(d) \in tx[e].held)'
      PROVE  Found(tx[e].kind, Chunks(d))'
  <2>1. e # c /\ tx'[e] = tx[e]
    BY <1>1, <1>7, IdleIsDisciplined
  <2>2. Found(tx[e].kind, Chunks(d))
    BY <1>7, <2>1 DEF IInv, FoundStays
  <2>3. CASE tx[e].kind = "complete"
    BY <2>1, <2>3, FoundIs DEF Found, Chunks
  <2>4. CASE d \notin Written(c)
    <3>1. chunks'[d] = chunks[d]
      BY <1>3, <2>4
    <3> QED  BY <2>1, <2>2, <3>1, ChunksFound
  <2>5. ASSUME tx[e].kind # "complete", d \in Written(c)
        PROVE  FALSE
    <3>1. /\ tx[c].held \intersect tx[e].held = {}
          /\ Usage(OwnerOf[d]) \in Locks
      <4>1. OwnerOf[d] \in Owners
        BY OwnersAssumption
      <4> QED  BY <2>1, <4>1, LocksAre DEF IInv, TypeOK
    <3>2. tx[c].kind # "complete"
      BY <1>7, <2>1, <2>5, <3>1 DEF Written
    <3>3. tx[c].kind = "delete" /\ Document(d) \in tx[c].held
      BY <1>10, <2>5, <3>2 DEF HeldDocs
    <3>4. tx[e].kind = "delete"
      <4>1. PICK F \in Footprints(tx[e].kind) : tx[e].held \subseteq F
        BY DEF IInv, Disciplined, InFootprint, Touched
      <4> QED  BY <1>7, <2>1, <2>5, <4>1, LocksDiffer DEF Footprints, OwnerLocks
    <3>5. /\ Guards("delete", Usage(OwnerOf[d]), Document(d))
          /\ Guards("delete", Usage(OwnerOf[d]), Chunks(d))
      BY DEF Guards
    <3>6. Usage(OwnerOf[d]) \in tx[c].held /\ Usage(OwnerOf[d]) \in tx[e].held
      BY <1>7, <2>1, <3>1, <3>3, <3>4, <3>5 DEF IInv, Disciplined, GuardsFirst
    <3> QED  BY <3>1, <3>6
  <2> QED  BY <2>3, <2>4, <2>5
<1>8. FoundStays'
  BY <1>6, <1>7 DEF FoundStays
<1> QED  BY <1>4, <1>5, <1>8 DEF IInv

LEMMA IInvStep == IInv /\ [Next]_vars => IInv'
<1> SUFFICES ASSUME IInv, [Next]_vars
             PROVE  IInv'
  OBVIOUS
<1>1. CASE UNCHANGED vars
  BY <1>1 DEF vars, IInv, TypeOK, FoundStays, Found, Document, Chunks
<1>2. ASSUME NEW c \in Connections, QuotaTransaction(c)
      PROVE  IInv'
  BY <1>2, QuotaPlan, BeginKeeps DEF QuotaTransaction
<1>3. ASSUME NEW c \in Connections, RecoverExpiredReservations(c)
      PROVE  IInv'
  <2>1. PICK n \in Nat : n = Cardinality(Owners)
    BY OwnersAssumption, FS_CardinalityType
  <2>2. PICK order \in [1 .. n -> Owners] :
           /\ \A i, j \in 1 .. n : i < j => order[i] < order[j]
           /\ Begin(c, "recover",
                    [i \in 1 .. 2 * n |->
                        IF i % 2 = 1 THEN Usage(order[(i + 1) \div 2])
                                     ELSE Reservations(order[i \div 2])])
    BY <1>3, <2>1 DEF RecoverExpiredReservations, RecoveryOrder
  <2> QED  BY <2>2, RecoverPlan, BeginKeeps
<1>4. ASSUME NEW c \in Connections, Delete(c)
      PROVE  IInv'
  BY <1>4, DeletePlan, BeginKeeps DEF Delete
<1>5. ASSUME NEW c \in Connections, Complete(c)
      PROVE  IInv'
  BY <1>5, CompletePlan, BeginKeeps DEF Complete
<1>6. ASSUME NEW c \in Connections, NEW d \in Docs, NEW kind \in {"fail", "retry"},
             Begin(c, kind, <<Document(d)>>)
      PROVE  IInv'
  <2>1. PICK n \in Nat : n = 1
    OBVIOUS
  <2>2. PICK order : order = [i \in 1 .. n |-> d]
    OBVIOUS
  <2>3. Disciplining(kind, <<Document(d)>>)
    <3>1. /\ order \in [1 .. n -> Docs] /\ \A i, j \in 1 .. n : order[i] = order[j] => i = j
          /\ kind \in {"fail", "retry", "sweep"} /\ (kind # "sweep" => n = 1)
      BY <2>1, <2>2
    <3>2. Disciplining(kind, [i \in 1 .. n |-> Document(order[i])])
      BY <3>1, DocumentPlan
    <3>3. [i \in 1 .. n |-> Document(order[i])] = <<Document(d)>>
      BY <2>1, <2>2
    <3> QED  BY <3>2, <3>3
  <2> QED  BY <1>6, <2>3, BeginKeeps
<1>7. ASSUME NEW c \in Connections, ClaimNext(c)
      PROVE  IInv'
  <2>0. PICK exhausted \in SUBSET Docs :
           \E order \in SetToSeqs(exhausted) :
              Begin(c, "sweep", [i \in DOMAIN order |-> Document(order[i])])
    BY <1>7 DEF ClaimNext
  <2>1. PICK order \in SetToSeqs(exhausted) :
           Begin(c, "sweep", [i \in DOMAIN order |-> Document(order[i])])
    BY <2>0
  <2>2. PICK n \in Nat : n = Cardinality(exhausted)
    BY OwnersAssumption, FS_Subset, FS_CardinalityType
  <2>3. /\ order \in [1 .. n -> Docs] /\ DOMAIN order = 1 .. n
        /\ \A i, j \in 1 .. n : order[i] = order[j] => i = j
    BY <2>1, <2>2 DEF SetToSeqs
  <2>4. Disciplining("sweep", [i \in 1 .. n |-> Document(order[i])])
    BY <2>3, DocumentPlan
  <2> QED  BY <2>1, <2>3, <2>4, BeginKeeps
<1> QED
  BY <1>1, <1>2, <1>3, <1>4, <1>5, <1>6, <1>7,
     LockKeepsInv, FindNothingKeeps, CommitKeeps, RollbackKeeps
     DEF Next, Fail, RetryOwned

-----------------------------------------------------------------------------
(* Circles.                                                                 *)

LEMMA LockKinds ==
    \A l \in Locks :
        \/ \E o \in Owners : l = Usage(o)
        \/ \E o \in Owners : l = Reservations(o)
        \/ \E d \in Docs : l = Document(d)
        \/ \E d \in Docs : l = Chunks(d)
BY DEF Locks

\* In a circle, everybody waits for somebody in it and is waited for by somebody
\* in it: as many are waited for as there are, and nobody waits for two.
LEMMA EverybodyWaits ==
    ASSUME IInv, NEW S \in SUBSET Connections, IsCycle(S)
    PROVE  /\ \A c \in S : /\ tx[c].plan # <<>> /\ Found(tx[c].kind, Wanted(c))
                           /\ \E b \in S : Wanted(c) \in tx[b].held
           /\ \A b \in S : \E c \in S : Wanted(c) \in tx[b].held
<1>1. UNION {Blockers(c) : c \in S} = S
  BY DEF IsCycle
<1>2. ASSUME NEW c \in Connections, NEW b \in Blockers(c)
      PROVE  /\ tx[c].plan # <<>> /\ Found(tx[c].kind, Wanted(c))
             /\ b \in Connections /\ Wanted(c) \in tx[b].held
  BY <1>2 DEF Blockers, Holder
<1>3. ASSUME NEW c \in Connections, NEW a \in Blockers(c), NEW b \in Blockers(c)
      PROVE  a = b
  BY <1>2 DEF IInv, TypeOK
<1>4. PICK W : W = {c \in S : Blockers(c) # {}}
  OBVIOUS
<1>5. PICK f : f = [c \in W |-> CHOOSE b : b \in Blockers(c)]
  OBVIOUS
<1>6. \A c \in W : f[c] \in Blockers(c) /\ f[c] \in S
  <2>1. \A c \in W : f[c] \in Blockers(c)
    BY <1>4, <1>5
  <2> QED  BY <1>1, <1>4, <2>1
<1>7. f \in Surjection(W, S)
  <2>1. f \in [W -> S]
    BY <1>5, <1>6
  <2>2. \A b \in S : \E c \in W : f[c] = b
    <3> SUFFICES ASSUME NEW b \in S
                 PROVE  \E c \in W : f[c] = b
      OBVIOUS
    <3>1. PICK c \in S : b \in Blockers(c)
      BY <1>1
    <3>2. c \in W /\ f[c] = b
      BY <1>3, <1>4, <1>6, <3>1
    <3> QED  BY <3>2
  <2> QED  BY <2>1, <2>2 DEF Surjection
<1>8. W = S
  <2>1. IsFiniteSet(S)
    BY OwnersAssumption, FS_Subset
  <2>2. W \in SUBSET S
    BY <1>4
  <2>3. IsFiniteSet(W) /\ Cardinality(W) <= Cardinality(S)
    BY <2>1, <2>2, FS_Subset
  <2>4. Cardinality(S) <= Cardinality(W)
    BY <1>7, <2>3, FS_Surjection
  <2>5. Cardinality(S) \in Nat /\ Cardinality(W) \in Nat
    BY <2>1, <2>3, FS_CardinalityType
  <2>6. Cardinality(S) = Cardinality(W)
    BY <2>3, <2>4, <2>5
  <2> QED  BY <2>1, <2>2, <2>6, FS_Subset
<1>9. ASSUME NEW c \in S
      PROVE  /\ tx[c].plan # <<>> /\ Found(tx[c].kind, Wanted(c))
             /\ \E b \in S : Wanted(c) \in tx[b].held
  BY <1>2, <1>6, <1>8
<1>10. ASSUME NEW b \in S
       PROVE  \E c \in S : Wanted(c) \in tx[b].held
  <2>1. PICK c \in S : b \in Blockers(c)
    BY <1>1
  <2> QED  BY <1>2, <2>1
<1> QED  BY <1>9, <1>10

\* Who waits for a lock holds its guards, but not the lock itself.
LEMMA WaitsWithGuards ==
    ASSUME IInv, NEW c \in Connections, tx[c].plan # <<>>
    PROVE  /\ Wanted(c) \in Locks /\ Wanted(c) \notin tx[c].held
           /\ \A g \in Locks : Guards(tx[c].kind, g, Wanted(c)) => g \in tx[c].held
           /\ \E F \in Footprints(tx[c].kind) : Wanted(c) \in F /\ tx[c].held \subseteq F
           /\ \A a, b \in Owners : Usage(a) \in tx[c].held /\ Wanted(c) = Usage(b) => a < b
<1>1. tx[c] \in Transaction /\ Disciplined(tx[c])
  BY DEF IInv, TypeOK
<1>2. PICK p \in Seq(Locks) : p = tx[c].plan
  BY <1>1 DEF Transaction
<1>3. /\ Wanted(c) = p[1] /\ 1 \in DOMAIN p /\ p[1] \in Locks
      /\ \A i \in DOMAIN p : ~(i < 1)
  BY <1>2 DEF Wanted
<1>4. Wanted(c) \notin tx[c].held
  BY <1>1, <1>2, <1>3 DEF Disciplined, Distinct
<1>5. \A g \in Locks : Guards(tx[c].kind, g, Wanted(c)) => g \in tx[c].held
  BY <1>1, <1>2, <1>3 DEF Disciplined, GuardsFirst
<1>6. \E F \in Footprints(tx[c].kind) : Wanted(c) \in F /\ tx[c].held \subseteq F
  <2>1. p[1] \in ToSet(p)
    BY <1>3 DEF ToSet
  <2> QED  BY <1>1, <1>2, <1>3, <2>1 DEF Disciplined, InFootprint, Touched
<1>7. \A a, b \in Owners : Usage(a) \in tx[c].held /\ Wanted(c) = Usage(b) => a < b
  BY <1>1, <1>2, <1>3 DEF Disciplined, Ordered
<1> QED  BY <1>3, <1>4, <1>5, <1>6, <1>7

\* And who holds a lock holds its guards.
LEMMA HoldsGuards ==
    ASSUME IInv, NEW c \in Connections, NEW l \in tx[c].held, NEW g \in Locks,
           Guards(tx[c].kind, g, l)
    PROVE  g \in tx[c].held
BY DEF IInv, Disciplined, GuardsFirst

\* In a circle, a recovery waits for a usage row, and the others, deletes or
\* sweeps, for documents.
LEMMA WhoWaitsForWhat ==
    ASSUME IInv, NEW S \in SUBSET Connections, IsCycle(S), NEW c \in S
    PROVE  \/ tx[c].kind = "recover" /\ \E o \in Owners : Wanted(c) = Usage(o)
           \/ tx[c].kind \in {"delete", "sweep"} /\ \E d \in Docs : Wanted(c) = Document(d)
<1>1. /\ tx[c].plan # <<>> /\ Found(tx[c].kind, Wanted(c))
      /\ \E b \in S : Wanted(c) \in tx[b].held
      /\ \E l \in Locks : l \in tx[c].held
  <2>1. \E a \in S : Wanted(a) \in tx[c].held /\ Wanted(a) \in Locks
    BY EverybodyWaits, WaitsWithGuards
  <2> QED  BY <2>1, EverybodyWaits
<1>2. PICK b \in S : Wanted(c) \in tx[b].held
  BY <1>1
<1>3. /\ Wanted(c) \in Locks /\ Wanted(c) \notin tx[c].held /\ b # c
      /\ tx[c].held \intersect tx[b].held = {}
  BY <1>1, <1>2, WaitsWithGuards DEF IInv, TypeOK
<1>4. PICK F \in Footprints(tx[c].kind) : Wanted(c) \in F /\ tx[c].held \subseteq F
  BY <1>1, WaitsWithGuards
<1>5. ASSUME NEW o \in Owners, Wanted(c) = Reservations(o)
      PROVE  FALSE
  <2>1. \A kind : Guards(kind, Usage(o), Reservations(o))
    BY DEF Guards
  <2>2. Usage(o) \in tx[c].held /\ Usage(o) \in tx[b].held
    BY <1>1, <1>2, <1>5, <2>1, LocksAre, WaitsWithGuards, HoldsGuards
  <2> QED  BY <1>3, <2>2
<1>6. ASSUME NEW d \in Docs, Wanted(c) = Chunks(d)
      PROVE  FALSE
  <2>1. OwnerOf[d] \in Owners /\ Usage(OwnerOf[d]) \in Locks /\ Document(d) \in Locks
    <3>1. OwnerOf[d] \in Owners
      BY OwnersAssumption
    <3> QED  BY <3>1, LocksAre
  <2>2. ASSUME NEW kind, NEW G \in Footprints(kind), Chunks(d) \in G
        PROVE  kind \in {"delete", "complete"}
    BY <2>2, LocksDiffer DEF Footprints, OwnerLocks
  <2>3. tx[c].kind \in {"delete", "complete"} /\ tx[b].kind \in {"delete", "complete"}
    <3>1. PICK G \in Footprints(tx[b].kind) : tx[b].held \subseteq G
      BY DEF IInv, Disciplined, InFootprint, Touched
    <3> QED  BY <1>2, <1>4, <1>6, <2>2, <3>1
  <2>4. ASSUME NEW a \in {b, c}
        PROVE  /\ tx[a].kind = "complete" =>
                      Document(d) \in tx[a].held /\ status[d] = "processing"
               /\ tx[a].kind = "delete" => status[d] = "completed"
    <3>1. Guards("complete", Document(d), Chunks(d))
      BY DEF Guards
    <3>2. tx[a].kind = "complete" => Document(d) \in tx[a].held
      BY <1>1, <1>2, <1>6, <2>1, <3>1, WaitsWithGuards, HoldsGuards
    <3>3. tx[a].kind = "complete" => status[d] = "processing"
      <4>1. Document(d) \in tx[a].held => Found(tx[a].kind, Document(d))
        BY DEF IInv, FoundStays
      <4> QED  BY <3>2, <4>1, FoundIs
    <3>4. Found(tx[a].kind, Chunks(d))
      BY <1>1, <1>2, <1>6 DEF IInv, FoundStays
    <3>5. tx[a].kind = "delete" => chunks[d]
      BY <3>4, FoundIs
    <3> QED  BY <3>2, <3>3, <3>5 DEF IInv, TypeOK
  <2>5. tx[b].kind # "complete" \/ tx[c].kind # "complete"
    BY <1>3, <2>4
  <2>6. tx[c].kind = "delete" /\ tx[b].kind = "delete"
    BY <2>3, <2>4, <2>5
  <2>7. Usage(OwnerOf[d]) \in tx[c].held /\ Usage(OwnerOf[d]) \in tx[b].held
    <3>1. Guards("delete", Usage(OwnerOf[d]), Chunks(d))
      BY DEF Guards
    <3> QED  BY <1>1, <1>2, <1>6, <2>1, <2>6, <3>1, WaitsWithGuards, HoldsGuards
  <2> QED  BY <1>3, <2>7
<1>7. ASSUME NEW o \in Owners, Wanted(c) = Usage(o)
      PROVE  tx[c].kind = "recover"
  <2>1. tx[c].kind \in {"quota", "recover", "delete"}
    BY <1>4, <1>7, LocksDiffer DEF Footprints
  <2>2. Usage(o) \notin tx[c].held
    BY <1>3, <1>7
  <2>3. CASE tx[c].kind = "quota"
    <3>1. PICK x \in Owners : F = {Usage(x), Reservations(x)}
      BY <1>4, <2>3 DEF Footprints
    <3>2. x = o
      BY <1>4, <1>7, <3>1, LocksDiffer
    <3>3. Reservations(o) \in tx[c].held
      BY <1>1, <1>4, <2>2, <3>1, <3>2
    <3>4. Guards("quota", Usage(o), Reservations(o))
      BY DEF Guards
    <3> QED  BY <2>2, <2>3, <3>3, <3>4, LocksAre, HoldsGuards
  <2>4. CASE tx[c].kind = "delete"
    <3>1. PICK d \in Docs : F = {Usage(OwnerOf[d]), Chunks(d), Document(d)}
      BY <1>4, <2>4 DEF Footprints
    <3>2. OwnerOf[d] = o
      BY <1>4, <1>7, <3>1, LocksDiffer
    <3>3. PICK l \in tx[c].held : l \in {Chunks(d), Document(d)}
      BY <1>1, <1>4, <2>2, <3>1, <3>2
    <3>4. Guards("delete", Usage(o), l)
      BY <3>2, <3>3 DEF Guards
    <3> QED  BY <2>2, <2>4, <3>3, <3>4, LocksAre, HoldsGuards
  <2> QED  BY <2>1, <2>3, <2>4
<1>8. ASSUME NEW d \in Docs, Wanted(c) = Document(d)
      PROVE  tx[c].kind \in {"delete", "sweep"}
  <2>1. tx[c].kind \in {"delete", "complete", "fail", "retry", "sweep"}
    BY <1>4, <1>8, LocksDiffer DEF Footprints, OwnerLocks
  <2>2. Document(d) \notin tx[c].held
    BY <1>3, <1>8
  <2>3. tx[c].kind \notin {"fail", "retry"}
    <3>1. ASSUME tx[c].kind \in {"fail", "retry"}
          PROVE  F = {Document(d)}
      BY <1>4, <1>8, <3>1, LocksDiffer DEF Footprints
    <3> QED  BY <1>1, <1>4, <2>2, <3>1
  <2>4. CASE tx[c].kind = "complete"
    <3>1. PICK e \in Docs : F = {Document(e), Chunks(e)}
      BY <1>4, <2>4 DEF Footprints
    <3>2. e = d
      BY <1>4, <1>8, <3>1, LocksDiffer
    <3>3. Chunks(d) \in tx[c].held
      BY <1>1, <1>4, <2>2, <3>1, <3>2
    <3>4. Guards("complete", Document(d), Chunks(d))
      BY DEF Guards
    <3> QED  BY <2>2, <2>4, <3>3, <3>4, LocksAre, HoldsGuards
  <2> QED  BY <2>1, <2>3, <2>4
<1> QED  BY <1>3, <1>5, <1>6, <1>7, <1>8, LockKinds

\* A recovery in a circle holds the usage row of a smaller owner, which another
\* recovery in it waits for: there is none that waits for the smallest.
LEMMA NoRecoveryWaits ==
    ASSUME IInv, NEW S \in SUBSET Connections, IsCycle(S), NEW c \in S
    PROVE  tx[c].kind # "recover"
<1>1. PICK T : T = {o \in Owners : \E a \in S : Wanted(a) = Usage(o)}
  OBVIOUS
<1>2. ASSUME NEW o \in T
      PROVE  \E p \in T : p < o
  <2>1. PICK a \in S : Wanted(a) = Usage(o)
    BY <1>1
  <2>2. tx[a].kind = "recover" /\ tx[a].plan # <<>>
    BY <2>1, WhoWaitsForWhat, EverybodyWaits, LocksDiffer
  <2>3. PICK b \in S : Wanted(b) \in tx[a].held
    BY EverybodyWaits
  <2>4. Wanted(b) \in OwnerLocks
    <3>1. PICK F \in Footprints("recover") : tx[a].held \subseteq F
      BY <2>2, WaitsWithGuards
    <3> QED  BY <2>3, <3>1 DEF Footprints
  <2>5. \A d \in Docs : Document(d) \notin OwnerLocks
    BY LocksDiffer DEF OwnerLocks
  <2>6. PICK p \in Owners : Wanted(b) = Usage(p)
    BY <2>4, <2>5, WhoWaitsForWhat
  <2>7. p < o
    BY <1>1, <2>1, <2>2, <2>3, <2>6, WaitsWithGuards
  <2> QED  BY <1>1, <2>6, <2>7
<1>3. T \subseteq Nat
  BY <1>1, OwnersAssumption
<1>4. T = {}
  <2>1. ASSUME T # {}
        PROVE  \E o \in T : \A p \in T : ~(<<p, o>> \in OpToRel(<, Nat))
    BY <1>3, <2>1, NatLessThanWellFounded, WFMin
  <2>2. \A o, p \in Nat : p < o => <<p, o>> \in OpToRel(<, Nat)
    BY DEF OpToRel
  <2> QED  BY <1>2, <1>3, <2>1, <2>2
<1> QED  BY <1>1, <1>4, WhoWaitsForWhat

\* A delete in a circle holds a usage row that a recovery in it waits for.
LEMMA NoDeleteWaits ==
    ASSUME IInv, NEW S \in SUBSET Connections, IsCycle(S), NEW c \in S
    PROVE  tx[c].kind # "delete"
<1> SUFFICES ASSUME tx[c].kind = "delete"
             PROVE  FALSE
  OBVIOUS
<1>1. PICK d \in Docs : Wanted(c) = Document(d)
  BY WhoWaitsForWhat
<1>2. tx[c].plan # <<>> /\ Document(d) \notin tx[c].held
  BY <1>1, EverybodyWaits, WaitsWithGuards
<1>3. PICK F \in Footprints("delete") : Document(d) \in F /\ tx[c].held \subseteq F
  BY <1>1, <1>2, WaitsWithGuards
<1>4. PICK e \in Docs : F = {Usage(OwnerOf[e]), Chunks(e), Document(e)}
  BY <1>3 DEF Footprints
<1>5. e = d
  BY <1>3, <1>4, LocksDiffer
<1>6. PICK a \in S : Wanted(a) \in tx[c].held
  BY EverybodyWaits
<1>7. Wanted(a) \in {Usage(OwnerOf[d]), Chunks(d)}
  BY <1>2, <1>3, <1>4, <1>5, <1>6
<1>8. \E x \in Docs : Wanted(a) = Document(x)
  BY WhoWaitsForWhat, NoRecoveryWaits
<1> QED  BY <1>7, <1>8, LocksDiffer

-----------------------------------------------------------------------------
(* The theorems.                                                            *)

LEMMA Invariant == Spec => []IInv
BY IInvInit, IInvStep, PTL DEF Spec

\* No lock ever has two holders, and a document has chunks exactly when it is
\* completed, in whatever order the transactions take their locks.
THEOREM LocksAreExclusive == Spec => []TypeOK
BY Invariant, PTL DEF IInv

\* The lock order of database.go is sound: however many connections there are,
\* whatever they run and however many owners a recovery goes through, no request
\* and no recovery is in a circle of waiting transactions.
THEOREM OnlySweepsWaitInCircles == Spec => []OnlySweepsDeadlock
<1>1. IInv => OnlySweepsDeadlock
  BY WhoWaitsForWhat, NoRecoveryWaits, NoDeleteWaits DEF OnlySweepsDeadlock
<1> QED  BY <1>1, Invariant, PTL
=============================================================================
