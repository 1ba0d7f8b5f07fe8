-------------------------- MODULE Accounts_proofs --------------------------
(***************************************************************************)
(* Proofs that the variables of Accounts keep their types, that a revoked  *)
(* session stays revoked and that logins are limited, for any numbers of   *)
(* requests, limits and times.                                             *)
(***************************************************************************)
EXTENDS Accounts, FiniteSetTheorems, TLAPS

\* What a request knows of the account is no newer than the account, and
\* nothing is known of an account that does not exist.
NoneAhead ==
    /\ ~exists => version = 0
    /\ \A e \in Entries : entry[e].pc \in {"read", "session"} =>
          exists /\ entry[e].version <= version
    /\ \A o \in Logouts : logout[o].pc = "checked" => exists

\* A token is older than every logout after it.
RevokedAreOlder ==
    \A e \in revoked : entry[e].pc = "session" /\ entry[e].version < version

IInv == TypeOK /\ NoneAhead /\ RevokedAreOlder

-----------------------------------------------------------------------------
\* Every variable has its type at first.
LEMMA TypeInit == Init => TypeOK
  <1> SUFFICES ASSUME Init PROVE TypeOK
    OBVIOUS
  <1> USE DEF Init
  <1>1. now \in 0 .. MaxTime /\ version \in Nat
    BY LimitsAssumption
  <1>2. exists \in BOOLEAN /\ revoked \subseteq Entries
    OBVIOUS
  <1>3. bucket \in [Windows -> 0 .. LoginLimit]
    BY LimitsAssumption
  <1>4. entry \in [Entries -> Entry]
    BY DEF Entry
  <1>5. logout \in [Logouts -> Logout]
    BY DEF Logout
  <1> QED BY <1>1, <1>2, <1>3, <1>4, <1>5 DEF TypeOK

\* A step of a registration or a login keeps the type of its record.
LEMMA EntryStep ==
    ASSUME TypeOK, NEW e \in Entries, EntryNext(e)
    PROVE  entry' \in [Entries -> Entry]
  <1> USE DEF TypeOK, Entry
  <1>1. CASE Allow(e)
    BY <1>1 DEF Allow
  <1>2. CASE TooManyAttempts(e) \/ CreateFails(e)
    BY <1>2 DEF TooManyAttempts, CreateFails, Goto
  <1>3. CASE Create(e)
    BY <1>3 DEF Create
  <1>4. CASE ReadUser(e)
    BY <1>4 DEF ReadUser, Goto
  <1>5. CASE Authenticate(e)
    BY <1>5 DEF Authenticate
  <1> QED BY <1>1, <1>2, <1>3, <1>4, <1>5 DEF EntryNext

\* Every step keeps the types.
LEMMA TypeStep == TypeOK /\ [Next]_vars => TypeOK'
  <1> SUFFICES ASSUME TypeOK, [Next]_vars PROVE TypeOK'
    OBVIOUS
  <1>1. CASE Tick
    <2>1. now' \in 0 .. MaxTime
      BY <1>1, LimitsAssumption DEF Tick, TypeOK
    <2> QED BY <1>1, <2>1 DEF Tick, TypeOK
  <1>2. ASSUME NEW e \in Entries, EntryNext(e) PROVE TypeOK'
    <2>1. entry' \in [Entries -> Entry]
      BY <1>2, EntryStep
    <2>2. CASE Allow(e)
      <3> DEFINE k == WindowStart(now)
      <3>1. bucket[k] < LoginLimit /\ bucket' = [bucket EXCEPT ![k] = @ + 1]
        BY <2>2 DEF Allow, Admits
      <3> HIDE DEF k
      <3>2. bucket' \in [Windows -> 0 .. LoginLimit]
        <4>1. ASSUME NEW i \in Windows PROVE bucket'[i] \in 0 .. LoginLimit
          <5>1. bucket[i] \in 0 .. LoginLimit
            BY DEF TypeOK
          <5>2. CASE i = k
            <6>1. bucket'[i] = bucket[i] + 1 /\ bucket[i] < LoginLimit
              BY <3>1, <5>2 DEF TypeOK
            <6> QED BY <5>1, <6>1, LimitsAssumption
          <5>3. CASE i # k
            BY <3>1, <5>1, <5>3 DEF TypeOK
          <5> QED BY <5>2, <5>3
        <4> QED BY <3>1, <4>1 DEF TypeOK
      <3> QED BY <2>1, <2>2, <3>2 DEF Allow, TypeOK
    <2>3. CASE Create(e)
      BY <2>1, <2>3 DEF Create, TypeOK
    <2>4. CASE TooManyAttempts(e) \/ CreateFails(e) \/ ReadUser(e) \/ Authenticate(e)
      BY <2>1, <2>4 DEF TooManyAttempts, CreateFails, ReadUser, Authenticate, TypeOK
    <2> QED BY <1>2, <2>2, <2>3, <2>4 DEF EntryNext
  <1>3. ASSUME NEW o \in Logouts, LogoutNext(o) PROVE TypeOK'
    <2>1. CASE LogoutUnauthenticated(o) \/ LogoutFails(o)
      <3>1. logout' \in [Logouts -> Logout]
        BY <2>1 DEF LogoutUnauthenticated, LogoutFails, TypeOK, Logout
      <3> QED BY <2>1, <3>1 DEF LogoutUnauthenticated, LogoutFails, TypeOK
    <2>2. CASE LogoutChecked(o)
      <3>1. logout' \in [Logouts -> Logout]
        BY <2>2 DEF LogoutChecked, TypeOK, Logout, Entry
      <3> QED BY <2>2, <3>1 DEF LogoutChecked, TypeOK
    <2>3. CASE LogoutRevokes(o)
      <3>1. logout' \in [Logouts -> Logout]
        BY <2>3 DEF LogoutRevokes, TypeOK, Logout
      <3>2. version' \in Nat /\ revoked' \subseteq Entries
        BY <2>3 DEF LogoutRevokes, Raised, Issued, TypeOK
      <3> QED BY <2>3, <3>1, <3>2 DEF LogoutRevokes, TypeOK
    <2> QED BY <1>3, <2>1, <2>2, <2>3 DEF LogoutNext
  <1>4. CASE UNCHANGED vars
    BY <1>4 DEF vars, TypeOK
  <1> QED BY <1>1, <1>2, <1>3, <1>4 DEF Next

\* The inductive invariant holds at first.
LEMMA IInvInit == Init => IInv
  BY TypeInit DEF Init, IInv, NoneAhead, RevokedAreOlder

\* Every step keeps it.  Only Create and LogoutRevokes write the version: the
\* one finds it at 0, and nobody who has read it; the other raises it.
LEMMA IInvStep == IInv /\ [Next]_vars => IInv'
  <1> SUFFICES ASSUME IInv, [Next]_vars PROVE (NoneAhead /\ RevokedAreOlder)'
    BY TypeStep DEF IInv
  <1> USE DEF IInv, TypeOK, NoneAhead, RevokedAreOlder, Entry, Logout
  <1>1. CASE Tick
    BY <1>1 DEF Tick
  <1>2. ASSUME NEW e \in Entries, EntryNext(e) PROVE (NoneAhead /\ RevokedAreOlder)'
    <2>1. CASE Allow(e)
      BY <2>1 DEF Allow
    <2>2. CASE TooManyAttempts(e)
      BY <2>2 DEF TooManyAttempts, Goto
    <2>3. CASE Create(e)
      <3>1. revoked = {} /\ \A f \in Entries : entry[f].pc \notin {"read", "session"}
        BY <2>3 DEF Create
      <3> QED BY <2>3, <3>1 DEF Create
    <2>4. CASE CreateFails(e)
      BY <2>4 DEF CreateFails, Goto
    <2>5. CASE ReadUser(e)
      BY <2>5 DEF ReadUser, Goto
    <2>6. CASE Authenticate(e)
      BY <2>6 DEF Authenticate
    <2> QED BY <1>2, <2>1, <2>2, <2>3, <2>4, <2>5, <2>6 DEF EntryNext
  <1>3. ASSUME NEW o \in Logouts, LogoutNext(o) PROVE (NoneAhead /\ RevokedAreOlder)'
    <2>1. CASE LogoutUnauthenticated(o)
      BY <2>1 DEF LogoutUnauthenticated
    <2>2. CASE LogoutChecked(o)
      BY <2>2 DEF LogoutChecked, Valid, Issued
    <2>3. CASE LogoutRevokes(o)
      <3>1. exists /\ exists' = exists /\ version' = version + 1
        BY <2>3 DEF LogoutRevokes, Raised
      <3>2. NoneAhead'
        BY <2>3, <3>1 DEF LogoutRevokes
      <3>3. ASSUME NEW f \in revoked' PROVE entry'[f].pc = "session" /\ entry'[f].version < version'
        <4>1. f \in revoked \/ f \in Issued
          BY <2>3, <3>3 DEF LogoutRevokes
        <4> QED BY <2>3, <3>1, <4>1 DEF LogoutRevokes, Issued
      <3> QED BY <3>2, <3>3
    <2>4. CASE LogoutFails(o)
      BY <2>4 DEF LogoutFails
    <2> QED BY <1>3, <2>1, <2>2, <2>3, <2>4 DEF LogoutNext
  <1>4. CASE UNCHANGED vars
    BY <1>4 DEF vars
  <1> QED BY <1>1, <1>2, <1>3, <1>4 DEF Next

-----------------------------------------------------------------------------
\* Every variable keeps its type.
THEOREM TypeCorrect == Spec => []TypeOK
  <1> QED BY TypeInit, TypeStep, PTL DEF Spec

\* No session that had been issued when a logout took effect is ever accepted
\* again (claimsFromRequest compares the versions).
THEOREM LogoutIsFinal == Spec => []RevokedStaysOut
  <1>1. IInv => RevokedStaysOut
    BY DEF IInv, TypeOK, RevokedAreOlder, RevokedStaysOut, Valid
  <1> QED BY IInvInit, IInvStep, <1>1, PTL DEF Spec

-----------------------------------------------------------------------------
(* The limit on logins.  A bucket counts the attempts that were admitted in *)
(* its window, and any time as long as a window touches at most two.        *)

LEMMA Cancel ==
    ASSUME NEW a \in Int, NEW b \in Int, NEW w \in Nat \ {0}, w * a < w * b
    PROVE  a < b
  <1>1. SUFFICES ASSUME a >= b PROVE FALSE
    OBVIOUS
  <1>2. PICK d \in Nat : a = b + d
    <2>1. a - b \in Nat /\ a = b + (a - b)
      BY <1>1
    <2> QED BY <2>1
  <1>3. w * a = w * b + w * d
    BY <1>2
  <1>4. w * d \in Nat /\ w * b \in Int
    OBVIOUS
  <1> QED BY <1>3, <1>4

LEMMA Division ==
    ASSUME NEW n \in Nat, NEW w \in Nat \ {0}
    PROVE  /\ n \div w \in Nat /\ n % w \in Nat
           /\ w * (n \div w) <= n /\ n < w * (n \div w) + w
           /\ n = w * (n \div w) + (n % w)
  OBVIOUS

\* Later times are in later windows.
LEMMA LaterWindow ==
    ASSUME NEW s \in Nat, NEW t \in Nat, s <= t
    PROVE  WindowStart(s) \in Nat /\ WindowStart(t) \in Nat /\ WindowStart(s) <= WindowStart(t)
  <1>1. PICK w : w = LoginWindow
    OBVIOUS
  <1>2. w \in Nat \ {0}
    BY <1>1, LimitsAssumption
  <1>3. PICK p : p = s \div w
    OBVIOUS
  <1>4. PICK q : q = t \div w
    OBVIOUS
  <1>5. /\ p \in Nat /\ q \in Nat
        /\ w * p <= s /\ t < w * q + w
    BY <1>2, <1>3, <1>4, Division
  <1>6. w * p < w * (q + 1)
    <2>1. w * (q + 1) = w * q + w /\ w * p \in Nat /\ w * q \in Nat
      BY <1>2, <1>5
    <2> QED BY <1>2, <1>5, <2>1
  <1>7. q + 1 \in Int /\ p \in Int
    BY <1>5
  <1>8. p < q + 1
    BY <1>2, <1>6, <1>7, Cancel
  <1>9. p <= q
    BY <1>5, <1>8
  <1> QED BY <1>1, <1>3, <1>4, <1>5, <1>9 DEF WindowStart

\* A time of the length of a window ends in the window it starts in, if it
\* starts with it, and else in the next at the latest.
LEMMA TwoWindows ==
    ASSUME NEW t \in Nat, NEW s \in t .. (t + LoginWindow - 1)
    PROVE  /\ WindowStart(s) \in {WindowStart(t), WindowStart(t) + 1}
           /\ t % LoginWindow = 0 => WindowStart(s) = WindowStart(t)
  <1>1. PICK w : w = LoginWindow
    OBVIOUS
  <1>2. w \in Nat \ {0} /\ s \in Nat /\ t <= s /\ s < t + w
    BY <1>1, LimitsAssumption
  <1>3. PICK p : p = s \div w
    OBVIOUS
  <1>4. PICK q : q = t \div w
    OBVIOUS
  <1>5. /\ p \in Nat /\ q \in Nat
        /\ w * p <= s /\ t < w * q + w
        /\ t % w = 0 => t = w * q
    BY <1>2, <1>3, <1>4, Division
  <1>6. q <= p
    BY <1>1, <1>2, <1>3, <1>4, LaterWindow DEF WindowStart
  <1>7. w * p \in Nat /\ w * q \in Nat /\ w * (q + 2) = w * q + w + w /\ w * (q + 1) = w * q + w
    BY <1>2, <1>5
  <1>8. p < q + 2
    <2>1. PICK x \in Nat, y \in Nat : x = w * p /\ y = w * q
      BY <1>7
    <2>2. x <= s /\ t < y + w
      BY <1>5, <2>1
    <2>3. x < y + w + w
      BY <1>2, <2>1, <2>2
    <2>4. w * p < w * (q + 2)
      BY <1>7, <2>1, <2>3
    <2>5. q + 2 \in Int /\ p \in Int
      BY <1>5
    <2> QED BY <1>2, <2>4, <2>5, Cancel
  <1>9. t % w = 0 => p < q + 1
    <2> SUFFICES ASSUME t % w = 0 PROVE p < q + 1
      OBVIOUS
    <2>1. PICK x \in Nat, y \in Nat : x = w * p /\ y = w * q
      BY <1>7
    <2>2. x <= s /\ t = y
      BY <1>5, <2>1
    <2>3. x < y + w
      BY <1>2, <2>1, <2>2
    <2>4. w * p < w * (q + 1)
      BY <1>7, <2>1, <2>3
    <2>5. q + 1 \in Int /\ p \in Int
      BY <1>5
    <2> QED BY <1>2, <2>4, <2>5, Cancel
  <1>10. p \in {q, q + 1} /\ (t % w = 0 => p = q)
    BY <1>5, <1>6, <1>8, <1>9
  <1> QED BY <1>1, <1>3, <1>4, <1>10 DEF WindowStart

\* The logins admitted in a window.
CountedIn(k) == {e \in Logins : entry[e].admitted # NotYet /\ WindowStart(entry[e].admitted) = k}

BucketsCount ==
    /\ \A k \in Windows : bucket[k] = Cardinality(CountedIn(k))
    /\ \A e \in Logins : entry[e].pc = "new" => entry[e].admitted = NotYet

LEMMA FiniteLogins ==
    ASSUME NEW S \in SUBSET Logins
    PROVE  IsFiniteSet(S) /\ Cardinality(S) \in Nat
  <1>1. S \in SUBSET Entries
    BY DEF Entries
  <1>2. IsFiniteSet(S)
    BY <1>1, RequestsAssumption, FS_Subset
  <1> QED BY <1>2, FS_CardinalityType

\* Every time the clock can show is in a window.
LEMMA TimesHaveWindows ==
    ASSUME NEW t \in 0 .. MaxTime
    PROVE  WindowStart(t) \in Windows
  <1>1. t \in Nat /\ MaxTime \in Nat /\ t <= MaxTime
    BY LimitsAssumption
  <1> QED BY <1>1, LaterWindow DEF Windows, WindowStart

\* An attempt that is admitted is counted where it is admitted.
LEMMA AllowCounts ==
    ASSUME TypeOK, BucketsCount, NEW e \in Entries, Allow(e)
    PROVE  BucketsCount'
  <1>1. PICK k : k = WindowStart(now)
    OBVIOUS
  <1>2. /\ e \in Logins /\ now \in 0 .. MaxTime /\ now # NotYet
        /\ bucket' = [bucket EXCEPT ![k] = @ + 1]
        /\ entry' = [entry EXCEPT ![e].pc = "allowed", ![e].admitted = now]
        /\ entry[e].admitted = NotYet
    BY <1>1 DEF Allow, TypeOK, BucketsCount, NotYet
  <1>3. k \in Windows
    BY <1>1, <1>2, TimesHaveWindows
  <1>4. /\ entry'[e].admitted = now /\ entry'[e].pc = "allowed"
        /\ \A f \in Logins : f # e => entry'[f] = entry[f]
    BY <1>2 DEF TypeOK, Entry, Entries
  <1>5. ASSUME NEW i \in Windows PROVE bucket'[i] = Cardinality(CountedIn(i)')
    <2>1. CountedIn(i) \in SUBSET Logins
      BY DEF CountedIn
    <2>2. bucket[i] = Cardinality(CountedIn(i)) /\ IsFiniteSet(CountedIn(i))
      BY <2>1, FiniteLogins DEF BucketsCount
    <2>3. CASE i = k
      <3>1. CountedIn(i)' = CountedIn(i) \union {e} /\ e \notin CountedIn(i)
        BY <1>1, <1>2, <1>4, <2>3 DEF CountedIn, WindowStart
      <3>2. Cardinality(CountedIn(i) \union {e}) = Cardinality(CountedIn(i)) + 1
        BY <2>2, <3>1, FS_AddElement
      <3>3. bucket'[i] = bucket[i] + 1
        BY <1>2, <1>3, <2>3 DEF TypeOK
      <3> QED BY <2>2, <3>1, <3>2, <3>3
    <2>4. CASE i # k
      <3>1. CountedIn(i)' = CountedIn(i)
        BY <1>1, <1>2, <1>4, <2>4 DEF CountedIn, WindowStart
      <3>2. bucket'[i] = bucket[i]
        BY <1>2, <2>4 DEF TypeOK
      <3> QED BY <2>2, <3>1, <3>2
    <2> QED BY <2>3, <2>4
  <1>6. \A f \in Logins : entry'[f].pc = "new" => entry'[f].admitted = NotYet
    BY <1>4 DEF BucketsCount
  <1>7. (\A i \in Windows : bucket[i] = Cardinality(CountedIn(i)))'
    <2>1. \A i \in Windows : bucket'[i] = Cardinality(CountedIn(i)')
      BY <1>5
    <2> QED BY <2>1 DEF Windows
  <1> QED BY <1>6, <1>7 DEF BucketsCount

\* Every step keeps the buckets right.
LEMMA BucketsStep == TypeOK /\ BucketsCount /\ [Next]_vars => BucketsCount'
  <1> SUFFICES ASSUME TypeOK, BucketsCount, [Next]_vars PROVE BucketsCount'
    OBVIOUS
  <1>1. ASSUME UNCHANGED bucket,
               \A f \in Logins : /\ entry'[f].admitted = entry[f].admitted
                                 /\ entry'[f].pc = "new" => entry[f].pc = "new"
        PROVE  BucketsCount'
    <2>1. ASSUME NEW k \in Windows PROVE bucket'[k] = Cardinality(CountedIn(k)')
      <3>1. CountedIn(k)' = CountedIn(k)
        BY <1>1 DEF CountedIn, WindowStart
      <3> QED BY <1>1, <3>1 DEF BucketsCount
    <2>2. (\A k \in Windows : bucket[k] = Cardinality(CountedIn(k)))'
      <3>1. \A k \in Windows : bucket'[k] = Cardinality(CountedIn(k)')
        BY <2>1
      <3> QED BY <3>1 DEF Windows
    <2>3. \A f \in Logins : entry'[f].pc = "new" => entry'[f].admitted = NotYet
      BY <1>1 DEF BucketsCount
    <2> QED BY <2>2, <2>3 DEF BucketsCount
  <1>2. ASSUME NEW e \in Entries, EntryNext(e) PROVE BucketsCount'
    <2>1. CASE Allow(e)
      BY <2>1, AllowCounts
    <2>2. CASE \/ TooManyAttempts(e) \/ Create(e) \/ CreateFails(e)
               \/ ReadUser(e) \/ Authenticate(e)
      <3>1. UNCHANGED bucket
        BY <2>2 DEF TooManyAttempts, Create, CreateFails, ReadUser, Authenticate
      <3>2. ASSUME NEW f \in Logins
            PROVE  /\ entry'[f].admitted = entry[f].admitted
                   /\ entry'[f].pc = "new" => entry[f].pc = "new"
        <4>1. f \in Entries
          BY DEF Entries
        <4>2. CASE TooManyAttempts(e) \/ CreateFails(e)
          BY <4>1, <4>2 DEF TooManyAttempts, CreateFails, Goto, TypeOK, Entry
        <4>3. CASE Create(e)
          BY <4>1, <4>3 DEF Create, TypeOK, Entry
        <4>4. CASE ReadUser(e)
          BY <4>1, <4>4 DEF ReadUser, Goto, TypeOK, Entry
        <4>5. CASE Authenticate(e)
          BY <4>1, <4>5 DEF Authenticate, TypeOK, Entry
        <4> QED BY <2>2, <4>2, <4>3, <4>4, <4>5
      <3> QED BY <1>1, <3>1, <3>2
    <2> QED BY <1>2, <2>1, <2>2 DEF EntryNext
  <1>3. ASSUME \/ Tick \/ (\E o \in Logouts : LogoutNext(o)) \/ UNCHANGED vars
        PROVE  UNCHANGED <<bucket, entry>>
    BY <1>3 DEF Tick, LogoutNext, LogoutUnauthenticated, LogoutChecked, LogoutRevokes,
                LogoutFails, vars
  <1> QED BY <1>1, <1>2, <1>3 DEF Next

\* At most the limit of logins are admitted in one window.
LEMMA OneWindow ==
    ASSUME TypeOK, BucketsCount, NEW k \in Nat
    PROVE  /\ IsFiniteSet(CountedIn(k)) /\ Cardinality(CountedIn(k)) \in Nat
           /\ Cardinality(CountedIn(k)) <= LoginLimit
  <1>1. CountedIn(k) \in SUBSET Logins
    BY DEF CountedIn
  <1>2. IsFiniteSet(CountedIn(k)) /\ Cardinality(CountedIn(k)) \in Nat
    BY <1>1, FiniteLogins
  <1>3. CASE k \in Windows
    <2>1. bucket[k] = Cardinality(CountedIn(k)) /\ bucket[k] \in 0 .. LoginLimit
      BY <1>3 DEF BucketsCount, TypeOK
    <2> QED BY <1>2, <2>1, LimitsAssumption
  <1>4. CASE k \notin Windows
    <2>1. ASSUME NEW e \in CountedIn(k) PROVE FALSE
      <3>1. e \in Entries /\ entry[e].admitted # NotYet /\ WindowStart(entry[e].admitted) = k
        BY <2>1 DEF CountedIn, Entries
      <3>2. entry[e].admitted \in 0 .. MaxTime
        BY <3>1 DEF TypeOK, Entry
      <3> QED BY <1>4, <3>1, <3>2, TimesHaveWindows
    <2>2. CountedIn(k) = {}
      BY <2>1
    <2> QED BY <1>2, <2>2, FS_EmptySet, LimitsAssumption
  <1> QED BY <1>2, <1>3, <1>4

\* The logins of an account are limited: the limit in each window, and twice
\* the limit in any time of that length.
THEOREM LoginsLimited == Spec => []AttemptsAreLimited
  <1>1. Init => BucketsCount
    <2> SUFFICES ASSUME Init PROVE BucketsCount
      OBVIOUS
    <2>1. \A e \in Logins : entry[e].admitted = NotYet
      BY DEF Init, Entries
    <2>2. ASSUME NEW k \in Windows PROVE bucket[k] = Cardinality(CountedIn(k))
      <3>1. CountedIn(k) = {}
        BY <2>1 DEF CountedIn
      <3> QED BY <3>1, FS_EmptySet DEF Init
    <2> QED BY <2>1, <2>2 DEF BucketsCount
  <1>2. ASSUME TypeOK, BucketsCount, NEW t \in 0 .. MaxTime
        PROVE  /\ Cardinality(Admitted(t, t + LoginWindow - 1)) <= 2 * LoginLimit
               /\ t % LoginWindow = 0 =>
                     Cardinality(Admitted(t, t + LoginWindow - 1)) <= LoginLimit
    <2>1. PICK A : A = Admitted(t, t + LoginWindow - 1)
      OBVIOUS
    <2>2. PICK k : k = WindowStart(t)
      OBVIOUS
    <2>3. t \in Nat /\ k \in Nat /\ k + 1 \in Nat
      BY <2>2, LaterWindow, LimitsAssumption
    <2>4. \A e \in A : /\ e \in Logins
                       /\ entry[e].admitted \in t .. (t + LoginWindow - 1)
                       /\ entry[e].admitted # NotYet
      BY <2>1, <2>3, LimitsAssumption DEF Admitted, NotYet
    <2>5. PICK first : first = CountedIn(k)
      OBVIOUS
    <2>6. PICK second : second = CountedIn(k + 1)
      OBVIOUS
    <2>7. /\ IsFiniteSet(first) /\ Cardinality(first) \in Nat /\ Cardinality(first) <= LoginLimit
      BY <1>2, <2>3, <2>5, OneWindow
    <2>8. /\ IsFiniteSet(second) /\ Cardinality(second) \in Nat /\ Cardinality(second) <= LoginLimit
      BY <1>2, <2>3, <2>6, OneWindow
    <2>9. A \subseteq first \union second
      BY <2>2, <2>3, <2>4, <2>5, <2>6, TwoWindows DEF CountedIn
    <2>10. t % LoginWindow = 0 => A \subseteq first
      BY <2>2, <2>3, <2>4, <2>5, TwoWindows DEF CountedIn
    <2>11. /\ A \in SUBSET Logins /\ first \union second \in SUBSET Logins
           /\ first \intersect second \in SUBSET Logins
      BY <2>4, <2>5, <2>6 DEF CountedIn
    <2>12. /\ Cardinality(A) \in Nat /\ IsFiniteSet(first \union second)
           /\ Cardinality(first \union second) \in Nat
           /\ Cardinality(first \intersect second) \in Nat
      BY <2>11, FiniteLogins
    <2>13. Cardinality(first \union second) =
              Cardinality(first) + Cardinality(second) - Cardinality(first \intersect second)
      BY <2>7, <2>8, FS_Union
    <2>14. Cardinality(A) <= Cardinality(first \union second)
      BY <2>9, <2>12, FS_Subset
    <2>15. t % LoginWindow = 0 => Cardinality(A) <= Cardinality(first)
      BY <2>7, <2>10, FS_Subset
    <2>16. Cardinality(A) <= 2 * LoginLimit
      BY <2>7, <2>8, <2>12, <2>13, <2>14, LimitsAssumption
    <2>17. t % LoginWindow = 0 => Cardinality(A) <= LoginLimit
      BY <2>7, <2>12, <2>15, LimitsAssumption
    <2> QED BY <2>1, <2>16, <2>17
  <1>3. TypeOK /\ BucketsCount => AttemptsAreLimited
    BY <1>2 DEF AttemptsAreLimited
  <1> QED BY <1>1, <1>3, TypeInit, TypeStep, BucketsStep, PTL DEF Spec
=============================================================================
