---------------------------- MODULE ServicesProofs ----------------------------
(***************************************************************************)
(* Proofs about the services around the link that MCServices checks        *)
(* together: the status and event stream and cache, the import, the charge *)
(* limits, the Bemfa client, and a restart with a new configuration.  Each *)
(* has an inductive invariant of its own, kept by its own steps; the steps *)
(* of the other parts leave its variables alone.  With those of LinkProofs *)
(* they give the types of all parts.                                       *)
(***************************************************************************)
EXTENDS LinkProofs, FiniteSetTheorems

-----------------------------------------------------------------------------
(* StatusStream. *)

LEMMA StreamNext ==
  ASSUME S!NothingLeftBehind, S!Next PROVE S!NothingLeftBehind'
<1>1. ASSUME NEW d \in Devices, S!EmitStatus(d) \/ S!EmitEvent(d)
      PROVE  S!NothingLeftBehind'
  BY <1>1 DEF S!EmitStatus, S!EmitEvent, S!NothingLeftBehind
<1>2. ASSUME S!Connect \/ S!Send \/ \E d \in Devices : S!Flush(d)
      PROVE  S!NothingLeftBehind'
  BY <1>2 DEF S!Connect, S!Send, S!Flush, S!NothingLeftBehind
<1>3. ASSUME S!Disconnect PROVE S!NothingLeftBehind'
  BY <1>3 DEF S!Disconnect, S!DropBuckets, S!NothingLeftBehind
<1> QED
  BY <1>1, <1>2, <1>3, Zenon DEF S!Next

LEMMA StreamStep == S!NothingLeftBehind /\ [Next]_vars => S!NothingLeftBehind'
<1> SUFFICES ASSUME S!NothingLeftBehind, [Next]_vars PROVE S!NothingLeftBehind'
  OBVIOUS
<1>1. S!Next \/ UNCHANGED sVars
  BY Zenon DEF Next, Handshake, Counter, Stream, Status, Bemfa, Limits, Restart, Import, Scan, vars
<1> QED
  BY <1>1, StreamNext DEF sVars, S!NothingLeftBehind

-----------------------------------------------------------------------------
(* StatusCache. *)

(* A copy that no invalidation came after is no older than the last one. *)
IsCopy(x) ==
    x.of \in Devices /\ (x.ver = -1 \/ x.ver \in 1 .. version[x.of])
CacheTypes ==
    /\ version \in [Devices -> 1 .. MaxVersion]
    /\ announced \in [Devices -> Nat] /\ body \in [Devices -> Nat]
    /\ \A d \in Devices : announced[d] \in 1 .. version[d] /\ body[d] \in 0 .. version[d]
    /\ DOMAIN copied = StatusRequests
    /\ \A r \in StatusRequests : copied[r].ver = 0 \/ IsCopy(copied[r])
    /\ late \subseteq StatusRequests /\ missed \subseteq Devices
CopiesAreCurrent ==
    \A r \in StatusRequests \ late :
       copied[r].ver > 0 => announced[copied[r].of] <= copied[r].ver
CacheInv == CacheTypes /\ CopiesAreCurrent /\ T!BodyIsCurrent

LEMMA CacheInit == Init => CacheInv
<1> SUFFICES ASSUME T!Init PROVE CacheInv
  BY DEF Init
<1>1. MaxVersion \in Nat \ {0}
  BY ServicesAssumption DEF T!CacheConstants
<1>2. CacheTypes
  BY <1>1 DEF T!Init, T!NoCopy, T!None, CacheTypes
<1> QED
  BY <1>2 DEF T!Init, T!NoCopy, T!None, CacheInv, CopiesAreCurrent, T!BodyIsCurrent

LEMMA CacheStays ==
  ASSUME CacheInv, UNCHANGED tVars PROVE CacheInv'
BY DEF tVars, CacheInv, CacheTypes, IsCopy, CopiesAreCurrent, T!BodyIsCurrent

LEMMA CacheNext ==
  ASSUME CacheInv, T!Next PROVE CacheInv'
<1> USE DEF T!None
<1>0. CacheTypes /\ MaxVersion \in Nat
  BY ServicesAssumption DEF CacheInv, T!CacheConstants
<1>1. ASSUME NEW d \in Devices, T!Change(d) PROVE CacheInv'
  <2>1. /\ version[d] < MaxVersion /\ version' = [version EXCEPT ![d] = version[d] + 1]
        /\ UNCHANGED <<announced, body, copied, late, missed>>
    BY <1>1 DEF T!Change
  <2>2. /\ version' \in [Devices -> 1 .. MaxVersion]
        /\ \A q \in Devices : version[q] <= version'[q]
    BY <1>0, <2>1 DEF CacheTypes
  <2>3. \A q \in Devices : announced'[q] \in 1 .. version'[q] /\ body'[q] \in 0 .. version'[q]
    BY <1>0, <2>1, <2>2 DEF CacheTypes
  <2>4. \A r \in StatusRequests : copied'[r].ver = 0 \/ IsCopy(copied[r])'
    BY <1>0, <2>1, <2>2 DEF CacheTypes, IsCopy
  <2>5. CacheTypes'
    BY <1>0, <2>1, <2>2, <2>3, <2>4 DEF CacheTypes
  <2> QED
    BY <2>1, <2>5 DEF CacheInv, CopiesAreCurrent, T!BodyIsCurrent
<1>2. ASSUME NEW d \in Devices, T!Invalidate(d) PROVE CacheInv'
  <2>1. /\ body' = [body EXCEPT ![d] = 0]
        /\ announced' = [announced EXCEPT ![d] = version[d]]
        /\ late' = late \cup {r \in StatusRequests : copied[r].ver > 0 /\ copied[r].of = d}
        /\ missed' = missed \ {d}
        /\ UNCHANGED <<version, copied>>
    BY <1>2 DEF T!Invalidate, T!Without
  <2>2. /\ announced' \in [Devices -> Nat] /\ body' \in [Devices -> Nat]
        /\ announced'[d] = version[d] /\ body'[d] = 0
        /\ \A q \in Devices \ {d} : announced'[q] = announced[q] /\ body'[q] = body[q]
    BY <1>0, <2>1 DEF CacheTypes
  <2>3. CacheTypes'
    <3>1. \A q \in Devices : announced'[q] \in 1 .. version'[q] /\ body'[q] \in 0 .. version'[q]
      BY <1>0, <2>1, <2>2 DEF CacheTypes
    <3>2. \A r \in StatusRequests : copied'[r].ver = 0 \/ IsCopy(copied[r])'
      BY <1>0, <2>1 DEF CacheTypes, IsCopy
    <3> QED
      BY <1>0, <2>1, <2>2, <3>1, <3>2 DEF CacheTypes
  <2>4. CopiesAreCurrent'
    <3> SUFFICES ASSUME NEW r \in StatusRequests, r \notin late', copied[r].ver > 0
                 PROVE  announced'[copied[r].of] <= copied[r].ver
      BY <2>1 DEF CopiesAreCurrent
    <3>1. r \notin late /\ copied[r].of # d
      BY <2>1
    <3>2. copied[r].of \in Devices \ {d}
      BY <1>0, <3>1 DEF CacheTypes, IsCopy
    <3> QED
      BY <2>2, <3>1, <3>2 DEF CacheInv, CopiesAreCurrent
  <2>5. T!BodyIsCurrent'
    BY <2>1, <2>2 DEF CacheInv, T!BodyIsCurrent
  <2> QED
    BY <2>3, <2>4, <2>5 DEF CacheInv
<1>3. ASSUME NEW r \in StatusRequests, NEW d \in Devices, T!Miss(r, d) PROVE CacheInv'
  <2> DEFINE new == [of |-> d, ver |-> -1]
  <2>1. /\ copied' = [copied EXCEPT ![r] = new]
        /\ UNCHANGED <<version, announced, body, late, missed>>
    BY <1>3 DEF T!Miss, T!Locked
  <2>2. new.of = d /\ new.ver = -1
    OBVIOUS
  <2> HIDE DEF new
  <2>3. /\ DOMAIN copied' = StatusRequests
        /\ \A q \in StatusRequests : copied'[q] = IF q = r THEN new ELSE copied[q]
    BY <1>0, <2>1 DEF CacheTypes
  <2>4. /\ version[d] \in 1 .. version[d] /\ announced[d] <= version[d]
    BY <1>0 DEF CacheTypes
  <2>5. \A q \in StatusRequests : copied'[q].ver = 0 \/ IsCopy(copied[q])'
    BY <1>0, <2>1, <2>2, <2>3, <2>4 DEF CacheTypes, IsCopy
  <2>6. CacheTypes'
    BY <1>0, <2>1, <2>3, <2>5 DEF CacheTypes
  <2>7. CopiesAreCurrent'
    BY <2>1, <2>2, <2>3, <2>4 DEF CacheInv, CopiesAreCurrent
  <2> QED
    BY <2>1, <2>6, <2>7 DEF CacheInv, T!BodyIsCurrent
<1>4. ASSUME NEW r \in StatusRequests, T!Copy(r) PROVE CacheInv'
  <2> DEFINE d == copied[r].of
             new == [of |-> d, ver |-> version[d]]
  <2>0. d \in Devices
    BY <1>0, <1>4 DEF T!Copy, T!Locked, CacheTypes, IsCopy
  <2>1. /\ copied' = [copied EXCEPT ![r] = new]
        /\ UNCHANGED <<version, announced, body, late, missed>>
    BY <1>4 DEF T!Copy
  <2>2. new.of = d /\ new.ver = version[d]
    OBVIOUS
  <2> HIDE DEF d, new
  <2>3. /\ DOMAIN copied' = StatusRequests
        /\ \A q \in StatusRequests : copied'[q] = IF q = r THEN new ELSE copied[q]
    BY <1>0, <2>1 DEF CacheTypes
  <2>4. /\ version[d] \in 1 .. version[d] /\ announced[d] <= version[d]
    BY <1>0, <2>0 DEF CacheTypes
  <2>5. \A q \in StatusRequests : copied'[q].ver = 0 \/ IsCopy(copied[q])'
    BY <1>0, <2>0, <2>1, <2>2, <2>3, <2>4 DEF CacheTypes, IsCopy
  <2>6. CacheTypes'
    BY <1>0, <2>1, <2>3, <2>5 DEF CacheTypes
  <2>7. CopiesAreCurrent'
    BY <2>0, <2>1, <2>2, <2>3, <2>4 DEF CacheInv, CopiesAreCurrent
  <2> QED
    BY <2>1, <2>6, <2>7 DEF CacheInv, T!BodyIsCurrent
<1>5. ASSUME NEW r \in StatusRequests, T!Store(r) PROVE CacheInv'
  <2> DEFINE d == copied[r].of
             v == copied[r].ver
  <2>1. /\ v > 0 /\ body' = [body EXCEPT ![d] = v]
        /\ missed' = IF r \in late THEN missed \cup {d} ELSE missed \ {d}
        /\ copied' = [copied EXCEPT ![r] = T!NoCopy]
        /\ late' = late \ {r} /\ UNCHANGED <<version, announced>>
    BY <1>5 DEF T!Store
  <2>2. d \in Devices /\ v \in 1 .. version[d]
    BY <1>0, <2>1 DEF CacheTypes, IsCopy
  <2>3. r \notin late => announced[d] <= v
    BY <2>1 DEF CacheInv, CopiesAreCurrent
  <2>4. /\ DOMAIN copied' = StatusRequests
        /\ \A q \in StatusRequests :
              IF q = r THEN copied'[q].ver = 0 ELSE copied'[q] = copied[q]
    BY <1>0, <2>1 DEF CacheTypes, T!NoCopy
  <2> HIDE DEF d, v
  <2>5. /\ body' \in [Devices -> Nat] /\ body'[d] = v
        /\ \A q \in Devices \ {d} : body'[q] = body[q]
    BY <1>0, <2>1, <2>2 DEF CacheTypes
  <2>6. CacheTypes'
    <3>1. \A q \in Devices : announced'[q] \in 1 .. version'[q] /\ body'[q] \in 0 .. version'[q]
      BY <1>0, <2>1, <2>2, <2>5 DEF CacheTypes
    <3>2. \A q \in StatusRequests : copied'[q].ver = 0 \/ IsCopy(copied[q])'
      BY <1>0, <2>1, <2>4 DEF CacheTypes, IsCopy
    <3> QED
      BY <1>0, <2>1, <2>2, <2>4, <2>5, <3>1, <3>2 DEF CacheTypes
  <2>7. CopiesAreCurrent'
    BY <2>1, <2>4 DEF CacheInv, CopiesAreCurrent
  <2>8. T!BodyIsCurrent'
    BY <2>1, <2>3, <2>5 DEF CacheInv, T!BodyIsCurrent
  <2> QED
    BY <2>6, <2>7, <2>8 DEF CacheInv
<1> QED
  BY <1>1, <1>2, <1>3, <1>4, <1>5, Zenon DEF T!Next

LEMMA CacheStep == CacheInv /\ [Next]_vars => CacheInv'
<1> SUFFICES ASSUME CacheInv, [Next]_vars PROVE CacheInv'
  OBVIOUS
<1>1. T!Next \/ UNCHANGED tVars
  BY Zenon DEF Next, Handshake, Counter, Stream, Status, Bemfa, Limits, Restart, Import, Scan, vars
<1> QED
  BY <1>1, CacheStays, CacheNext

LEMMA CacheTypesHold == CacheInv => T!TypeOK
BY DEF CacheInv, CacheTypes, IsCopy, T!TypeOK, T!None, T!Locked

(* Nothing is kept for a client that is gone, and a body is no older than the
   last invalidation, or has overtaken one that came while it was encoded. *)
THEOREM StreamStaysClean == Spec => []StreamIsClean
<1>1. Init => S!NothingLeftBehind /\ CacheInv
  BY CacheInit DEF Init, S!Init, S!NothingLeftBehind
<1>2. S!NothingLeftBehind /\ CacheInv => StreamIsClean
  BY DEF CacheInv, StreamIsClean
<1> QED
  BY <1>1, <1>2, StreamStep, CacheStep, PTL DEF Spec

-----------------------------------------------------------------------------
(* The statuses that have been emitted, and what each variable has of them. *)
Entries == [of : Devices, status : Nat]
Emitted == {e \in Entries : e.status <= latest[e.of]}

Versions ==
    /\ latest \in [Devices -> 1 .. MaxStatus]
    /\ waiting \in [Devices -> Nat] /\ told \in [Devices -> Nat]
    /\ \A d \in Devices : waiting[d] <= latest[d] /\ told[d] <= latest[d]
QueueTypes ==
    /\ stream \in Seq(Emitted) /\ Len(stream) <= QueueMax
    /\ client \in BOOLEAN /\ toFlush \subseteq Devices
StreamTypes == Versions /\ QueueTypes

LEMMA StreamTypesInit == Init => StreamTypes
<1> SUFFICES ASSUME S!Init PROVE StreamTypes
  BY DEF Init
<1>1. QueueMax \in Nat \ {0} /\ MaxStatus \in Nat \ {0}
  BY ServicesAssumption DEF S!StreamConstants
<1>2. Versions
  BY <1>1 DEF S!Init, S!Nothing, Versions
<1>3. QueueTypes
  <2>1. stream = <<>> /\ client = FALSE /\ toFlush = {}
    BY DEF S!Init
  <2>2. <<>> \in Seq(Emitted) /\ Len(<<>>) = 0
    BY EmptySeq
  <2>3. client \in BOOLEAN /\ toFlush \subseteq Devices
    BY <2>1
  <2>4. stream \in Seq(Emitted)
    BY <2>1, <2>2, Zenon
  <2>5. Len(stream) <= QueueMax
    <3>1. Len(stream) = 0
      BY <2>1, <2>2, Zenon
    <3> QED
      BY <1>1, <3>1
  <2> QED
    BY <2>3, <2>4, <2>5, Zenon DEF QueueTypes
<1> QED
  BY <1>2, <1>3 DEF StreamTypes

(* Statuses stay emitted. *)
LEMMA EmittedGrows ==
  ASSUME Versions, QueueTypes, latest' \in [Devices -> 1 .. MaxStatus],
         \A d \in Devices : latest[d] <= latest'[d]
  PROVE  stream \in Seq(Emitted')
<1>1. Emitted \subseteq Emitted'
  BY DEF Versions, Emitted, Entries
<1> QED
  BY <1>1, SeqMonotonic DEF QueueTypes

(* _put_or_drop keeps to the size of the queue. *)
LEMMA PutTypes ==
  ASSUME Versions, QueueTypes, latest' = latest, NEW entries \in Seq(Emitted),
         S!PutAll(entries)
  PROVE  stream' \in Seq(Emitted') /\ Len(stream') <= QueueMax
<1> DEFINE q == stream \o entries
           n == Len(q)
           over == S!Over(q)
<1>1. q \in Seq(Emitted) /\ n \in Nat
  BY ConcatProperties, LenProperties DEF QueueTypes
<1>2. QueueMax \in Nat \ {0}
  BY ServicesAssumption DEF S!StreamConstants
<1>3. over \in Nat /\ over <= n /\ n - over <= QueueMax
  BY <1>1, <1>2 DEF S!Over
<1>4. stream' = SubSeq(q, over + 1, n)
  BY DEF S!PutAll
<1>5. \A i \in over + 1 .. n : q[i] \in Emitted
  BY <1>1, <1>3, ElementOfSeq
<1> HIDE DEF q, n, over
<1>6. over + 1 \in Int /\ n \in Int
  BY <1>1, <1>3
<1>7. SubSeq(q, over + 1, n) \in Seq(Emitted)
      /\ Len(SubSeq(q, over + 1, n)) = IF over + 1 <= n THEN n - (over + 1) + 1 ELSE 0
  BY <1>5, <1>6, SubSeqProperties
<1>8. Emitted' = Emitted
  BY DEF Emitted
<1> QED
  BY <1>1, <1>2, <1>3, <1>4, <1>7, <1>8

LEMMA EmitTypes ==
  ASSUME StreamTypes, NEW d \in Devices, S!EmitStatus(d) PROVE StreamTypes'
<1>1. /\ latest[d] < MaxStatus /\ latest' = [latest EXCEPT ![d] = latest[d] + 1]
      /\ UNCHANGED <<client, stream, toFlush, told>>
      /\ waiting' = IF client THEN [waiting EXCEPT ![d] = latest'[d]] ELSE waiting
  BY DEF S!EmitStatus
<1>2. /\ latest \in [Devices -> 1 .. MaxStatus] /\ MaxStatus \in Nat
      /\ waiting \in [Devices -> Nat]
  BY ServicesAssumption DEF StreamTypes, Versions, S!StreamConstants
<1>3. latest[d] + 1 \in 1 .. MaxStatus
  BY <1>1, <1>2
<1>4. /\ latest' \in [Devices -> 1 .. MaxStatus]
      /\ \A q \in Devices : latest'[q] = IF q = d THEN latest[q] + 1 ELSE latest[q]
  BY <1>1, <1>2, <1>3
<1>5. \A q \in Devices : latest[q] <= latest'[q]
  BY <1>2, <1>4
<1>6. /\ waiting' \in [Devices -> Nat]
      /\ \A q \in Devices : waiting'[q] = waiting[q] \/ waiting'[q] = latest'[q]
  BY <1>1, <1>2, <1>4
<1>7. Versions'
  <2>1. ASSUME NEW q \in Devices PROVE waiting'[q] <= latest'[q] /\ told'[q] <= latest'[q]
    BY <1>1, <1>2, <1>4, <1>5, <1>6 DEF StreamTypes, Versions
  <2> QED
    BY <1>1, <1>4, <1>6, <2>1 DEF StreamTypes, Versions
<1>8. QueueTypes'
  BY <1>1, <1>4, <1>5, EmittedGrows DEF StreamTypes, QueueTypes
<1> QED
  BY <1>7, <1>8 DEF StreamTypes

LEMMA StreamTypesNext ==
  ASSUME StreamTypes, S!Next PROVE StreamTypes'
<1>0. /\ latest \in [Devices -> 1 .. MaxStatus] /\ MaxStatus \in Nat
      /\ waiting \in [Devices -> Nat] /\ told \in [Devices -> Nat]
      /\ stream \in Seq(Emitted) /\ Len(stream) <= QueueMax
      /\ client \in BOOLEAN /\ toFlush \subseteq Devices
      /\ \A d \in Devices : waiting[d] <= latest[d] /\ told[d] <= latest[d]
  BY ServicesAssumption DEF StreamTypes, Versions, QueueTypes, S!StreamConstants
<1>1. latest' = latest => Emitted' = Emitted
  BY DEF Emitted
<1>2. ASSUME NEW d \in Devices, S!EmitEvent(d) PROVE StreamTypes'
  <2>1. UNCHANGED <<latest, client, toFlush, told>>
    BY <1>2 DEF S!EmitEvent
  <2>2. CASE ~client
    <3>1. UNCHANGED <<stream, waiting>>
      BY <1>2, <2>2 DEF S!EmitEvent
    <3> QED
      BY <1>0, <1>1, <2>1, <3>1 DEF StreamTypes, Versions, QueueTypes
  <2>3. CASE client
    <3> DEFINE first == S!StatusFirst(d)
               last == <<S!Entry(d, 0)>>
    <3>1. S!PutAll(first \o last) /\ waiting' = [waiting EXCEPT ![d] = 0]
      BY <1>2, <2>3 DEF S!EmitEvent
    <3>2. S!Entry(d, 0) \in Emitted /\ S!Entry(d, waiting[d]) \in Emitted
      BY <1>0 DEF S!Entry, Emitted, Entries
    <3>3. first \in Seq(Emitted) /\ last \in Seq(Emitted)
      BY <3>2 DEF S!StatusFirst
    <3>4. first \o last \in Seq(Emitted)
      BY <3>3, ConcatProperties
    <3>5. stream' \in Seq(Emitted') /\ Len(stream') <= QueueMax
      BY <2>1, <3>1, <3>4, PutTypes DEF StreamTypes
    <3>6. Versions'
      BY <1>0, <2>1, <3>1 DEF Versions
    <3> QED
      BY <1>0, <2>1, <3>5, <3>6 DEF StreamTypes, QueueTypes
  <2> QED
    BY <1>0, <2>2, <2>3
<1>3. ASSUME NEW d \in Devices, S!Flush(d) PROVE StreamTypes'
  <2>1. /\ UNCHANGED <<latest, client, stream>>
        /\ toFlush' = toFlush \ {d}
        /\ told' = IF waiting[d] = 0 THEN told ELSE [told EXCEPT ![d] = waiting[d]]
        /\ waiting' = [waiting EXCEPT ![d] = 0]
    BY <1>3 DEF S!Flush
  <2>2. Versions'
    BY <1>0, <2>1 DEF Versions
  <2> QED
    BY <1>0, <1>1, <2>1, <2>2 DEF StreamTypes, QueueTypes
<1>4. ASSUME S!Connect PROVE StreamTypes'
  <2>1. /\ UNCHANGED <<latest, waiting, stream>>
        /\ told' = latest /\ client' = TRUE /\ toFlush' = Devices
    BY <1>4 DEF S!Connect
  <2>2. Versions'
    BY <1>0, <2>1 DEF Versions
  <2> QED
    BY <1>0, <1>1, <2>1, <2>2 DEF StreamTypes, QueueTypes
<1>5. ASSUME S!Send PROVE StreamTypes'
  <2>1. UNCHANGED <<latest, client, waiting>> /\ toFlush' = Devices
    BY <1>5 DEF S!Send
  <2>2. CASE stream = <<>>
    <3>1. UNCHANGED <<stream, told>>
      BY <1>5, <2>2 DEF S!Send
    <3> QED
      BY <1>0, <1>1, <2>1, <3>1 DEF StreamTypes, Versions, QueueTypes
  <2>3. CASE stream # <<>>
    <3> DEFINE e == Head(stream)
    <3>1. /\ stream' = Tail(stream)
          /\ told' = IF e.status = 0 THEN told ELSE [told EXCEPT ![e.of] = e.status]
      BY <1>5, <2>3 DEF S!Send
    <3>2. /\ e \in Emitted /\ Tail(stream) \in Seq(Emitted)
          /\ Len(Tail(stream)) = Len(stream) - 1 /\ Len(stream) \in Nat
      BY <1>0, <2>3, HeadTailProperties, LenProperties
    <3>3. e.of \in Devices /\ e.status \in Nat /\ e.status <= latest[e.of]
      BY <3>2 DEF Emitted, Entries
    <3> HIDE DEF e
    <3>4. Versions'
      BY <1>0, <2>1, <3>1, <3>3 DEF Versions
    <3>5. Len(stream') <= QueueMax
      <4>1. QueueMax \in Nat
        BY ServicesAssumption DEF S!StreamConstants
      <4> QED
        BY <1>0, <3>1, <3>2, <4>1
    <3> QED
      BY <1>0, <1>1, <2>1, <3>1, <3>2, <3>4, <3>5 DEF StreamTypes, QueueTypes
  <2> QED
    BY <2>2, <2>3
<1>6. ASSUME S!Disconnect PROVE StreamTypes'
  <2>1. /\ UNCHANGED <<latest>> /\ client' = FALSE
        /\ waiting' = [d \in Devices |-> 0] /\ told' = [d \in Devices |-> 0]
        /\ stream' = <<>> /\ toFlush' = {}
    BY <1>6 DEF S!Disconnect, S!DropBuckets, S!Nothing
  <2>2. Versions'
    BY <1>0, <2>1 DEF Versions
  <2>3. QueueMax \in Nat
    BY ServicesAssumption DEF S!StreamConstants
  <2>4. QueueTypes'
    <3>1. <<>> \in Seq(Emitted') /\ Len(<<>>) = 0
      BY EmptySeq
    <3>2. client' \in BOOLEAN /\ toFlush' \subseteq Devices
      BY <2>1
    <3>3. stream' \in Seq(Emitted') /\ Len(stream') = 0
      BY <2>1, <3>1, Zenon
    <3>4. Len(stream') <= QueueMax
      BY <2>3, <3>3
    <3> QED
      BY <3>2, <3>3, <3>4, Zenon DEF QueueTypes
  <2> QED
    BY <2>1, <2>2, <2>4 DEF StreamTypes
<1> QED
  BY <1>2, <1>3, <1>4, <1>5, <1>6, EmitTypes, Zenon DEF S!Next

LEMMA StreamTypesStep == StreamTypes /\ [Next]_vars => StreamTypes'
<1> SUFFICES ASSUME StreamTypes, [Next]_vars PROVE StreamTypes'
  OBVIOUS
<1>1. S!Next \/ UNCHANGED sVars
  BY Zenon DEF Next, Handshake, Counter, Stream, Status, Bemfa, Limits, Restart, Import, Scan, vars
<1>2. CASE UNCHANGED sVars
  <2>1. UNCHANGED <<latest, waiting, told, stream, client, toFlush>>
    BY <1>2 DEF sVars
  <2>2. Emitted' = Emitted
    BY <2>1 DEF Emitted
  <2> QED
    BY <2>1, <2>2 DEF StreamTypes, Versions, QueueTypes
<1> QED
  BY <1>1, <1>2, StreamTypesNext

LEMMA StreamTypesHold == StreamTypes => S!TypeOK
BY DEF StreamTypes, Versions, QueueTypes, S!TypeOK

-----------------------------------------------------------------------------
(* CloudImport. *)

ThreadSet == [op : X!Ops \cup {"none"}, calls : Nat, busy : Nat]

(* Who fetches a key holds the lock, unless its handler was cut off. *)
ImportInv ==
    /\ handlers \in [Requests -> {"no", "lock", "run", "done"}]
    /\ threads \in [Requests -> ThreadSet]
    /\ timer \in Nat
    /\ lock \in Requests \cup {X!Nobody}
    /\ \A r \in Requests :
          /\ handlers[r] = "no" => threads[r] = X!NoThread
          /\ handlers[r] = "run" /\ threads[r].op \in {"key", "import"} => lock = r
          /\ handlers[r] = "done" /\ threads[r].op # "none" => r \in cut

LEMMA ImportConstants ==
  /\ X!Nobody \notin Requests
  /\ Ttl \in Nat \ {0}
BY ServicesAssumption DEF X!ImportConstants

LEMMA ImportInit == Init => ImportInv
<1> SUFFICES ASSUME X!Init PROVE ImportInv
  BY DEF Init
<1>1. X!NoThread \in ThreadSet
  BY DEF X!NoThread, X!Working, ThreadSet
<1> QED
  BY <1>1, ImportConstants DEF X!Init, ImportInv

LEMMA ImportStays ==
  ASSUME ImportInv, UNCHANGED <<handlers, threads, timer, lock, cut>>
  PROVE  ImportInv'
BY DEF ImportInv

(* A handler that answers, with its lock and with what its thread is left
   with. *)
LEMMA AnswerStep ==
  ASSUME ImportInv, NEW r \in Requests, X!Answer(r),
         threads' \in [Requests -> ThreadSet],
         \A q \in Requests \ {r} : threads'[q] = threads[q],
         threads'[r].op # "none" => r \in cut',
         cut \subseteq cut', timer' \in Nat,
         lock' = IF lock = r THEN X!Nobody ELSE lock
  PROVE  ImportInv'
<1>1. /\ handlers' \in [Requests -> {"no", "lock", "run", "done"}]
      /\ handlers'[r] = "done"
      /\ \A q \in Requests \ {r} : handlers'[q] = handlers[q]
  BY DEF X!Answer, ImportInv
<1>2. lock' \in Requests \cup {X!Nobody}
  BY DEF ImportInv
<1>3. ASSUME NEW q \in Requests
      PROVE  /\ handlers'[q] = "no" => threads'[q] = X!NoThread
             /\ handlers'[q] = "run" /\ threads'[q].op \in {"key", "import"} => lock' = q
             /\ handlers'[q] = "done" /\ threads'[q].op # "none" => q \in cut'
  <2>1. CASE q = r
    BY <1>1, <2>1
  <2>2. CASE q # r
    BY <1>1, <2>2 DEF ImportInv
  <2> QED
    BY <2>1, <2>2
<1> QED
  BY <1>1, <1>2, <1>3 DEF ImportInv

(* A thread gets something to do, or goes on with it; its op tells what its
   handler has asked it for. *)
LEMMA ThreadStep ==
  ASSUME ImportInv, NEW r \in Requests, UNCHANGED <<timer, lock, cut>>,
         NEW h \in {"no", "lock", "run", "done"}, NEW t \in ThreadSet,
         handlers' = [handlers EXCEPT ![r] = h], threads' = [threads EXCEPT ![r] = t],
         h = "no" => t = X!NoThread,
         h = "run" /\ t.op \in {"key", "import"} => lock = r,
         h = "done" /\ t.op # "none" => r \in cut
  PROVE  ImportInv'
<1>1. /\ handlers' \in [Requests -> {"no", "lock", "run", "done"}]
      /\ threads' \in [Requests -> ThreadSet]
      /\ \A q \in Requests : /\ handlers'[q] = IF q = r THEN h ELSE handlers[q]
                             /\ threads'[q] = IF q = r THEN t ELSE threads[q]
  BY DEF ImportInv
<1> QED
  BY <1>1 DEF ImportInv

LEMMA ImportNext ==
  ASSUME ImportInv, X!Next PROVE ImportInv'
<1>0. /\ handlers \in [Requests -> {"no", "lock", "run", "done"}]
      /\ threads \in [Requests -> ThreadSet] /\ timer \in Nat
  BY DEF ImportInv
<1>1. ASSUME X!Scan PROVE ImportInv'
  BY <1>1, ImportStays DEF X!Scan
<1>2. ASSUME X!Tick PROVE ImportInv'
  <2>1. /\ UNCHANGED <<handlers, lock, cut>>
        /\ threads' = [r \in Requests |->
                          IF X!Runs(r) THEN X!Counted(threads[r]) ELSE threads[r]]
        /\ timer' = IF timer \in 1 .. Ttl THEN timer - 1 ELSE timer
    BY <1>2 DEF X!Tick
  <2>2. timer' \in Nat
    BY <1>0, <2>1
  <2>3. ASSUME NEW r \in Requests
        PROVE  /\ threads'[r] \in ThreadSet /\ threads'[r].op = threads[r].op
               /\ threads[r] = X!NoThread => threads'[r] = X!NoThread
    <3>1. threads[r] \in ThreadSet
      BY <1>0
    <3>2. CASE X!Runs(r)
      <4>1. threads'[r] = X!Counted(threads[r]) /\ threads[r].calls > 0
        BY <2>1, <3>2 DEF X!Runs
      <4>2. X!Counted(threads[r]) \in ThreadSet /\ X!Counted(threads[r]).op = threads[r].op
        <5> DEFINE t == threads[r]
        <5>1. t \in ThreadSet /\ t.calls \in Nat /\ t.calls > 0 /\ t.busy \in Nat
          BY <3>1, <4>1 DEF ThreadSet
        <5>2. CASE t.busy > 1
          <6>1. X!Counted(t) = [t EXCEPT !.busy = t.busy - 1]
            BY <5>1, <5>2 DEF X!Counted
          <6> QED
            BY <5>1, <5>2, <6>1 DEF ThreadSet
        <5>3. CASE t.busy = 1
          <6>1. X!Counted(t) = [t EXCEPT !.busy = 0, !.calls = t.calls - 1]
            BY <5>1, <5>3 DEF X!Counted
          <6> DEFINE u == [t EXCEPT !.busy = 0]
          <6>2. u \in ThreadSet /\ u.op = t.op /\ t.calls - 1 \in Nat
            BY <5>1 DEF ThreadSet
          <6>3. X!Counted(t) = [u EXCEPT !.calls = t.calls - 1]
            BY <6>1
          <6> HIDE DEF t, u
          <6>4. X!Counted(t) \in ThreadSet /\ X!Counted(t).op = t.op
            BY <6>2, <6>3 DEF ThreadSet
          <6> QED
            BY <6>4 DEF t
        <5>4. CASE t.busy = 0
          <6>1. X!Counted(t) = t
            BY <5>1, <5>4 DEF X!Counted
          <6> QED
            BY <5>1, <6>1
        <5> QED
          BY <5>1, <5>2, <5>3, <5>4
      <4>3. threads[r] # X!NoThread
        BY <4>1 DEF X!NoThread, X!Working
      <4> QED
        BY <4>1, <4>2, <4>3
    <3>3. CASE ~X!Runs(r)
      BY <2>1, <3>1, <3>3
    <3> QED
      BY <3>2, <3>3
  <2>4. threads' \in [Requests -> ThreadSet]
    BY <2>1, <2>3
  <2> QED
    BY <2>1, <2>2, <2>3, <2>4 DEF ImportInv
<1>3. ASSUME NEW r \in Requests, NEW calls \in 1 .. MaxCalls, X!Complete(r, calls)
      PROVE  ImportInv'
  <2>1. CASE scanned
    <3>1. X!Working("complete", calls) \in ThreadSet
      BY ServicesAssumption DEF X!Working, ThreadSet, X!Ops, X!ImportConstants
    <3>2. X!Working("complete", calls).op = "complete"
      BY DEF X!Working
    <3>3. /\ handlers' = [handlers EXCEPT ![r] = "run"]
          /\ threads' = [threads EXCEPT ![r] = X!Working("complete", calls)]
          /\ UNCHANGED <<timer, lock, cut>>
      BY <1>3, <2>1 DEF X!Complete
    <3> QED
      BY <3>1, <3>2, <3>3, ThreadStep
  <2>2. CASE ~scanned
    <3>1. /\ X!Answer(r) /\ UNCHANGED <<timer, lock, cut, threads>> /\ handlers[r] = "no"
      BY <1>3, <2>2 DEF X!Complete
    <3>2. threads[r] = X!NoThread /\ threads[r] \in ThreadSet /\ X!NoThread.op = "none"
      BY <3>1 DEF ImportInv, X!NoThread, X!Working
    <3>3. handlers' = [handlers EXCEPT ![r] = "done"]
      BY <3>1 DEF X!Answer
    <3>4. threads' = [threads EXCEPT ![r] = threads[r]]
      BY <1>0, <3>1
    <3> QED
      BY <3>1, <3>2, <3>3, <3>4, ThreadStep
  <2> QED
    BY <2>1, <2>2
<1>4. ASSUME NEW r \in Requests, NEW calls \in 1 .. MaxCalls, NEW op \in {"key", "import"},
             X!Ask(r, op, calls)
      PROVE  ImportInv'
  <2>1. X!Working(op, calls) \in ThreadSet
    BY ServicesAssumption DEF X!Working, ThreadSet, X!Ops, X!ImportConstants
  <2>2. /\ handlers' = [handlers EXCEPT ![r] = "lock"]
        /\ threads' = [threads EXCEPT ![r] = X!Working(op, calls)]
        /\ UNCHANGED <<timer, lock, cut>>
    BY <1>4 DEF X!Ask
  <2> QED
    BY <2>1, <2>2, ThreadStep
<1>5. ASSUME NEW r \in Requests, X!Acquire(r) PROVE ImportInv'
  <2>1. /\ handlers[r] = "lock" /\ lock = X!Nobody /\ lock' = r
        /\ handlers' = [handlers EXCEPT ![r] = "run"] /\ UNCHANGED <<threads, timer, cut>>
    BY <1>5 DEF X!Acquire, X!LockIsFree
  <2>2. /\ handlers' \in [Requests -> {"no", "lock", "run", "done"}]
        /\ \A q \in Requests : handlers'[q] = IF q = r THEN "run" ELSE handlers[q]
    BY <1>0, <2>1
  <2> QED
    BY <2>1, <2>2, ImportConstants DEF ImportInv
<1>6. ASSUME NEW r \in Requests, X!Finish(r) PROVE ImportInv'
  <2>1. X!NoThread \in ThreadSet /\ X!NoThread.op = "none"
    BY DEF X!NoThread, X!Working, ThreadSet
  <2>2. /\ threads' = [threads EXCEPT ![r] = X!NoThread] /\ threads[r].op # "none"
        /\ cut' = cut
    BY <1>6 DEF X!Finish
  <2>3. /\ threads' \in [Requests -> ThreadSet] /\ threads'[r].op = "none"
        /\ \A q \in Requests \ {r} : threads'[q] = threads[q]
    BY <1>0, <2>1, <2>2
  <2>4. CASE handlers[r] = "run"
    <3>1. X!Answer(r) /\ timer' = X!Arm /\ lock' = IF lock = r THEN X!Nobody ELSE lock
      BY <1>6, <2>4 DEF X!Finish
    <3>2. timer' \in Nat
      BY <1>0, <3>1, ImportConstants DEF X!Arm
    <3> QED
      BY <2>2, <2>3, <3>1, <3>2, AnswerStep
  <2>5. CASE handlers[r] # "run"
    <3>1. UNCHANGED <<handlers, lock, timer>>
      BY <1>6, <2>5 DEF X!Finish
    <3>2. handlers' = [handlers EXCEPT ![r] = handlers[r]]
      BY <1>0, <3>1
    <3>3. handlers[r] \in {"no", "lock", "run", "done"}
      BY <1>0
    <3> QED
      BY <2>1, <2>2, <2>5, <3>1, <3>2, <3>3, ThreadStep
  <2> QED
    BY <2>4, <2>5
<1>7. ASSUME NEW r \in Requests, X!CutOff(r) PROVE ImportInv'
  <2>1. X!NoThread \in ThreadSet /\ X!NoThread.op = "none"
    BY DEF X!NoThread, X!Working, ThreadSet
  <2>2. /\ X!Answer(r) /\ timer' = timer
        /\ lock' = IF lock = r THEN X!Nobody ELSE lock
        /\ cut' = IF handlers[r] = "run" THEN cut \union {r} ELSE cut
        /\ threads' = IF handlers[r] = "run" THEN threads
                      ELSE [threads EXCEPT ![r] = X!NoThread]
    BY <1>7 DEF X!CutOff
  <2>3. /\ threads' \in [Requests -> ThreadSet]
        /\ \A q \in Requests \ {r} : threads'[q] = threads[q]
        /\ threads'[r].op # "none" => r \in cut'
    BY <1>0, <2>1, <2>2
  <2>4. cut \subseteq cut' /\ timer' \in Nat
    BY <1>0, <2>2
  <2> QED
    BY <2>2, <2>3, <2>4, AnswerStep
<1>8. ASSUME NEW r \in Requests, X!Call(r) PROVE ImportInv'
  <2>1. /\ threads[r].calls > 0 /\ UNCHANGED <<handlers, timer, lock, cut>>
        /\ threads[r] \in ThreadSet
    BY <1>0, <1>8 DEF X!Call, X!Runs
  <2>2. PICK ticks \in 0 .. X!Slowest(r) : threads' = X!Called(r, ticks)
    BY <1>8 DEF X!Call
  <2> DEFINE t == IF ticks = 0 THEN [threads[r] EXCEPT !.calls = threads[r].calls - 1]
                  ELSE [threads[r] EXCEPT !.busy = ticks]
  <2>3. threads' = [threads EXCEPT ![r] = t]
    BY <1>0, <2>2 DEF X!Called
  <2>4. t \in ThreadSet /\ t.op = threads[r].op
    BY <2>1 DEF ThreadSet
  <2>5. threads[r] # X!NoThread
    BY <2>1 DEF X!NoThread, X!Working
  <2>6. handlers' = [handlers EXCEPT ![r] = handlers[r]]
    BY <1>0, <2>1
  <2> HIDE DEF t
  <2> QED
    BY <1>0, <2>1, <2>3, <2>4, <2>5, <2>6, ThreadStep DEF ImportInv
<1> QED
  BY <1>1, <1>2, <1>3, <1>4, <1>5, <1>6, <1>7, <1>8, Zenon DEF X!Next, X!Work

LEMMA ImportStep == ImportInv /\ [Next]_vars => ImportInv'
<1> SUFFICES ASSUME ImportInv, [Next]_vars PROVE ImportInv'
  OBVIOUS
<1>1. X!Next \/ UNCHANGED xVars
  BY Zenon DEF Next, Handshake, Counter, Stream, Status, Bemfa, Limits, Restart, Import, Scan, vars
<1> QED
  BY <1>1, ImportStays, ImportNext DEF xVars

LEMMA OneAtATime == ImportInv => X!OneFetches
<1> SUFFICES ASSUME ImportInv, cut = {} PROVE X!Cardinality(X!Fetching) <= 1
  BY DEF X!OneFetches
<1>1. ASSUME NEW r \in X!Fetching PROVE lock = r
  <2>1. r \in Requests /\ threads[r].calls > 0 /\ handlers[r] # "lock"
        /\ threads[r].op \in {"key", "import"}
    BY <1>1 DEF X!Fetching, X!Runs
  <2>2. X!NoThread.op = "none"
    BY DEF X!NoThread, X!Working
  <2> QED
    BY <2>1, <2>2 DEF ImportInv
<1>2. X!Fetching = {} \/ X!Fetching = {lock}
  BY <1>1
<1>3. Cardinality({}) = 0 /\ Cardinality({lock}) = 1
  BY FS_EmptySet, FS_Singleton
<1>4. Cardinality(X!Fetching) <= 1
  BY <1>2, <1>3
<1>5. X!Cardinality(X!Fetching) = Cardinality(X!Fetching)
  BY DEF X!Cardinality, Cardinality
<1> QED
  BY <1>4, <1>5

(* One thread at a time fetches keys with a session's client, as long as no
   handler was cut off while its thread ran; and a session whose time is over
   is never brought back by a request that outlives it. *)
THEOREM ImportStaysSafe == Spec => ImportIsSafe
<1>1. Spec => []X!OneFetches
  BY OneAtATime, ImportInit, ImportStep, PTL DEF Spec
<1>2. [Next]_vars => [timer = 0 => timer' = 0]_(X!vars)
  <2> SUFFICES ASSUME [Next]_vars, X!Next, timer = 0 PROVE timer' = 0
    BY Zenon DEF Next, Handshake, Counter, Stream, Status, Bemfa, Limits, Restart, Import, Scan,
                 vars, xVars, X!vars
  <2>1. CASE X!Tick
    BY <2>1 DEF X!Tick
  <2>2. CASE X!Scan
    BY <2>2 DEF X!Scan
  <2>3. ASSUME NEW r \in Requests, X!Work(r) PROVE timer' = 0
    BY <2>3 DEF X!Work, X!Acquire, X!Finish, X!Arm, X!CutOff, X!Call
  <2>4. ASSUME NEW r \in Requests, NEW calls \in 1 .. MaxCalls,
               X!Complete(r, calls) \/ \E op \in {"key", "import"} : X!Ask(r, op, calls)
        PROVE  timer' = 0
    BY <2>4 DEF X!Complete, X!Ask
  <2> QED
    BY <2>1, <2>2, <2>3, <2>4 DEF X!Next
<1>3. Spec => X!ExpiredStaysExpired
  BY <1>2, PTL DEF Spec, X!ExpiredStaysExpired
<1> QED
  BY <1>1, <1>3, PTL DEF ImportIsSafe

(* What the timers and the threads count, and who holds the lock. *)
ImportTypes ==
    /\ timer \in 0 .. Ttl
    /\ age \in [Requests -> 0 .. Limit]
    /\ \A r \in Requests : threads[r].calls \in 0 .. MaxCalls
    /\ lock # X!Nobody => handlers[lock] = "run"

LEMMA ImportTypesInit == Init => ImportTypes
<1> SUFFICES ASSUME X!Init PROVE ImportTypes
  BY DEF Init
<1>1. Ttl \in Nat /\ Limit \in Nat /\ MaxCalls \in Nat
  BY ServicesAssumption DEF X!ImportConstants
<1> QED
  BY <1>1 DEF X!Init, X!NoThread, X!Working, ImportTypes

(* A step of one request. *)
LEMMA RequestTypes ==
  ASSUME ImportInv, ImportTypes, age' = age, timer' \in 0 .. Ttl, NEW r \in Requests,
         \A q \in Requests \ {r} : threads'[q] = threads[q] /\ handlers'[q] = handlers[q],
         threads'[r].calls \in 0 .. MaxCalls,
         lock' = lock \/ lock' = X!Nobody \/ lock' = r,
         lock' = r => handlers'[r] = "run"
  PROVE  ImportTypes'
<1>1. age' \in [Requests -> 0 .. Limit]
  BY DEF ImportTypes
<1>2. \A q \in Requests : threads'[q].calls \in 0 .. MaxCalls
  BY DEF ImportTypes
<1>3. lock' # X!Nobody => handlers'[lock'] = "run"
  BY DEF ImportTypes, ImportInv
<1> QED
  BY <1>1, <1>2, <1>3 DEF ImportTypes

LEMMA TickTypes ==
  ASSUME ImportInv, ImportTypes, X!Tick PROVE ImportTypes'
<1>0. /\ Ttl \in Nat /\ Limit \in Nat /\ MaxCalls \in Nat
      /\ timer \in 0 .. Ttl /\ age \in [Requests -> 0 .. Limit]
      /\ threads \in [Requests -> ThreadSet]
      /\ \A r \in Requests : threads[r].calls \in 0 .. MaxCalls
  BY ServicesAssumption DEF X!ImportConstants, ImportTypes, ImportInv
<1>1. /\ timer' = IF timer \in 1 .. Ttl THEN timer - 1 ELSE timer
      /\ threads' = [r \in Requests |->
                        IF X!Runs(r) THEN X!Counted(threads[r]) ELSE threads[r]]
      /\ age' = [r \in Requests |-> IF X!Waits(r) THEN age[r] + 1 ELSE age[r]]
      /\ \A r \in Requests : X!Waits(r) => age[r] < Limit
      /\ UNCHANGED <<handlers, lock>>
  BY DEF X!Tick
<1>2. timer' \in 0 .. Ttl
  BY <1>0, <1>1
<1>3. age' \in [Requests -> 0 .. Limit]
  <2>1. ASSUME NEW r \in Requests
        PROVE  (IF X!Waits(r) THEN age[r] + 1 ELSE age[r]) \in 0 .. Limit
    BY <1>0, <1>1
  <2> QED
    BY <1>1, <2>1
<1>4. ASSUME NEW r \in Requests PROVE threads'[r].calls \in 0 .. MaxCalls
  <2> DEFINE t == threads[r]
  <2>1. t \in ThreadSet /\ t.calls \in 0 .. MaxCalls /\ t.busy \in Nat
    BY <1>0 DEF ThreadSet
  <2>2. threads'[r] = t \/ (X!Runs(r) /\ threads'[r] = X!Counted(t))
    <3>1. CASE X!Runs(r)
      BY <1>1, <3>1
    <3>2. CASE ~X!Runs(r)
      BY <1>1, <3>2
    <3> QED
      BY <3>1, <3>2
  <2>3. X!Runs(r) => t.calls > 0
    BY DEF X!Runs
  <2> HIDE DEF t
  <2>4. t.calls > 0 => X!Counted(t).calls \in 0 .. MaxCalls
    <3>1. CASE t.busy > 1
      <4>1. X!Counted(t) = [t EXCEPT !.busy = t.busy - 1]
        BY <2>1, <3>1 DEF X!Counted
      <4> QED
        BY <2>1, <4>1 DEF ThreadSet
    <3>2. CASE t.busy = 1
      <4> DEFINE u == [t EXCEPT !.busy = 0]
      <4>1. X!Counted(t) = [u EXCEPT !.calls = t.calls - 1]
        BY <2>1, <3>2 DEF X!Counted
      <4>2. u \in ThreadSet
        BY <2>1 DEF ThreadSet
      <4> HIDE DEF u
      <4> QED
        BY <1>0, <2>1, <4>1, <4>2 DEF ThreadSet
    <3>3. CASE t.busy = 0
      <4>1. X!Counted(t) = t
        BY <2>1, <3>3 DEF X!Counted
      <4> QED
        BY <2>1, <4>1
    <3> QED
      BY <2>1, <3>1, <3>2, <3>3
  <2> QED
    BY <2>1, <2>2, <2>3, <2>4
<1> QED
  BY <1>1, <1>2, <1>3, <1>4 DEF ImportTypes

LEMMA ImportTypesNext ==
  ASSUME ImportInv, ImportTypes, X!Next PROVE ImportTypes'
<1>0. /\ handlers \in [Requests -> {"no", "lock", "run", "done"}]
      /\ threads \in [Requests -> ThreadSet] /\ timer \in 0 .. Ttl
      /\ Ttl \in Nat /\ MaxCalls \in Nat \ {0}
      /\ \A r \in Requests : threads[r].calls \in 0 .. MaxCalls
      /\ lock \in Requests \cup {X!Nobody} /\ X!Nobody \notin Requests
      /\ lock # X!Nobody => handlers[lock] = "run"
  BY ServicesAssumption DEF X!ImportConstants, ImportInv, ImportTypes
<1>1. CASE X!Scan
  BY <1>1 DEF X!Scan, ImportTypes
<1>2. ASSUME NEW r \in Requests, NEW calls \in 1 .. MaxCalls,
             X!Complete(r, calls) \/ \E op \in {"key", "import"} : X!Ask(r, op, calls)
      PROVE  ImportTypes'
  <2>1. /\ handlers[r] = "no" /\ UNCHANGED <<timer, age, lock>>
        /\ \E h \in {"lock", "run", "done"} : handlers' = [handlers EXCEPT ![r] = h]
    BY <1>2 DEF X!Complete, X!Ask, X!Answer
  <2>2. lock # r
    BY <1>0, <2>1
  <2>3. PICK op \in {"complete", "key", "import"} :
           threads' = threads \/ threads' = [threads EXCEPT ![r] = X!Working(op, calls)]
    BY <1>2 DEF X!Complete, X!Ask
  <2>4. X!Working(op, calls).calls \in 0 .. MaxCalls
    BY <1>0 DEF X!Working
  <2>5. /\ threads'[r].calls \in 0 .. MaxCalls
        /\ \A q \in Requests \ {r} : threads'[q] = threads[q]
    BY <1>0, <2>3, <2>4
  <2>6. \A q \in Requests \ {r} : handlers'[q] = handlers[q]
    BY <1>0, <2>1
  <2> QED
    BY <1>0, <2>1, <2>2, <2>5, <2>6, RequestTypes
<1>3. ASSUME NEW r \in Requests, X!Acquire(r) PROVE ImportTypes'
  <2>1. /\ lock' = r /\ handlers' = [handlers EXCEPT ![r] = "run"]
        /\ UNCHANGED <<timer, threads, age>>
    BY <1>3 DEF X!Acquire
  <2>2. handlers'[r] = "run" /\ \A q \in Requests \ {r} : handlers'[q] = handlers[q]
    BY <1>0, <2>1
  <2> QED
    BY <1>0, <2>1, <2>2, RequestTypes
<1>4. ASSUME NEW r \in Requests, X!Finish(r) \/ X!CutOff(r) PROVE ImportTypes'
  <2>1. /\ age' = age
        /\ \/ UNCHANGED <<handlers, lock, timer>> /\ handlers[r] # "run"
           \/ /\ handlers' = [handlers EXCEPT ![r] = "done"]
              /\ lock' = IF lock = r THEN X!Nobody ELSE lock
              /\ timer' \in {timer, X!Arm}
        /\ threads' = threads \/ threads' = [threads EXCEPT ![r] = X!NoThread]
    BY <1>4 DEF X!Finish, X!CutOff, X!Answer
  <2>2. X!NoThread.calls = 0 /\ X!Arm \in 0 .. Ttl
    BY <1>0 DEF X!NoThread, X!Working, X!Arm
  <2>3. /\ threads'[r].calls \in 0 .. MaxCalls
        /\ \A q \in Requests \ {r} : threads'[q] = threads[q]
    BY <1>0, <2>1, <2>2
  <2>4. \A q \in Requests \ {r} : handlers'[q] = handlers[q]
    BY <1>0, <2>1
  <2>5. lock' # r /\ (lock' = lock \/ lock' = X!Nobody) /\ timer' \in 0 .. Ttl
    BY <1>0, <2>1, <2>2
  <2> QED
    BY <2>1, <2>3, <2>4, <2>5, RequestTypes
<1>5. ASSUME NEW r \in Requests, X!Call(r) PROVE ImportTypes'
  <2>1. /\ threads[r].calls > 0 /\ UNCHANGED <<handlers, timer, age, lock>>
        /\ threads[r] \in ThreadSet
    BY <1>0, <1>5 DEF X!Call, X!Runs
  <2>2. PICK ticks \in 0 .. X!Slowest(r) : threads' = X!Called(r, ticks)
    BY <1>5 DEF X!Call
  <2> DEFINE t == IF ticks = 0 THEN [threads[r] EXCEPT !.calls = threads[r].calls - 1]
                  ELSE [threads[r] EXCEPT !.busy = ticks]
  <2>3. threads' = [threads EXCEPT ![r] = t]
    BY <1>0, <2>2 DEF X!Called
  <2>4. t.calls \in 0 .. MaxCalls
    BY <1>0, <2>1 DEF ThreadSet
  <2> HIDE DEF t
  <2>5. threads'[r] = t /\ \A q \in Requests \ {r} : threads'[q] = threads[q]
    BY <1>0, <2>3
  <2>6. lock' = r => handlers'[r] = "run"
    BY <1>0, <2>1
  <2> QED
    BY <1>0, <2>1, <2>4, <2>5, <2>6, RequestTypes
<1> QED
  BY <1>1, <1>2, <1>3, <1>4, <1>5, TickTypes, Zenon DEF X!Next, X!Work

LEMMA ImportTypesStep == ImportInv /\ ImportTypes /\ [Next]_vars => ImportTypes'
<1> SUFFICES ASSUME ImportInv, ImportTypes, [Next]_vars PROVE ImportTypes'
  OBVIOUS
<1>1. X!Next \/ UNCHANGED xVars
  BY Zenon DEF Next, Handshake, Counter, Stream, Status, Bemfa, Limits, Restart, Import, Scan, vars
<1> QED
  BY <1>1, ImportTypesNext DEF xVars, ImportTypes

LEMMA ImportTypesHold == ImportInv /\ ImportTypes => X!TypeOK
BY DEF ImportInv, ImportTypes, X!TypeOK

-----------------------------------------------------------------------------
(* PortLimits. *)

LimitTypes ==
    /\ charge \in [Ports -> {"none", "below", "reached"}]
    /\ limitFired \in [Ports -> BOOLEAN]
    /\ pending \in [Ports -> BOOLEAN]
    /\ limit \in [Ports -> L!Modes]
    /\ fullOff \in [Ports -> L!Modes]
    /\ permanent \in SUBSET Ports

LimitsInv ==
    /\ LimitTypes
    /\ L!SwitchOffIsWanted /\ L!FiredIsThisCharge /\ L!PermanentIsExclusive

LEMMA LimitsInit == Init => LimitsInv
<1> SUFFICES ASSUME L!Init PROVE LimitsInv
  BY DEF Init
<1>1. LimitTypes
  BY DEF L!Init, LimitTypes
<1>2. L!SwitchOffIsWanted /\ L!FiredIsThisCharge /\ L!PermanentIsExclusive
  BY DEF L!Init, L!SwitchOffIsWanted, L!FiredIsThisCharge, L!PermanentIsExclusive
<1> QED
  BY <1>1, <1>2 DEF LimitsInv

LEMMA LimitsStay ==
  ASSUME LimitsInv, UNCHANGED <<charge, limitFired, pending, limit, fullOff, permanent>>
  PROVE  LimitsInv'
BY DEF LimitsInv, LimitTypes, L!SwitchOffIsWanted, L!FiredIsThisCharge,
       L!PermanentIsExclusive

(* Steps that change the state of one port. *)
Becomes(p, c, f, b, l, o) ==
    /\ charge' = [charge EXCEPT ![p] = c]
    /\ limitFired' = [limitFired EXCEPT ![p] = f]
    /\ pending' = [pending EXCEPT ![p] = b]
    /\ limit' = [limit EXCEPT ![p] = l]
    /\ fullOff' = [fullOff EXCEPT ![p] = o]
    /\ UNCHANGED permanent

LEMMA ChargeStep ==
  ASSUME LimitsInv, NEW p \in Ports,
         NEW c \in {"none", "below", "reached"}, NEW f \in BOOLEAN, NEW b \in BOOLEAN,
         NEW l \in L!Modes, NEW o \in L!Modes,
         Becomes(p, c, f, b, l, o),
         b => c = "none" /\ o # "none",
         f => c = "reached" /\ p \notin permanent,
         p \in permanent => l = "none" /\ o = "none"
  PROVE  LimitsInv'
<1>0. permanent' = permanent
  BY DEF Becomes
<1>1. LimitTypes'
  BY DEF LimitsInv, LimitTypes, Becomes
<1>2. ASSUME NEW q \in Ports
      PROVE  /\ charge'[q] = IF q = p THEN c ELSE charge[q]
             /\ limitFired'[q] = IF q = p THEN f ELSE limitFired[q]
             /\ pending'[q] = IF q = p THEN b ELSE pending[q]
             /\ limit'[q] = IF q = p THEN l ELSE limit[q]
             /\ fullOff'[q] = IF q = p THEN o ELSE fullOff[q]
  BY DEF LimitsInv, LimitTypes, Becomes
<1>3. ASSUME NEW q \in Ports, pending'[q] PROVE charge'[q] = "none" /\ fullOff'[q] # "none"
  BY <1>2, <1>3 DEF LimitsInv, L!SwitchOffIsWanted
<1>4. ASSUME NEW q \in Ports, limitFired'[q]
      PROVE  charge'[q] = "reached" /\ q \notin permanent'
  BY <1>0, <1>2, <1>4 DEF LimitsInv, L!FiredIsThisCharge
<1>5. ASSUME NEW q \in permanent' PROVE limit'[q] = "none" /\ fullOff'[q] = "none"
  BY <1>0, <1>2 DEF LimitsInv, LimitTypes, L!PermanentIsExclusive
<1> QED
  BY <1>1, <1>3, <1>4, <1>5
     DEF LimitsInv, L!SwitchOffIsWanted, L!FiredIsThisCharge, L!PermanentIsExclusive

LEMMA PortValues ==
  ASSUME LimitsInv, NEW p \in Ports
  PROVE  /\ charge[p] \in {"none", "below", "reached"}
         /\ limitFired[p] \in BOOLEAN /\ pending[p] \in BOOLEAN
         /\ limit[p] \in L!Modes /\ fullOff[p] \in L!Modes
         /\ charge = [charge EXCEPT ![p] = charge[p]]
         /\ limitFired = [limitFired EXCEPT ![p] = limitFired[p]]
         /\ pending = [pending EXCEPT ![p] = pending[p]]
         /\ limit = [limit EXCEPT ![p] = limit[p]]
         /\ fullOff = [fullOff EXCEPT ![p] = fullOff[p]]
         /\ pending[p] => charge[p] = "none" /\ fullOff[p] # "none"
         /\ limitFired[p] => charge[p] = "reached" /\ p \notin permanent
         /\ p \in permanent => limit[p] = "none" /\ fullOff[p] = "none"
<1>1. LimitTypes
  BY DEF LimitsInv
<1>2. /\ charge[p] \in {"none", "below", "reached"}
      /\ limitFired[p] \in BOOLEAN /\ pending[p] \in BOOLEAN
      /\ limit[p] \in L!Modes /\ fullOff[p] \in L!Modes
  BY <1>1 DEF LimitTypes
<1>3. /\ charge = [charge EXCEPT ![p] = charge[p]]
      /\ limitFired = [limitFired EXCEPT ![p] = limitFired[p]]
      /\ pending = [pending EXCEPT ![p] = pending[p]]
      /\ limit = [limit EXCEPT ![p] = limit[p]]
      /\ fullOff = [fullOff EXCEPT ![p] = fullOff[p]]
  BY <1>1 DEF LimitTypes
<1> QED
  BY <1>2, <1>3, Zenon DEF LimitsInv, L!SwitchOffIsWanted, L!FiredIsThisCharge,
     L!PermanentIsExclusive

LEMMA PortStep ==
  ASSUME LimitsInv, NEW p \in Ports,
         \/ L!StartCharge(p) \/ L!ReachLimit(p) \/ L!Fire(p)
         \/ \E reason \in {"unplug", "no_load", "low_power"} : L!CloseSession(p, reason)
         \/ L!IdleLongEnough(p) \/ L!ConfirmFullOff(p) \/ L!RetryFullOff(p)
         \/ \E m \in L!Modes : L!SetLimit(p, m)
  PROVE  LimitsInv'
<1>0. /\ "none" \in L!Modes
      /\ charge[p] \in {"none", "below", "reached"}
      /\ limitFired[p] \in BOOLEAN /\ pending[p] \in BOOLEAN
      /\ limit[p] \in L!Modes /\ fullOff[p] \in L!Modes
      /\ pending[p] => charge[p] = "none" /\ fullOff[p] # "none"
      /\ limitFired[p] => charge[p] = "reached" /\ p \notin permanent
      /\ p \in permanent => limit[p] = "none" /\ fullOff[p] = "none"
  BY PortValues, Zenon DEF L!Modes
<1>1. CASE L!StartCharge(p)
  <2>1. Becomes(p, "below", FALSE, FALSE, limit[p], fullOff[p])
    BY <1>1, PortValues DEF L!StartCharge, L!settings, Becomes
  <2> QED
    BY <1>0, <2>1, ChargeStep
<1>2. CASE L!ReachLimit(p)
  <2>1. Becomes(p, "reached", limitFired[p], pending[p], limit[p], fullOff[p])
    BY <1>2, PortValues DEF L!ReachLimit, L!settings, Becomes
  <2>2. charge[p] = "below"
    BY <1>2 DEF L!ReachLimit
  <2>3. ~pending[p] /\ ~limitFired[p]
    BY <1>0, <2>2
  <2> QED
    BY <1>0, <2>1, <2>2, <2>3, ChargeStep
<1>3. CASE L!Fire(p)
  <2>1. Becomes(p, charge[p], L!Room, pending[p], limit[p], fullOff[p])
    BY <1>3, PortValues DEF L!Fire, L!settings, Becomes
  <2>2. L!Room \in BOOLEAN /\ p \notin permanent /\ charge[p] = "reached"
    BY <1>3 DEF L!Fire, L!Room
  <2> QED
    BY <1>0, <2>1, <2>2, ChargeStep
<1>4. ASSUME NEW reason \in {"unplug", "no_load", "low_power"}, L!CloseSession(p, reason)
      PROVE  LimitsInv'
  <2> DEFINE l == IF L!Spent(p) THEN "none" ELSE limit[p]
  <2>1. /\ charge' = [charge EXCEPT ![p] = "none"] /\ charge[p] # "none"
        /\ limitFired' = [limitFired EXCEPT ![p] = FALSE]
        /\ limit' = [limit EXCEPT ![p] = l]
        /\ UNCHANGED <<fullOff, permanent>>
    BY <1>4 DEF L!CloseSession, L!ReleaseLimit
  <2>2. \/ pending' = pending /\ ~pending[p]
        \/ pending' = [pending EXCEPT ![p] = TRUE] /\ fullOff[p] # "none"
    BY <1>0, <1>4 DEF L!CloseSession, L!Arms
  <2>3. l \in L!Modes /\ (p \in permanent => l = "none")
    BY <1>0
  <2> HIDE DEF l
  <2>4. CASE pending' = pending /\ ~pending[p]
    <3>1. Becomes(p, "none", FALSE, pending[p], l, fullOff[p])
      BY <2>1, <2>4, PortValues DEF Becomes
    <3> QED
      BY <1>0, <2>3, <2>4, <3>1, ChargeStep
  <2>5. CASE pending' = [pending EXCEPT ![p] = TRUE] /\ fullOff[p] # "none"
    <3>1. Becomes(p, "none", FALSE, TRUE, l, fullOff[p])
      BY <2>1, <2>5, PortValues DEF Becomes
    <3> QED
      BY <1>0, <2>3, <2>5, <3>1, ChargeStep
  <2> QED
    BY <2>2, <2>4, <2>5
<1>5. CASE L!IdleLongEnough(p)
  <2>1. Becomes(p, charge[p], limitFired[p], TRUE, limit[p], fullOff[p])
    BY <1>5, PortValues DEF L!IdleLongEnough, L!settings, Becomes
  <2>2. charge[p] = "none" /\ fullOff[p] # "none"
    BY <1>5 DEF L!IdleLongEnough
  <2> QED
    BY <1>0, <2>1, <2>2, ChargeStep
<1>6. CASE L!ConfirmFullOff(p)
  <2> DEFINE o == IF fullOff[p] = "once" THEN "none" ELSE fullOff[p]
  <2>1. Becomes(p, charge[p], limitFired[p], FALSE, limit[p], o)
    BY <1>6, PortValues DEF L!ConfirmFullOff, Becomes
  <2>2. o \in L!Modes /\ (p \in permanent => o = "none")
    BY <1>0
  <2> HIDE DEF o
  <2> QED
    BY <1>0, <2>1, <2>2, ChargeStep
<1>7. CASE L!RetryFullOff(p)
  <2>1. /\ pending' = pending \/ pending' = [pending EXCEPT ![p] = FALSE]
        /\ UNCHANGED <<charge, limitFired, limit, fullOff, permanent>>
    BY <1>7 DEF L!RetryFullOff, L!settings
  <2>2. CASE pending' = pending
    BY <2>1, <2>2, LimitsStay
  <2>3. CASE pending' = [pending EXCEPT ![p] = FALSE]
    <3>1. Becomes(p, charge[p], limitFired[p], FALSE, limit[p], fullOff[p])
      BY <2>1, <2>3, PortValues DEF Becomes
    <3> QED
      BY <1>0, <3>1, ChargeStep
  <2> QED
    BY <2>1, <2>2, <2>3
<1>8. ASSUME NEW m \in L!Modes, L!SetLimit(p, m) PROVE LimitsInv'
  <2>1. Becomes(p, charge[p], limitFired[p], pending[p], m, fullOff[p])
    BY <1>8, PortValues DEF L!SetLimit, L!charging, Becomes
  <2>2. m # "none" => p \notin permanent
    BY <1>8 DEF L!SetLimit, L!Accepts
  <2> QED
    BY <1>0, <2>1, <2>2, ChargeStep
<1> QED
  BY <1>1, <1>2, <1>3, <1>4, <1>5, <1>6, <1>7, <1>8

(* The modes of the ports are set. *)
LEMMA ModesStep ==
  ASSUME LimitsInv, NEW p \in Ports,
         \/ L!SetPermanent(p) \/ L!SetOrdinary(p)
         \/ \E m \in L!Modes : L!SetFullOff(p, m)
  PROVE  LimitsInv'
<1>0. /\ limit \in [Ports -> L!Modes] /\ fullOff \in [Ports -> L!Modes]
      /\ permanent \in SUBSET Ports /\ "none" \in L!Modes
  BY DEF LimitsInv, LimitTypes, L!Modes
<1>1. /\ charge' = charge
      /\ limit' = [q \in Ports |-> IF q \in permanent' THEN "none" ELSE limit[q]]
      /\ limitFired' = [q \in Ports |-> limitFired[q] /\ q \notin permanent']
      /\ pending' = [q \in Ports |-> pending[q] /\ fullOff'[q] # "none"]
  BY DEF L!SetPermanent, L!SetOrdinary, L!SetFullOff, L!ApplyModes, L!StillPending
<1>2. /\ permanent' \in SUBSET Ports /\ fullOff' \in [Ports -> L!Modes]
      /\ \A q \in permanent' : fullOff'[q] = "none"
  <2>1. \A q \in permanent : fullOff[q] = "none"
    BY DEF LimitsInv, L!PermanentIsExclusive
  <2>2. CASE L!SetPermanent(p)
    BY <1>0, <2>1, <2>2 DEF L!SetPermanent
  <2>3. CASE L!SetOrdinary(p)
    BY <1>0, <2>1, <2>3 DEF L!SetOrdinary
  <2>4. ASSUME NEW m \in L!Modes, L!SetFullOff(p, m)
        PROVE  /\ permanent' \in SUBSET Ports /\ fullOff' \in [Ports -> L!Modes]
               /\ \A q \in permanent' : fullOff'[q] = "none"
    BY <1>0, <2>1, <2>4 DEF L!SetFullOff
  <2> QED
    BY <2>2, <2>3, <2>4
<1>3. LimitTypes'
  <2>1. limit' \in [Ports -> L!Modes]
    BY <1>0, <1>1
  <2>2. limitFired' \in [Ports -> BOOLEAN]
    <3>1. \A q \in Ports : (limitFired[q] /\ q \notin permanent') \in BOOLEAN
      OBVIOUS
    <3> QED
      BY <1>1, <3>1
  <2>3. pending' \in [Ports -> BOOLEAN]
    <3>1. \A q \in Ports : (pending[q] /\ fullOff'[q] # "none") \in BOOLEAN
      OBVIOUS
    <3> QED
      BY <1>1, <3>1
  <2>4. charge' \in [Ports -> {"none", "below", "reached"}]
    BY <1>1 DEF LimitsInv, LimitTypes
  <2> QED
    BY <1>2, <2>1, <2>2, <2>3, <2>4 DEF LimitTypes
<1>4. ASSUME NEW q \in Ports, pending'[q] PROVE charge'[q] = "none" /\ fullOff'[q] # "none"
  <2>1. pending[q] /\ fullOff'[q] # "none"
    BY <1>1, <1>4, Zenon
  <2> QED
    BY <1>1, <2>1, Zenon DEF LimitsInv, L!SwitchOffIsWanted
<1>5. ASSUME NEW q \in Ports, limitFired'[q]
      PROVE  charge'[q] = "reached" /\ q \notin permanent'
  <2>1. limitFired[q] /\ q \notin permanent'
    BY <1>1, <1>5, Zenon
  <2> QED
    BY <1>1, <2>1, Zenon DEF LimitsInv, L!FiredIsThisCharge
<1>6. \A q \in permanent' : limit'[q] = "none" /\ fullOff'[q] = "none"
  BY <1>1, <1>2
<1> QED
  BY <1>3, <1>4, <1>5, <1>6, Zenon
     DEF LimitsInv, L!SwitchOffIsWanted, L!FiredIsThisCharge, L!PermanentIsExclusive

(* The command at the head of the queue is executed. *)
LEMMA CommandStep ==
  ASSUME LimitsInv, L!RunCommand PROVE LimitsInv'
<1> DEFINE p == Head(queue).port
           to == Head(queue).on
<1>1. UNCHANGED <<pending, fullOff, permanent>>
  BY DEF L!RunCommand
<1>2. IF to = (port[p] # "off") THEN UNCHANGED <<port, charge, limit, limitFired>>
      ELSE L!Switch(p, to)
  BY DEF L!RunCommand
<1> HIDE DEF p, to
<1>3. \/ UNCHANGED <<charge, limit, limitFired>>
      \/ /\ charge[p] # "none"
         /\ charge' = [charge EXCEPT ![p] = "none"]
         /\ limitFired' = [limitFired EXCEPT ![p] = FALSE]
         /\ limit' = [limit EXCEPT ![p] = IF limit[p] = "once" THEN "none" ELSE limit[p]]
  BY <1>2 DEF L!Switch, L!ReleaseLimit, L!Spent
<1>4. CASE UNCHANGED <<charge, limit, limitFired>>
  BY <1>1, <1>4, LimitsStay
<1>5. CASE p \notin Ports /\ ~UNCHANGED <<charge, limit, limitFired>>
  <2>1. p \notin DOMAIN charge /\ p \notin DOMAIN limit /\ p \notin DOMAIN limitFired
    BY <1>5 DEF LimitsInv, LimitTypes
  <2>2. /\ charge' = [q \in DOMAIN charge |-> charge[q]]
        /\ limit' = [q \in DOMAIN limit |-> limit[q]]
        /\ limitFired' = [q \in DOMAIN limitFired |-> limitFired[q]]
    BY <1>3, <1>5, <2>1
  <2>3. charge' = charge /\ limit' = limit /\ limitFired' = limitFired
    BY <2>2 DEF LimitsInv, LimitTypes
  <2> QED
    BY <1>5, <2>3
<1>6. CASE p \in Ports /\ ~UNCHANGED <<charge, limit, limitFired>>
  <2> DEFINE l == IF limit[p] = "once" THEN "none" ELSE limit[p]
  <2>1. charge[p] # "none"
    BY <1>3, <1>6
  <2>2. Becomes(p, "none", FALSE, pending[p], l, fullOff[p])
    BY <1>1, <1>3, <1>6, PortValues DEF Becomes
  <2>3. /\ limit[p] \in L!Modes /\ fullOff[p] \in L!Modes /\ "none" \in L!Modes
        /\ pending[p] \in BOOLEAN
        /\ pending[p] => charge[p] = "none" /\ fullOff[p] # "none"
        /\ p \in permanent => limit[p] = "none" /\ fullOff[p] = "none"
    BY <1>6, PortValues, Zenon DEF L!Modes
  <2>4. l \in L!Modes /\ (p \in permanent => l = "none")
    BY <2>3
  <2>5. ~pending[p]
    BY <2>1, <2>3
  <2> HIDE DEF l
  <2> QED
    BY <1>6, <2>2, <2>3, <2>4, <2>5, ChargeStep
<1> QED
  BY <1>4, <1>5, <1>6

LEMMA LimitsNext ==
  ASSUME LimitsInv, L!Next PROVE LimitsInv'
<1>1. ASSUME NEW p \in Ports, L!EnforceChargeLimit(p) PROVE LimitsInv'
  BY <1>1, PortStep DEF L!EnforceChargeLimit
<1>2. ASSUME NEW p \in Ports, L!Readback(p) \/ L!Busy(p) PROVE LimitsInv'
  BY <1>2, LimitsStay DEF L!Readback, L!Busy, L!charging, L!settings
<1>3. ASSUME NEW p \in Ports, NEW to \in BOOLEAN, L!UserSwitch(p, to) PROVE LimitsInv'
  BY <1>3, LimitsStay DEF L!UserSwitch, L!charging, L!settings
<1>4. ASSUME L!CommandFails \/ L!LinkUp PROVE LimitsInv'
  BY <1>4, LimitsStay DEF L!CommandFails, L!LinkUp, L!charging, L!settings
<1>5. ASSUME L!LinkLost PROVE LimitsInv'
  <2>1. /\ charge' = [p \in Ports |-> "none"] /\ limitFired' = [p \in Ports |-> FALSE]
        /\ UNCHANGED <<pending, limit, fullOff, permanent>>
    BY <1>5 DEF L!LinkLost, L!settings
  <2> QED
    BY <2>1 DEF LimitsInv, LimitTypes, L!SwitchOffIsWanted, L!FiredIsThisCharge,
                L!PermanentIsExclusive
<1>6. ASSUME L!Rebuild PROVE LimitsInv'
  <2>1. /\ pending' = [p \in Ports |-> FALSE]
        /\ UNCHANGED <<charge, limitFired, limit, fullOff, permanent>>
    BY <1>6 DEF L!Rebuild, L!settings
  <2> QED
    BY <2>1 DEF LimitsInv, LimitTypes, L!SwitchOffIsWanted, L!FiredIsThisCharge,
                L!PermanentIsExclusive
<1> QED
  BY <1>1, <1>2, <1>3, <1>4, <1>5, <1>6, PortStep, ModesStep, CommandStep, Zenon
     DEF L!Next

LEMMA LimitsStep == LimitsInv /\ [Next]_vars => LimitsInv'
<1> SUFFICES ASSUME LimitsInv, [Next]_vars PROVE LimitsInv'
  OBVIOUS
<1>1. L!Next \/ UNCHANGED lVars
  BY Zenon DEF Next, Handshake, Counter, Stream, Status, Bemfa, Limits, Restart, Import, Scan, vars
<1> QED
  BY <1>1, LimitsStay, LimitsNext DEF lVars

LEMMA LimitsAlways == Spec => []LimitsInv
<1> QED
  BY LimitsInit, LimitsStep, PTL DEF Spec

(* A step that ends a charge with the link up spends its one-shot limit, and
   one that loses the link leaves all settings alone. *)
LEMMA EndsSpend ==
  ASSUME LimitsInv, L!Next, NEW q \in Ports, charge[q] # "none", charge'[q] = "none"
  PROVE  IF link' THEN limit[q] = "once" => limit'[q] = "none" ELSE UNCHANGED L!settings
<1>0. /\ charge \in [Ports -> {"none", "below", "reached"}] /\ limit \in [Ports -> L!Modes]
  BY DEF LimitsInv, LimitTypes
<1>1. charge' # charge
  OBVIOUS
<1>2. ASSUME NEW p \in Ports, L!StartCharge(p) \/ L!ReachLimit(p) PROVE FALSE
  BY <1>0, <1>2 DEF L!StartCharge, L!ReachLimit
<1>3. ASSUME NEW p, charge' = [charge EXCEPT ![p] = "none"], L!ReleaseLimit(p),
             link'
      PROVE  IF link' THEN limit[q] = "once" => limit'[q] = "none"
             ELSE UNCHANGED L!settings
  <2>1. p = q
    BY <1>0, <1>3
  <2> QED
    BY <1>0, <1>3, <2>1 DEF L!ReleaseLimit, L!Spent
<1>4. ASSUME NEW p \in Ports,
             NEW reason \in {"unplug", "no_load", "low_power"}, L!CloseSession(p, reason)
      PROVE  IF link' THEN limit[q] = "once" => limit'[q] = "none"
             ELSE UNCHANGED L!settings
  <2>1. charge' = [charge EXCEPT ![p] = "none"] /\ L!ReleaseLimit(p) /\ link'
    BY <1>4 DEF L!CloseSession
  <2> QED
    BY <1>3, <2>1
<1>5. ASSUME L!RunCommand
      PROVE  IF link' THEN limit[q] = "once" => limit'[q] = "none"
             ELSE UNCHANGED L!settings
  <2> DEFINE p == Head(queue).port
  <2>1. link'
    BY <1>5 DEF L!RunCommand
  <2>2. L!Switch(p, Head(queue).on)
    BY <1>1, <1>5 DEF L!RunCommand
  <2>3. charge' = [charge EXCEPT ![p] = "none"] /\ L!ReleaseLimit(p)
    BY <1>1, <2>2 DEF L!Switch
  <2> QED
    BY <1>3, <2>1, <2>3
<1>6. ASSUME L!LinkLost
      PROVE  IF link' THEN limit[q] = "once" => limit'[q] = "none"
             ELSE UNCHANGED L!settings
  BY <1>6 DEF L!LinkLost
<1>7. ASSUME NEW p \in Ports,
             \/ L!EnforceChargeLimit(p) \/ L!IdleLongEnough(p) \/ L!ConfirmFullOff(p)
             \/ L!RetryFullOff(p) \/ L!Readback(p) \/ L!Busy(p)
             \/ L!SetPermanent(p) \/ L!SetOrdinary(p)
             \/ \E m \in L!Modes : L!SetLimit(p, m) \/ L!SetFullOff(p, m)
             \/ \E to \in BOOLEAN : L!UserSwitch(p, to)
      PROVE  FALSE
  BY <1>1, <1>7 DEF L!EnforceChargeLimit, L!Fire, L!IdleLongEnough, L!ConfirmFullOff,
     L!RetryFullOff, L!Readback, L!Busy, L!SetPermanent, L!SetOrdinary, L!SetLimit,
     L!SetFullOff, L!ApplyModes, L!UserSwitch, L!charging
<1>8. ASSUME L!CommandFails \/ L!LinkUp \/ L!Rebuild PROVE FALSE
  BY <1>1, <1>8 DEF L!CommandFails, L!LinkUp, L!Rebuild, L!charging
<1> QED
  BY <1>2, <1>4, <1>5, <1>6, <1>7, <1>8, Zenon DEF L!Next

(* Only what is still wanted is switched off again and again, a limit is marked
   as fired for this charge alone, permanent ports have neither limits nor
   full_off, and a one-shot limit is spent by the end of a charge, not by the
   loss of the link. *)
THEOREM LimitsStayKept == Spec => LimitsAreKept
<1>1. LimitsInv => L!SwitchOffIsWanted /\ L!FiredIsThisCharge /\ L!PermanentIsExclusive
  BY DEF LimitsInv
<1>2. LimitsInv /\ [Next]_vars =>
      [\A p \in Ports :
          charge[p] # "none" /\ charge'[p] = "none" =>
             IF link' THEN limit[p] = "once" => limit'[p] = "none"
             ELSE UNCHANGED L!settings]_(L!vars)
  <2> SUFFICES ASSUME LimitsInv, [Next]_vars, ~UNCHANGED L!vars,
                      NEW p \in Ports, charge[p] # "none", charge'[p] = "none"
               PROVE  IF link' THEN limit[p] = "once" => limit'[p] = "none"
                      ELSE UNCHANGED L!settings
    BY Zenon
  <2>1. UNCHANGED lVars => UNCHANGED L!vars
    BY DEF lVars, L!vars, L!charging, L!settings
  <2>2. L!Next
    BY <2>1, Zenon DEF Next, Handshake, Counter, Stream, Status, Bemfa, Limits, Restart, Import,
                      Scan, vars
  <2> QED
    BY <2>2, EndsSpend
<1>3. Spec => L!OnlyRealEndsSpend
  BY <1>2, LimitsAlways, PTL DEF Spec, L!OnlyRealEndsSpend
<1> QED
  BY <1>1, <1>3, LimitsAlways, PTL DEF LimitsAreKept

(* The readings, the retries and the queue of commands. *)
Commands == [port : Ports, on : BOOLEAN, auto : BOOLEAN]
Queued == queue \in Seq(Commands) /\ Len(queue) <= QueueSize
Retries == attempts \in [Ports -> 0 .. OffAttempts]
Readings ==
    /\ link \in BOOLEAN
    /\ port \in [Ports -> {"off", "empty", "attached"}]
    /\ armed \in [Ports -> BOOLEAN]

LEMMA QueuedInit == Init => Queued /\ Retries /\ Readings
<1> SUFFICES ASSUME L!Init PROVE Queued /\ Retries /\ Readings
  BY DEF Init
<1>1. OffAttempts \in Nat /\ QueueSize \in Nat
  BY ServicesAssumption DEF L!LimitsConstants
<1>2. Retries
  BY <1>1 DEF L!Init, Retries
<1>3. Readings
  BY DEF L!Init, Readings
<1>4. queue = <<>>
  BY DEF L!Init
<1>5. <<>> \in Seq(Commands) /\ Len(<<>>) = 0
  BY EmptySeq
<1>6. queue \in Seq(Commands) /\ Len(queue) = 0
  BY <1>4, <1>5, Zenon
<1> QED
  BY <1>1, <1>2, <1>3, <1>6 DEF Queued

(* What is queued keeps to the size of the queue: it is only put there with
   room for it. *)
LEMMA PutStep ==
  ASSUME Queued, NEW p \in Ports, NEW on \in BOOLEAN, NEW auto \in BOOLEAN
  PROVE  /\ L!Room => /\ Append(queue, L!Command(p, on, auto)) \in Seq(Commands)
                      /\ Len(Append(queue, L!Command(p, on, auto))) <= QueueSize
         /\ queue' = L!Enqueued(p) => Queued'
<1>0. QueueSize \in Nat /\ queue \in Seq(Commands) /\ Len(queue) \in Nat
  BY ServicesAssumption, LenProperties DEF L!LimitsConstants, Queued
<1>1. ASSUME NEW c \in Commands, L!Room
      PROVE  Append(queue, c) \in Seq(Commands) /\ Len(Append(queue, c)) <= QueueSize
  <2>1. Append(queue, c) \in Seq(Commands) /\ Len(Append(queue, c)) = Len(queue) + 1
    BY <1>0, AppendProperties
  <2> QED
    BY <1>0, <1>1, <2>1 DEF L!Room
<1>2. L!Command(p, on, auto) \in Commands /\ L!Command(p, FALSE, TRUE) \in Commands
  BY DEF L!Command, Commands
<1>3. ASSUME queue' = L!Enqueued(p) PROVE Queued'
  <2>1. CASE L!Room
    <3>1. queue' = Append(queue, L!Command(p, FALSE, TRUE))
      BY <1>3, <2>1 DEF L!Enqueued
    <3> QED
      BY <1>1, <1>2, <2>1, <3>1, Zenon DEF Queued
  <2>2. CASE ~L!Room
    BY <1>3, <2>2 DEF L!Enqueued, Queued
  <2> QED
    BY <2>1, <2>2
<1> QED
  BY <1>1, <1>2, <1>3

LEMMA TakenStep ==
  ASSUME Queued, queue # <<>>, queue' = Tail(queue) PROVE Queued' /\ Head(queue) \in Commands
<1>1. /\ Head(queue) \in Commands /\ Tail(queue) \in Seq(Commands)
      /\ Len(Tail(queue)) = Len(queue) - 1
  BY HeadTailProperties DEF Queued
<1>2. QueueSize \in Nat /\ Len(queue) \in Nat
  BY ServicesAssumption, LenProperties DEF L!LimitsConstants, Queued
<1> QED
  BY <1>1, <1>2 DEF Queued

LEMMA QueuedNext ==
  ASSUME Queued, L!Next PROVE Queued'
<1>0. queue' = queue => Queued'
  BY DEF Queued
<1>1. ASSUME NEW p \in Ports,
             \/ L!StartCharge(p) \/ L!ReachLimit(p) \/ L!ConfirmFullOff(p) \/ L!Readback(p)
             \/ L!Busy(p) \/ L!SetPermanent(p) \/ L!SetOrdinary(p)
             \/ \E m \in L!Modes : L!SetLimit(p, m) \/ L!SetFullOff(p, m)
      PROVE  Queued'
  BY <1>0, <1>1 DEF L!StartCharge, L!ReachLimit, L!ConfirmFullOff, L!Readback, L!Busy,
     L!SetPermanent, L!SetOrdinary, L!SetLimit, L!SetFullOff, L!ApplyModes
<1>2. ASSUME NEW p \in Ports,
             \/ L!EnforceChargeLimit(p) \/ L!IdleLongEnough(p) \/ L!RetryFullOff(p)
             \/ \E reason \in {"unplug", "no_load", "low_power"} : L!CloseSession(p, reason)
      PROVE  Queued'
  <2>1. queue' = queue \/ queue' = L!Enqueued(p)
    BY <1>2 DEF L!EnforceChargeLimit, L!Fire, L!IdleLongEnough, L!RetryFullOff, L!CloseSession
  <2> QED
    BY <1>0, <2>1, PutStep
<1>3. ASSUME NEW p \in Ports, NEW to \in BOOLEAN, L!UserSwitch(p, to) PROVE Queued'
  <2>1. L!Room /\ queue' = Append(queue, L!Command(p, to, FALSE))
    BY <1>3 DEF L!UserSwitch
  <2> QED
    BY <2>1, PutStep, Zenon DEF Queued
<1>4. CASE L!RunCommand \/ L!CommandFails
  BY <1>4, TakenStep DEF L!RunCommand, L!CommandFails
<1>5. CASE L!LinkLost \/ L!LinkUp
  BY <1>0, <1>5 DEF L!LinkLost, L!LinkUp
<1>6. CASE L!Rebuild
  <2>1. queue' = <<>>
    BY <1>6 DEF L!Rebuild
  <2>2. <<>> \in Seq(Commands) /\ Len(<<>>) = 0 /\ QueueSize \in Nat
    BY ServicesAssumption, EmptySeq DEF L!LimitsConstants
  <2>3. queue' \in Seq(Commands) /\ Len(queue') = 0
    BY <2>1, <2>2, Zenon
  <2> QED
    BY <2>2, <2>3 DEF Queued
<1> QED
  BY <1>1, <1>2, <1>3, <1>4, <1>5, <1>6, Zenon DEF L!Next

LEMMA RetriesNext ==
  ASSUME Retries, L!Next PROVE Retries'
<1>0. OffAttempts \in Nat /\ attempts \in [Ports -> 0 .. OffAttempts]
  BY ServicesAssumption DEF L!LimitsConstants, Retries
<1>1. ASSUME NEW p \in Ports, NEW n \in 0 .. OffAttempts,
             attempts' = [attempts EXCEPT ![p] = n]
      PROVE  Retries'
  BY <1>0, <1>1 DEF Retries
<1>2. ASSUME attempts' = attempts PROVE Retries'
  BY <1>0, <1>2 DEF Retries
<1>3. 0 \in 0 .. OffAttempts
  BY <1>0
<1>4. ASSUME NEW p \in Ports, L!StartCharge(p) \/ L!IdleLongEnough(p) PROVE Retries'
  BY <1>1, <1>3, <1>4 DEF L!StartCharge, L!IdleLongEnough
<1>5. ASSUME NEW p \in Ports, NEW reason \in {"unplug", "no_load", "low_power"},
             L!CloseSession(p, reason)
      PROVE  Retries'
  BY <1>1, <1>2, <1>3, <1>5 DEF L!CloseSession
<1>6. ASSUME NEW p \in Ports, L!RetryFullOff(p) PROVE Retries'
  <2>1. CASE L!RetriesLeft(p)
    <3>1. attempts' = [attempts EXCEPT ![p] = L!Counted(p)]
      BY <1>6, <2>1 DEF L!RetryFullOff
    <3>2. L!Counted(p) \in 0 .. OffAttempts
      BY <1>0, <2>1 DEF L!RetriesLeft, L!Counted
    <3> QED
      BY <1>1, <3>1, <3>2
  <2>2. CASE ~L!RetriesLeft(p)
    BY <1>2, <1>6, <2>2 DEF L!RetryFullOff
  <2> QED
    BY <2>1, <2>2
<1>7. ASSUME NEW p \in Ports,
             \/ L!SetPermanent(p) \/ L!SetOrdinary(p)
             \/ \E m \in L!Modes : L!SetFullOff(p, m)
      PROVE  Retries'
  <2>1. attempts' = [q \in Ports |-> IF fullOff'[q] = "none" THEN 0 ELSE attempts[q]]
    BY <1>7 DEF L!SetPermanent, L!SetOrdinary, L!SetFullOff, L!ApplyModes
  <2> QED
    BY <1>0, <2>1 DEF Retries
<1>8. ASSUME NEW p \in Ports,
             \/ L!ReachLimit(p) \/ L!EnforceChargeLimit(p) \/ L!ConfirmFullOff(p)
             \/ L!Readback(p) \/ L!Busy(p)
             \/ \E m \in L!Modes : L!SetLimit(p, m)
             \/ \E to \in BOOLEAN : L!UserSwitch(p, to)
      PROVE  Retries'
  BY <1>2, <1>8 DEF L!ReachLimit, L!EnforceChargeLimit, L!Fire, L!ConfirmFullOff,
     L!Readback, L!Busy, L!SetLimit, L!UserSwitch, L!charging
<1>9. CASE L!RunCommand \/ L!CommandFails \/ L!LinkLost \/ L!LinkUp
  BY <1>2, <1>9 DEF L!RunCommand, L!CommandFails, L!LinkLost, L!LinkUp, L!charging
<1>10. CASE L!Rebuild
  BY <1>0, <1>10 DEF L!Rebuild, Retries
<1> QED
  BY <1>4, <1>5, <1>6, <1>7, <1>8, <1>9, <1>10, Zenon DEF L!Next

LEMMA ReadingsNext ==
  ASSUME Readings, Queued, L!Next PROVE Readings'
<1>0. /\ link \in BOOLEAN /\ port \in [Ports -> {"off", "empty", "attached"}]
      /\ armed \in [Ports -> BOOLEAN]
  BY DEF Readings
<1>1. ASSUME link' \in BOOLEAN,
             armed' = armed \/ \E p \in Ports, b \in BOOLEAN : armed' = [armed EXCEPT ![p] = b],
             \/ port' = port
             \/ \E p \in Ports, s \in {"off", "empty", "attached"} :
                   port' = [port EXCEPT ![p] = s]
      PROVE  Readings'
  <2>1. armed' \in [Ports -> BOOLEAN]
    BY <1>0, <1>1
  <2>2. port' \in [Ports -> {"off", "empty", "attached"}]
    BY <1>0, <1>1
  <2> QED
    BY <1>1, <2>1, <2>2 DEF Readings
<1>2. ASSUME NEW p \in Ports,
             L!StartCharge(p) \/ L!IdleLongEnough(p) \/ L!Readback(p) \/ L!Busy(p)
      PROVE  Readings'
  BY <1>0, <1>1, <1>2 DEF L!StartCharge, L!IdleLongEnough, L!Readback, L!Busy, L!charging
<1>3. ASSUME NEW p \in Ports, NEW reason \in {"unplug", "no_load", "low_power"},
             L!CloseSession(p, reason)
      PROVE  Readings'
  <2>1. /\ link' = link
        /\ port' = [port EXCEPT ![p] = IF reason = "unplug" THEN "empty" ELSE port[p]]
        /\ armed' = [armed EXCEPT ![p] = armed[p] /\ reason = "no_load"]
    BY <1>3 DEF L!CloseSession
  <2>2. (IF reason = "unplug" THEN "empty" ELSE port[p]) \in {"off", "empty", "attached"}
    BY <1>0
  <2>3. (armed[p] /\ reason = "no_load") \in BOOLEAN
    OBVIOUS
  <2> QED
    BY <1>0, <1>1, <2>1, <2>2, <2>3
<1>4. ASSUME NEW p \in Ports,
             \/ L!ReachLimit(p) \/ L!EnforceChargeLimit(p) \/ L!ConfirmFullOff(p)
             \/ L!RetryFullOff(p) \/ L!SetPermanent(p) \/ L!SetOrdinary(p)
             \/ \E m \in L!Modes : L!SetLimit(p, m) \/ L!SetFullOff(p, m)
             \/ \E to \in BOOLEAN : L!UserSwitch(p, to)
      PROVE  Readings'
  <2>1. UNCHANGED <<link, port, armed>>
    BY <1>4 DEF L!ReachLimit, L!EnforceChargeLimit, L!Fire, L!ConfirmFullOff,
       L!RetryFullOff, L!SetPermanent, L!SetOrdinary, L!SetLimit, L!SetFullOff,
       L!ApplyModes, L!UserSwitch, L!charging
  <2> QED
    BY <1>0, <2>1 DEF Readings
<1>5. CASE L!RunCommand
  <2> DEFINE p == Head(queue).port
             to == Head(queue).on
  <2>1. p \in Ports
    BY <1>5, TakenStep DEF L!RunCommand, Commands
  <2>2. UNCHANGED <<link, armed>>
    BY <1>5 DEF L!RunCommand
  <2>3. port' = port \/ port' = [port EXCEPT ![p] = IF to THEN "empty" ELSE "off"]
    BY <1>5 DEF L!RunCommand, L!Switch
  <2> HIDE DEF p, to
  <2> QED
    BY <1>0, <1>1, <2>1, <2>2, <2>3
<1>6. CASE L!CommandFails \/ L!LinkLost \/ L!LinkUp
  <2>1. link' \in BOOLEAN /\ UNCHANGED <<port, armed>>
    BY <1>0, <1>6 DEF L!CommandFails, L!LinkLost, L!LinkUp, L!charging
  <2> QED
    BY <1>1, <2>1
<1>7. CASE L!Rebuild
  <2>1. UNCHANGED <<link, port>> /\ armed' = [p \in Ports |-> FALSE]
    BY <1>7 DEF L!Rebuild
  <2> QED
    BY <1>0, <2>1 DEF Readings
<1> QED
  BY <1>2, <1>3, <1>4, <1>5, <1>6, <1>7, Zenon DEF L!Next

LEMMA QueuedStep ==
  Queued /\ Retries /\ Readings /\ [Next]_vars => (Queued /\ Retries /\ Readings)'
<1> SUFFICES ASSUME Queued, Retries, Readings, [Next]_vars
             PROVE  Queued' /\ Retries' /\ Readings'
  OBVIOUS
<1>1. L!Next \/ UNCHANGED lVars
  BY Zenon DEF Next, Handshake, Counter, Stream, Status, Bemfa, Limits, Restart, Import, Scan, vars
<1>2. CASE UNCHANGED lVars
  BY <1>2 DEF lVars, Queued, Retries, Readings
<1> QED
  BY <1>1, <1>2, QueuedNext, RetriesNext, ReadingsNext

LEMMA LimitTypesHold == LimitsInv /\ Queued /\ Retries /\ Readings => L!TypeOK
BY DEF LimitsInv, LimitTypes, Queued, Retries, Readings, Commands, L!TypeOK

-----------------------------------------------------------------------------
(* BemfaClient. *)

Messages == [state : B!States, own : BOOLEAN]

(* While the client is given up and joined again no ping is watched, and the
   pings it counts as lost are some of those that were not answered. *)
PingInv ==
    /\ monitor \in {"none", "waiting", "done"} /\ repair \in {"no", "leave", "join"}
    /\ pingLost \in 0 .. MaxLost - 1 /\ missing \in Nat /\ chains \in Int
    /\ pingLost <= missing
    /\ repair # "no" => monitor = "none" /\ pingLost = 0
    /\ B!OneCycle /\ B!OnlyWhenLost

(* Without an overlap there is one message at most on its way, and one that is
   an echo says what the client knows, if anything.  Nothing is on its way without a
   connection, and there is none while the client that was given up joins. *)
EchoInv ==
    /\ flight \in Seq(Messages)
    /\ cache \in B!States \cup {"none"}
    /\ broker # "up" => flight = <<>>
    /\ repair = "join" => broker = "none"
    /\ ~overlap => /\ Len(flight) <= 1
                   /\ flight # <<>> /\ flight[1].own => cache \in {"none", flight[1].state}
    /\ B!EchoIsNoCommand

LEMMA ClientInit == Init => PingInv /\ EchoInv
<1> SUFFICES ASSUME Init PROVE PingInv /\ EchoInv
  OBVIOUS
<1>1. MaxLost \in Nat \ {0}
  BY ServicesAssumption DEF B!ClientConstants
<1>2. PingInv
  BY <1>1 DEF Init, B!Init, PingInv, B!OneCycle, B!OnlyWhenLost
<1>3. flight = <<>> /\ cache = "none" /\ ~fooled
  BY DEF Init, B!Init
<1>4. broker \in {"joining", "none"} /\ repair = "no"
  BY DEF Init, B!Init
<1>5. EchoInv
  BY <1>3, <1>4, EmptySeq DEF EchoInv, B!EchoIsNoCommand, B!States
<1> QED
  BY <1>2, <1>5

LEMMA PingStays ==
  ASSUME PingInv, UNCHANGED B!ping PROVE PingInv'
BY DEF B!ping, PingInv, B!OneCycle, B!OnlyWhenLost

LEMMA PingNext ==
  ASSUME PingInv, B!Next PROVE PingInv'
<1>0. MaxLost \in Nat \ {0}
  BY ServicesAssumption DEF B!ClientConstants
<1> USE DEF PingInv, B!OneCycle, B!OnlyWhenLost
<1>1. CASE B!Ping
  BY <1>1 DEF B!Ping, B!Due
<1>2. CASE B!Pong
  BY <1>0, <1>2 DEF B!Pong, B!PongHeeded
<1>3. CASE B!PingTimeOut
  <2>1. CASE B!TooManyLost
    BY <1>0, <1>3, <2>1 DEF B!PingTimeOut, B!TooManyLost, B!ChainCancelled
  <2>2. CASE ~B!TooManyLost
    BY <1>0, <1>3, <2>2 DEF B!PingTimeOut, B!TooManyLost
  <2> QED
    BY <2>1, <2>2
<1>4. CASE B!Leave
  BY <1>4 DEF B!Leave
<1>5. CASE B!Join
  BY <1>0, <1>5 DEF B!Join
<1>6. CASE B!LoseBroker
  BY <1>6 DEF B!LoseBroker
<1>7. CASE B!Joined \/ B!Receive \/ B!GraceOver
  BY <1>7, PingStays DEF B!Joined, B!Receive, B!GraceOver
<1>8. ASSUME NEW s \in B!States, B!PublishState(s) \/ B!Switch(s) PROVE PingInv'
  BY <1>8, PingStays DEF B!PublishState, B!Switch
<1> QED
  BY <1>1, <1>2, <1>3, <1>4, <1>5, <1>6, <1>7, <1>8, Zenon DEF B!Next

(* Another message follows those on their way: then it overlaps them. *)
LEMMA FlightGrows ==
  ASSUME EchoInv, broker = "up", UNCHANGED <<broker, repair>>, fooled' = fooled,
         cache' \in B!States \cup {"none"},
         NEW m \in Messages,
         flight' = Append(flight, m),
         m.own => cache' \in {"none", m.state},
         overlap' = (overlap \/ flight # <<>>)
  PROVE  EchoInv'
<1>1. flight' \in Seq(Messages)
  BY AppendProperties DEF EchoInv
<1>2. ASSUME ~overlap' PROVE Len(flight') = 1 /\ flight'[1] = m
  <2>1. flight = <<>> /\ Len(flight) = 0
    BY <1>2
  <2> QED
    BY <2>1, AppendProperties DEF EchoInv
<1> QED
  BY <1>1, <1>2 DEF EchoInv, B!EchoIsNoCommand

LEMMA FlightEnds ==
  ASSUME EchoInv, UNCHANGED <<cache, fooled>>, flight' = <<>>,
         repair' = "join" => broker' = "none"
  PROVE  EchoInv'
BY EmptySeq DEF EchoInv, B!EchoIsNoCommand

LEMMA EchoStays ==
  ASSUME EchoInv, UNCHANGED B!echo, broker' = broker \/ flight = <<>>,
         repair' = "join" => broker' = "none"
  PROVE  EchoInv'
BY DEF EchoInv, B!EchoIsNoCommand, B!echo

LEMMA ReceiveStep ==
  ASSUME EchoInv, B!Receive PROVE EchoInv'
<1> DEFINE m == Head(flight)
<1>0. flight # <<>> /\ flight \in Seq(Messages) /\ flight' = Tail(flight)
  BY DEF EchoInv, B!Receive
<1>1. /\ m = flight[1] /\ m \in Messages
      /\ Tail(flight) \in Seq(Messages)
      /\ Len(Tail(flight)) = Len(flight) - 1 /\ Len(flight) \in Nat \ {0}
  BY <1>0, HeadTailProperties, EmptySeq
<1>2. cache' \in B!States \cup {"none"}
  BY <1>1 DEF EchoInv, B!Receive, Messages
<1>3. ~overlap => Tail(flight) = <<>>
  <2>1. ~overlap => Len(Tail(flight)) = 0
    BY <1>1 DEF EchoInv
  <2> QED
    BY <1>1, <2>1, EmptySeq
<1>4. ~overlap' => flight' = <<>>
  BY <1>0, <1>3 DEF B!Receive
<1>5. ~fooled'
  <2>1. ~overlap /\ m.own => cache \in {"none", m.state}
    BY <1>1 DEF EchoInv
  <2> QED
    BY <2>1 DEF EchoInv, B!EchoIsNoCommand, B!Receive
<1>6. broker' = "up" /\ repair' = repair /\ broker = "up"
  BY DEF B!Receive, B!ping
<1>7. ~overlap' => Len(flight') <= 1
  BY <1>4, EmptySeq
<1>8. flight' \in Seq(Messages)
  BY <1>0, <1>1
<1> QED
  BY <1>2, <1>4, <1>5, <1>6, <1>7, <1>8 DEF EchoInv, B!EchoIsNoCommand

LEMMA EchoNext ==
  ASSUME EchoInv, B!Next PROVE EchoInv'
<1>1. CASE B!Joined
  <2>1. flight = <<>> /\ Len(flight) = 0
    BY <1>1 DEF B!Joined, EchoInv
  <2>2. CASE Len(flight) < MaxFlight
    <3> DEFINE m == [state |-> B!Announced, own |-> TRUE]
    <3>0. /\ cache = "none" => B!Announced = "off"
          /\ cache # "none" => B!Announced = cache
          /\ B!Announced \in B!States
      BY DEF EchoInv, B!Announced, B!States
    <3>1. m \in Messages /\ cache \in {"none", m.state}
      BY <3>0 DEF EchoInv, Messages
    <3>2. flight' = Append(flight, m) /\ broker' = "up"
      BY <1>1, <2>2 DEF B!Joined
    <3>3. UNCHANGED <<cache, fooled, overlap, repair>> /\ broker = "joining"
      BY <1>1 DEF B!Joined, B!ping
    <3>4. flight' \in Seq(Messages)
      BY <3>1, <3>2, AppendProperties DEF EchoInv
    <3>5. Len(flight') = 1 /\ flight'[1] = m
      BY <2>1, <3>1, <3>2, AppendProperties DEF EchoInv
    <3> QED
      BY <3>1, <3>2, <3>3, <3>4, <3>5 DEF EchoInv, B!EchoIsNoCommand
  <2>3. CASE ~(Len(flight) < MaxFlight)
    BY <1>1, <2>1, <2>3, EchoStays DEF B!Joined, B!echo, B!ping, EchoInv
  <2> QED
    BY <2>2, <2>3
<1>2. CASE B!LoseBroker \/ B!Leave
  BY <1>2, FlightEnds DEF B!LoseBroker, B!Leave, EchoInv
<1>3. CASE B!Ping \/ B!Pong \/ B!PingTimeOut \/ B!GraceOver
  BY <1>3, EchoStays DEF B!Ping, B!Pong, B!PingTimeOut, B!GraceOver, B!ping, EchoInv
<1>4. CASE B!Join
  <2>1. UNCHANGED B!echo
    BY <1>4 DEF B!Join
  <2> QED
    BY <1>4, <2>1, EchoStays DEF B!Join, EchoInv
<1>5. ASSUME NEW s \in B!States, B!PublishState(s) PROVE EchoInv'
  <2> DEFINE m == [state |-> s, own |-> TRUE]
  <2>1. m \in Messages
    BY DEF Messages
  <2> QED
    BY <1>5, <2>1, FlightGrows DEF B!PublishState, B!Cached, B!ping
<1>6. ASSUME NEW s \in B!States, B!Switch(s) PROVE EchoInv'
  <2> DEFINE m == [state |-> s, own |-> FALSE]
  <2>1. m \in Messages
    BY DEF Messages
  <2> QED
    BY <1>6, <2>1, FlightGrows DEF B!Switch, B!ping, EchoInv
<1> QED
  BY <1>1, <1>2, <1>3, <1>4, <1>5, <1>6, ReceiveStep, Zenon DEF B!Next

LEMMA ClientStep == PingInv /\ EchoInv /\ [Next]_vars => (PingInv /\ EchoInv)'
<1> SUFFICES ASSUME PingInv, EchoInv, [Next]_vars PROVE PingInv' /\ EchoInv'
  OBVIOUS
<1>1. B!Next \/ UNCHANGED bVars
  BY Zenon DEF Next, Handshake, Counter, Stream, Status, Bemfa, Limits, Restart, Import, Scan, vars
<1>2. UNCHANGED bVars => UNCHANGED B!ping /\ UNCHANGED B!echo /\ UNCHANGED <<broker, repair>>
  BY DEF bVars, B!ping, B!echo
<1> QED
  BY <1>1, <1>2, PingNext, EchoNext, PingStays, EchoStays DEF EchoInv

(* There is one ping cycle, a connection is given up only after as many pings
   without an answer as it takes, and an echo is not taken for a command. *)
THEOREM ClientStaysSane == Spec => []ClientIsSane
<1>1. PingInv /\ EchoInv => ClientIsSane
  BY DEF PingInv, EchoInv, ClientIsSane
<1> QED
  BY <1>1, ClientInit, ClientStep, PTL DEF Spec

(* The counts keep to their bounds. *)
ClientTypes ==
    /\ broker \in {"none", "joining", "up", "open"}
    /\ Len(flight) <= MaxFlight
    /\ flaws \in 0 .. MaxFlaws

LEMMA ClientTypesInit == Init => ClientTypes
<1> SUFFICES ASSUME Init PROVE ClientTypes
  OBVIOUS
<1>1. MaxFlight \in Nat \ {0} /\ MaxFlaws \in Nat
  BY ServicesAssumption DEF B!ClientConstants
<1>2. flight = <<>> /\ flaws = 0 /\ broker \in {"joining", "none"}
  BY DEF Init, B!Init
<1>3. Len(flight) = 0
  BY <1>2, EmptySeq, Zenon
<1> QED
  BY <1>1, <1>2, <1>3 DEF ClientTypes

LEMMA ClientTypesNext ==
  ASSUME EchoInv, ClientTypes, B!Next PROVE ClientTypes'
<1>0. /\ MaxFlight \in Nat \ {0} /\ MaxFlaws \in Nat
      /\ flight \in Seq(Messages) /\ Len(flight) \in Nat /\ cache \in B!States \cup {"none"}
      /\ Len(flight) <= MaxFlight /\ flaws \in 0 .. MaxFlaws
      /\ broker \in {"none", "joining", "up", "open"}
  BY ServicesAssumption, LenProperties DEF B!ClientConstants, EchoInv, ClientTypes
<1>1. ASSUME NEW m \in Messages, Len(flight) < MaxFlight, flight' = Append(flight, m)
      PROVE  Len(flight') <= MaxFlight
  <2>1. Len(flight') = Len(flight) + 1
    BY <1>0, <1>1, AppendProperties
  <2> QED
    BY <1>0, <1>1, <2>1
<1>2. flight' = <<>> => Len(flight') <= MaxFlight
  <2>1. Len(<<>>) = 0
    BY EmptySeq
  <2> QED
    BY <1>0, <2>1
<1>3. flight' = flight => Len(flight') <= MaxFlight
  BY <1>0
<1>4. CASE B!Joined
  <2>1. [state |-> B!Announced, own |-> TRUE] \in Messages
    BY <1>0 DEF Messages, B!Announced, B!States
  <2>2. Len(flight') <= MaxFlight
    BY <1>1, <1>3, <1>4, <2>1 DEF B!Joined
  <2> QED
    BY <1>0, <1>4, <2>2 DEF B!Joined, ClientTypes
<1>5. CASE B!LoseBroker
  BY <1>0, <1>2, <1>5 DEF B!LoseBroker, ClientTypes
<1>6. CASE B!Leave
  BY <1>0, <1>2, <1>6 DEF B!Leave, ClientTypes
<1>7. CASE B!Join
  <2>1. flight' = flight
    BY <1>7 DEF B!Join, B!echo
  <2> QED
    BY <1>0, <1>3, <1>7, <2>1 DEF B!Join, ClientTypes
<1>8. CASE B!Ping \/ B!Pong \/ B!PingTimeOut \/ B!GraceOver
  BY <1>0, <1>8 DEF B!Ping, B!Pong, B!PingTimeOut, B!GraceOver, B!echo, ClientTypes
<1>9. ASSUME NEW s \in B!States, B!PublishState(s) \/ B!Switch(s) PROVE ClientTypes'
  <2>1. /\ [state |-> s, own |-> TRUE] \in Messages
        /\ [state |-> s, own |-> FALSE] \in Messages
    BY DEF Messages
  <2>2. Len(flight') <= MaxFlight
    BY <1>1, <1>9, <2>1 DEF B!PublishState, B!Switch
  <2>3. broker' = broker /\ flaws' = flaws
    BY <1>9 DEF B!PublishState, B!Switch
  <2> QED
    BY <1>0, <2>2, <2>3 DEF ClientTypes
<1>10. CASE B!Receive
  <2>1. flight # <<>> /\ flight' = Tail(flight) /\ broker' = broker /\ flaws' = flaws
    BY <1>10 DEF B!Receive
  <2>2. Len(flight') = Len(flight) - 1
    BY <1>0, <2>1, HeadTailProperties
  <2> QED
    BY <1>0, <2>1, <2>2 DEF ClientTypes
<1> QED
  BY <1>4, <1>5, <1>6, <1>7, <1>8, <1>9, <1>10, Zenon DEF B!Next

LEMMA ClientTypesStep == EchoInv /\ ClientTypes /\ [Next]_vars => ClientTypes'
<1> SUFFICES ASSUME EchoInv, ClientTypes, [Next]_vars PROVE ClientTypes'
  OBVIOUS
<1>1. B!Next \/ UNCHANGED bVars
  BY Zenon DEF Next, Handshake, Counter, Stream, Status, Bemfa, Limits, Restart, Import, Scan, vars
<1> QED
  BY <1>1, ClientTypesNext DEF bVars, ClientTypes

LEMMA ClientTypesHold == PingInv /\ EchoInv /\ ClientTypes => B!TypeOK
BY DEF PingInv, EchoInv, ClientTypes, B!TypeOK

-----------------------------------------------------------------------------
(* ConfigRestart. *)

Names == {c.names : c \in ConfigSaves}
Configuration ==
    [devices : SUBSET Devices, names : Names, valid : BOOLEAN, modified : BOOLEAN]

Configured(c) == [d \in Devices |-> IF d \in c.devices THEN c.names ELSE R!NoTopic]
SameContent == file.devices = conf.devices /\ file.names = conf.names

RestartTypes ==
    /\ file \in Configuration /\ conf \in Configuration
    /\ cloud \in [Devices -> Names \cup {R!NoTopic}]
    /\ proc \in R!Starting \cup {"up", "stopping", "down"}

(* A start works with what the file says, ... *)
StartsWithFile ==
    /\ proc \in {"delete", "register", "clear"} => conf = file
    /\ proc \in {"write", "record"} => SameContent
    /\ proc = "write" => file.modified
    /\ proc = "record" => ~file.modified
    /\ proc = "register" => todo \subseteq conf.devices

(* ... and what it has done so far, as long as no request has failed, is all
   that is left to do when it dies and the next one begins. *)
TopicsAreKnown ==
    \A d \in Devices : cloud[d] # R!NoTopic => d \in recorded \cup file.devices
NamesAreMarked ==
    ~file.modified => \A d \in Devices : cloud[d] # R!NoTopic => cloud[d] = file.names
CloudFollows ==
    ~refused =>
       /\ proc \in {"up", "stopping"} =>
             /\ cloud = Configured(conf) /\ recorded = conf.devices
             /\ ~file.modified => file.names = conf.names
       /\ proc \notin {"up", "stopping"} => TopicsAreKnown /\ NamesAreMarked
       /\ proc = "delete" =>
             \A d \in Devices \ (todo \cup conf.devices) : cloud[d] = R!NoTopic
       /\ proc = "register" =>
             \A d \in Devices : IF d \in conf.devices
                                THEN d \notin todo => cloud[d] = conf.names
                                ELSE cloud[d] = R!NoTopic
       /\ proc \in {"clear", "write", "record"} => cloud = Configured(conf)

RestartInv == RestartTypes /\ StartsWithFile /\ CloudFollows /\ R!FileBoots

LEMMA RestartInit == Init => RestartInv
<1> SUFFICES ASSUME Init PROVE RestartInv
  OBVIOUS
<1>1. PICK c \in ConfigSaves : c.valid /\ file = R!File(c, FALSE)
  BY DEF Init, R!Init
<1>2. /\ conf = file /\ proc = "up" /\ recorded = conf.devices /\ todo = {}
      /\ cloud = Configured(conf)
  BY DEF Init, R!Init, Configured
<1>3. c.devices \subseteq Devices /\ c.valid \in BOOLEAN /\ c.names \in Names
  BY ServicesAssumption DEF R!RestartConstants, Names
<1>4. file \in Configuration /\ file.valid /\ file.names = c.names
  BY <1>1, <1>3 DEF R!File, Configuration
<1>5. cloud \in [Devices -> Names \cup {R!NoTopic}]
  BY <1>2, <1>3, <1>4 DEF Configured
<1> QED
  BY <1>2, <1>4, <1>5 DEF RestartInv, RestartTypes, StartsWithFile, CloudFollows,
                          R!FileBoots

LEMMA RestartStays ==
  ASSUME RestartInv,
         UNCHANGED <<file, proc, conf, cloud, recorded, todo, refused, torn>>
  PROVE  RestartInv'
BY Zenon DEF RestartInv, RestartTypes, StartsWithFile, SameContent, CloudFollows,
             TopicsAreKnown, NamesAreMarked, R!FileBoots

(* A configuration is saved: its mark tells whether names have changed. *)
LEMMA SaveStep ==
  ASSUME RestartInv, NEW c \in ConfigSaves, R!Save(c) PROVE RestartInv'
<1>1. /\ proc \in {"up", "stopping"} /\ c.valid
      /\ file' = R!File(c, file.modified \/ c.names # file.names)
      /\ UNCHANGED <<proc, conf, cloud, recorded, todo, refused, torn>>
  BY Zenon DEF R!Save, R!Accepts, R!Marked, R!start
<1>2. c.devices \subseteq Devices /\ c.valid \in BOOLEAN /\ c.names \in Names
  BY ServicesAssumption DEF R!RestartConstants, Names
<1>3. (file.modified \/ c.names # file.names) \in BOOLEAN
  OBVIOUS
<1>4. file' \in Configuration /\ file'.valid /\ file'.names = c.names
  BY <1>1, <1>2, <1>3 DEF R!File, Configuration
<1>5. file'.modified = (file.modified \/ c.names # file.names)
  BY <1>1 DEF R!File
<1>6. ~refused /\ ~file'.modified => file'.names = conf.names
  BY <1>1, <1>4, <1>5 DEF RestartInv, CloudFollows
<1>7. RestartTypes' /\ StartsWithFile' /\ R!FileBoots'
  BY <1>1, <1>4 DEF RestartInv, RestartTypes, StartsWithFile, R!FileBoots
<1>8. CloudFollows'
  BY <1>1, <1>6 DEF RestartInv, CloudFollows
<1> QED
  BY <1>7, <1>8 DEF RestartInv

(* The process ends, in order or not, and loses what it has in memory. *)
LEMMA GoneStep ==
  ASSUME RestartInv, R!Exec \/ R!Die PROVE RestartInv'
<1>1. /\ proc' = "down" /\ UNCHANGED <<file, conf, cloud, recorded, refused>>
      /\ todo' = {} /\ (torn \/ proc = "write" => torn')
  <2>1. CASE R!Exec
    BY <2>1, Zenon DEF R!Exec, R!Gone
  <2>2. CASE R!Die
    BY <2>2, Zenon DEF R!Die, R!Gone
  <2> QED
    BY <2>1, <2>2
<1>2. RestartTypes' /\ StartsWithFile'
  BY <1>1 DEF RestartInv, RestartTypes, StartsWithFile
<1>3. R!FileBoots'
  BY <1>1 DEF RestartInv, R!FileBoots
<1>4. ASSUME ~refused, proc \in {"up", "stopping"} PROVE TopicsAreKnown /\ NamesAreMarked
  <2>1. /\ cloud = Configured(conf) /\ recorded = conf.devices
        /\ ~file.modified => file.names = conf.names
    BY <1>4 DEF RestartInv, CloudFollows
  <2> QED
    BY <2>1 DEF Configured, TopicsAreKnown, NamesAreMarked
<1>5. ~refused => TopicsAreKnown /\ NamesAreMarked
  BY <1>4 DEF RestartInv, CloudFollows
<1>6. ~refused' => TopicsAreKnown' /\ NamesAreMarked'
  BY <1>1, <1>5 DEF TopicsAreKnown, NamesAreMarked
<1>7. CloudFollows'
  BY <1>1, <1>6 DEF CloudFollows
<1> QED
  BY <1>2, <1>3, <1>7 DEF RestartInv

LEMMA BootStep ==
  ASSUME RestartInv, R!Boot PROVE RestartInv'
<1>1. /\ proc = "down" /\ proc' = "delete" /\ conf' = file
      /\ todo' = recorded \ file.devices
      /\ UNCHANGED <<file, cloud, recorded, refused, torn>>
  BY DEF R!Boot, R!StaleOnes
<1>2. RestartTypes' /\ StartsWithFile'
  BY <1>1 DEF RestartInv, RestartTypes, StartsWithFile, R!Starting
<1>3. R!FileBoots'
  BY <1>1 DEF RestartInv, R!FileBoots
<1>4. ~refused => TopicsAreKnown /\ NamesAreMarked
  BY <1>1 DEF RestartInv, CloudFollows
<1>5. ~refused => TopicsAreKnown' /\ NamesAreMarked'
  BY <1>1, <1>4 DEF TopicsAreKnown, NamesAreMarked
<1>6. ~refused => \A d \in Devices \ (todo' \cup conf'.devices) : cloud'[d] = R!NoTopic
  BY <1>1, <1>4 DEF TopicsAreKnown
<1>7. CloudFollows'
  BY <1>1, <1>5, <1>6 DEF CloudFollows
<1> QED
  BY <1>2, <1>3, <1>7 DEF RestartInv

(* A request to the cloud for one topic, which fails only once refused is set. *)
LEMMA RequestStep ==
  ASSUME RestartInv, NEW d \in Devices, R!DeleteTopic(d) \/ R!RegisterTopic(d)
  PROVE  RestartInv'
<1>1. /\ proc \in {"delete", "register"} /\ d \in todo /\ todo' = todo \ {d}
      /\ UNCHANGED <<file, proc, conf, recorded, torn>>
  BY DEF R!DeleteTopic, R!RegisterTopic, R!Request
<1>2. conf \in Configuration /\ cloud \in [Devices -> Names \cup {R!NoTopic}] /\ conf = file
  BY <1>1 DEF RestartInv, RestartTypes, StartsWithFile
<1>3. conf.names \in Names
  BY <1>2 DEF Configuration
<1>4. PICK o \in Names \cup {R!NoTopic} : cloud' = [cloud EXCEPT ![d] = o]
  BY <1>2, <1>3 DEF R!DeleteTopic, R!RegisterTopic, R!Request, R!Created
<1>5. RestartTypes'
  BY <1>1, <1>2, <1>4 DEF RestartInv, RestartTypes
<1>6. StartsWithFile' /\ R!FileBoots'
  BY <1>1 DEF RestartInv, StartsWithFile, SameContent, R!FileBoots
<1>7. ASSUME ~refused' PROVE CloudFollows'
  <2>1. ~refused
    BY <1>7 DEF R!DeleteTopic, R!RegisterTopic, R!Request
  <2>2. TopicsAreKnown /\ NamesAreMarked
    BY <1>1, <2>1 DEF RestartInv, CloudFollows
  <2>3. CASE proc = "delete"
    <3>1. cloud' = [cloud EXCEPT ![d] = R!NoTopic]
      BY <1>7, <2>3 DEF R!DeleteTopic, R!RegisterTopic, R!Request
    <3>2. TopicsAreKnown' /\ NamesAreMarked'
      BY <1>1, <1>2, <2>2, <3>1 DEF TopicsAreKnown, NamesAreMarked
    <3>3. \A e \in Devices \ (todo \cup conf.devices) : cloud[e] = R!NoTopic
      BY <2>1, <2>3 DEF RestartInv, CloudFollows
    <3>4. \A e \in Devices \ (todo' \cup conf'.devices) : cloud'[e] = R!NoTopic
      BY <1>1, <1>2, <3>1, <3>3
    <3> QED
      BY <1>1, <2>3, <3>2, <3>4 DEF CloudFollows
  <2>4. CASE proc = "register"
    <3>1. d \in conf.devices
      BY <1>1, <2>4 DEF RestartInv, StartsWithFile
    <3>2. cloud' = [cloud EXCEPT ![d] = conf.names]
      <4>1. CASE conf.modified
        BY <1>7, <2>4, <4>1 DEF R!DeleteTopic, R!RegisterTopic, R!Request
      <4>2. CASE ~conf.modified
        <5>1. cloud' = [cloud EXCEPT ![d] = R!Created(cloud[d])]
          BY <1>7, <2>4, <4>2 DEF R!DeleteTopic, R!RegisterTopic, R!Request
        <5>2. cloud[d] # R!NoTopic => cloud[d] = conf.names
          BY <1>2, <2>2, <4>2 DEF NamesAreMarked
        <5> QED
          BY <5>1, <5>2 DEF R!Created
      <4> QED
        BY <4>1, <4>2
    <3>3. TopicsAreKnown' /\ NamesAreMarked'
      BY <1>1, <1>2, <2>2, <3>1, <3>2 DEF TopicsAreKnown, NamesAreMarked
    <3>4. \A e \in Devices : IF e \in conf.devices
                             THEN e \notin todo => cloud[e] = conf.names
                             ELSE cloud[e] = R!NoTopic
      BY <2>1, <2>4 DEF RestartInv, CloudFollows
    <3>5. \A e \in Devices : IF e \in conf'.devices
                             THEN e \notin todo' => cloud'[e] = conf'.names
                             ELSE cloud'[e] = R!NoTopic
      BY <1>1, <1>2, <3>1, <3>2, <3>4
    <3> QED
      BY <1>1, <2>4, <3>3, <3>5 DEF CloudFollows
  <2> QED
    BY <1>1, <2>3, <2>4
<1>8. refused' => CloudFollows'
  BY DEF CloudFollows
<1> QED
  BY <1>5, <1>6, <1>7, <1>8 DEF RestartInv

(* The topics are deleted, or registered, and the start goes on. *)
LEMMA TopicsDone ==
  ASSUME RestartInv, R!Deleted \/ R!Registered PROVE RestartInv'
<1>1. /\ UNCHANGED <<file, conf, cloud, recorded, refused, torn>> /\ todo = {}
      /\ \/ proc = "delete" /\ proc' = "register" /\ todo' = conf.devices
         \/ proc = "register" /\ proc' = "clear" /\ todo' = {}
  BY DEF R!Deleted, R!Registered, R!GoTo
<1>2. RestartTypes' /\ StartsWithFile'
  BY <1>1 DEF RestartInv, RestartTypes, StartsWithFile, R!Starting
<1>3. R!FileBoots'
  BY <1>1 DEF RestartInv, R!FileBoots
<1>4. ~refused => TopicsAreKnown /\ NamesAreMarked
  BY <1>1 DEF RestartInv, CloudFollows
<1>5. ~refused => TopicsAreKnown' /\ NamesAreMarked'
  BY <1>1, <1>4 DEF TopicsAreKnown, NamesAreMarked
<1>6. CASE proc = "delete"
  <2>1. ~refused => \A d \in Devices \ conf.devices : cloud[d] = R!NoTopic
    BY <1>1, <1>6 DEF RestartInv, CloudFollows
  <2>2. ~refused => \A d \in Devices : IF d \in conf'.devices
                                       THEN d \notin todo' => cloud'[d] = conf'.names
                                       ELSE cloud'[d] = R!NoTopic
    BY <1>1, <1>6, <2>1
  <2>3. CloudFollows'
    BY <1>1, <1>5, <1>6, <2>2 DEF CloudFollows
  <2> QED
    BY <1>2, <1>3, <2>3 DEF RestartInv
<1>7. CASE proc = "register"
  <2>1. ~refused => \A d \in Devices : cloud[d] = IF d \in conf.devices THEN conf.names
                                                  ELSE R!NoTopic
    BY <1>1, <1>7 DEF RestartInv, CloudFollows
  <2>2. cloud \in [Devices -> Names \cup {R!NoTopic}]
    BY DEF RestartInv, RestartTypes
  <2>3. ~refused => cloud' = Configured(conf')
    BY <1>1, <2>1, <2>2 DEF Configured
  <2>4. CloudFollows'
    BY <1>1, <1>5, <1>7, <2>3 DEF CloudFollows
  <2> QED
    BY <1>2, <1>3, <2>4 DEF RestartInv
<1> QED
  BY <1>1, <1>6, <1>7

(* The mark of new names is cleared, in place, once the topics have them. *)
LEMMA FileSteps ==
  ASSUME RestartInv, R!OpenFile \/ R!WriteFile PROVE RestartInv'
<1>1. /\ UNCHANGED <<conf, cloud, recorded, refused, torn>> /\ todo' = {}
      /\ \/ /\ proc = "clear" /\ conf.modified /\ proc' = "write"
            /\ file' = [file EXCEPT !.valid = FALSE]
         \/ proc = "clear" /\ ~conf.modified /\ proc' = "record" /\ file' = file
         \/ /\ proc = "write" /\ proc' = "record"
            /\ file' = R!File([conf EXCEPT !.valid = TRUE], FALSE)
  BY DEF R!OpenFile, R!WriteFile, R!GoTo
<1>2. file \in Configuration /\ conf \in Configuration
  BY DEF RestartInv, RestartTypes
<1>3. /\ SameContent /\ file' \in Configuration
      /\ file'.devices = file.devices /\ file'.names = file.names
      /\ proc' = "write" => file'.modified
      /\ proc' = "record" => ~file'.modified
      /\ proc' = "record" => file'.valid \/ torn'
  <2>1. CASE proc = "clear" /\ conf.modified
    <3>1. file = conf /\ file' = [file EXCEPT !.valid = FALSE] /\ proc' = "write"
      BY <1>1, <2>1 DEF RestartInv, StartsWithFile
    <3> QED
      BY <1>2, <2>1, <3>1 DEF Configuration, SameContent
  <2>2. CASE proc = "clear" /\ ~conf.modified
    <3>1. file = conf /\ file' = file /\ proc' = "record"
      BY <1>1, <2>2 DEF RestartInv, StartsWithFile
    <3>2. file'.valid \/ torn'
      BY <1>1, <2>2, <3>1 DEF RestartInv, R!FileBoots
    <3> QED
      BY <1>2, <2>2, <3>1, <3>2 DEF SameContent
  <2>3. CASE proc = "write"
    <3> DEFINE c == [conf EXCEPT !.valid = TRUE]
    <3>1. SameContent /\ file' = R!File(c, FALSE) /\ proc' = "record"
      BY <1>1, <2>3 DEF RestartInv, StartsWithFile
    <3>2. c.devices = conf.devices /\ c.names = conf.names /\ c.valid = TRUE
      BY <1>2 DEF Configuration
    <3>3. conf.devices \in SUBSET Devices /\ conf.names \in Names
      BY <1>2 DEF Configuration
    <3> HIDE DEF c
    <3> QED
      BY <3>1, <3>2, <3>3 DEF R!File, Configuration, SameContent
  <2> QED
    BY <1>1, <2>1, <2>2, <2>3
<1>4. R!FileBoots'
  BY <1>1, <1>3 DEF R!FileBoots
<1>5. SameContent'
  BY <1>1, <1>3 DEF SameContent
<1>6. RestartTypes' /\ StartsWithFile'
  BY <1>1, <1>3, <1>5 DEF RestartInv, RestartTypes, StartsWithFile, R!Starting
<1>7. ASSUME ~refused PROVE CloudFollows'
  <2>1. cloud = Configured(conf) /\ TopicsAreKnown
    BY <1>1, <1>7 DEF RestartInv, CloudFollows
  <2>2. TopicsAreKnown'
    BY <1>1, <1>3, <2>1 DEF TopicsAreKnown
  <2>3. NamesAreMarked'
    BY <1>1, <1>3, <2>1 DEF NamesAreMarked, SameContent, Configured
  <2> QED
    BY <1>1, <2>1, <2>2, <2>3 DEF CloudFollows
<1>8. refused => CloudFollows'
  BY <1>1 DEF CloudFollows
<1> QED
  BY <1>4, <1>6, <1>7, <1>8 DEF RestartInv

LEMMA RecordStep ==
  ASSUME RestartInv, R!Record PROVE RestartInv'
<1>1. /\ proc = "record" /\ proc' = "up" /\ recorded' = conf.devices /\ todo' = {}
      /\ UNCHANGED <<file, conf, cloud, refused, torn>>
  BY DEF R!Record, R!GoTo
<1>2. RestartTypes' /\ StartsWithFile' /\ R!FileBoots'
  BY <1>1 DEF RestartInv, RestartTypes, StartsWithFile, R!FileBoots
<1>3. CloudFollows'
  BY <1>1 DEF RestartInv, CloudFollows, StartsWithFile, SameContent, Configured
<1> QED
  BY <1>2, <1>3 DEF RestartInv

LEMMA RestartNext ==
  ASSUME RestartInv, R!Next PROVE RestartInv'
<1>1. CASE R!Restart
  <2>1. /\ proc = "up" /\ proc' = "stopping"
        /\ UNCHANGED <<file, conf, cloud, recorded, todo, refused, torn>>
    BY <1>1 DEF R!Restart, R!start
  <2>2. RestartTypes' /\ StartsWithFile' /\ R!FileBoots'
    BY <2>1 DEF RestartInv, RestartTypes, StartsWithFile, R!FileBoots
  <2>3. CloudFollows'
    BY <2>1 DEF RestartInv, CloudFollows, Configured
  <2> QED
    BY <2>2, <2>3 DEF RestartInv
<1>2. ASSUME NEW d \in Devices, R!StopManager(d) \/ R!Report(d) PROVE RestartInv'
  BY <1>2, RestartStays DEF R!StopManager, R!Report, R!start
<1>3. ASSUME NEW p \in purges, R!PurgeEnds(p) \/ \E d \in Devices : R!ClearRetained(p, d)
      PROVE  RestartInv'
  BY <1>3, RestartStays DEF R!PurgeEnds, R!ClearRetained, R!start
<1> QED
  BY <1>1, <1>2, <1>3, SaveStep, GoneStep, BootStep, RequestStep, TopicsDone, FileSteps,
     RecordStep, Zenon DEF R!Next, R!Starts, R!Stops

LEMMA RestartStep == RestartInv /\ [Next]_vars => RestartInv'
<1> SUFFICES ASSUME RestartInv, [Next]_vars PROVE RestartInv'
  OBVIOUS
<1>1. R!Next \/ UNCHANGED rVars
  BY Zenon DEF Next, Handshake, Counter, Stream, Status, Bemfa, Limits, Restart, Import, Scan, vars
<1> QED
  BY <1>1, RestartNext, RestartStays DEF rVars

(* The program starts with its file, and the cloud has what is configured,
   wherever the process has died. *)
THEOREM RestartStaysSafe == Spec => []RestartIsSafe
<1>1. RestartInv => RestartIsSafe
  BY DEF RestartInv, CloudFollows, RestartIsSafe, R!CloudIsConfigured, Configured
<1> QED
  BY <1>1, RestartInit, RestartStep, PTL DEF Spec

(* A process that is not up yet, or down, has neither managers nor handlers
   nor a task that would restart it. *)
ProcessTypes ==
    /\ managers \subseteq conf.devices
    /\ todo # {} => proc \in {"delete", "register"}
    /\ proc \notin {"up", "stopping"} => managers = {} /\ purges = {} /\ ~due

LEMMA ProcessInit == Init => ProcessTypes
BY DEF Init, R!Init, ProcessTypes

LEMMA ProcessNext ==
  ASSUME ProcessTypes, R!Next PROVE ProcessTypes'
<1>1. ASSUME NEW c \in ConfigSaves, R!Save(c) PROVE ProcessTypes'
  BY <1>1 DEF R!Save, R!start, ProcessTypes
<1>2. CASE R!Restart
  BY <1>2 DEF R!Restart, R!start, ProcessTypes
<1>3. CASE R!Exec \/ R!Die
  <2>1. /\ proc' = "down" /\ conf' = conf
        /\ managers' = {} /\ purges' = {} /\ due' = FALSE /\ todo' = {}
    BY <1>3, Zenon DEF R!Exec, R!Die, R!Gone
  <2> QED
    BY <2>1 DEF ProcessTypes
<1>4. ASSUME NEW d \in Devices, R!StopManager(d) \/ R!Report(d) PROVE ProcessTypes'
  BY <1>4 DEF R!StopManager, R!Report, R!start, ProcessTypes
<1>5. ASSUME NEW p \in purges, R!PurgeEnds(p) \/ \E d \in Devices : R!ClearRetained(p, d)
      PROVE  ProcessTypes'
  <2>1. proc \in {"up", "stopping"} /\ UNCHANGED <<proc, conf, managers, todo>>
    BY <1>5 DEF R!PurgeEnds, R!ClearRetained, R!start, ProcessTypes
  <2> QED
    BY <2>1 DEF ProcessTypes
<1>6. CASE R!Boot
  BY <1>6 DEF R!Boot, ProcessTypes
<1>7. CASE R!Deleted \/ R!Registered \/ R!OpenFile \/ R!WriteFile
  <2>1. /\ proc \notin {"up", "stopping"} /\ UNCHANGED <<conf, managers, purges, due>>
        /\ todo' # {} => proc' = "register"
    BY <1>7 DEF R!Deleted, R!Registered, R!OpenFile, R!WriteFile, R!GoTo
  <2> QED
    BY <2>1 DEF ProcessTypes
<1>8. CASE R!Record
  BY <1>8 DEF R!Record, R!GoTo, ProcessTypes
<1>9. ASSUME NEW d \in Devices, R!DeleteTopic(d) \/ R!RegisterTopic(d) PROVE ProcessTypes'
  <2>1. /\ proc \in {"delete", "register"} /\ UNCHANGED <<proc, conf, managers, purges, due>>
    BY <1>9 DEF R!DeleteTopic, R!RegisterTopic, R!Request
  <2> QED
    BY <2>1 DEF ProcessTypes
<1> QED
  BY <1>1, <1>2, <1>3, <1>4, <1>5, <1>6, <1>7, <1>8, <1>9, Zenon
     DEF R!Next, R!Starts, R!Stops

LEMMA ProcessStep == ProcessTypes /\ [Next]_vars => ProcessTypes'
<1> SUFFICES ASSUME ProcessTypes, [Next]_vars PROVE ProcessTypes'
  OBVIOUS
<1>1. R!Next \/ UNCHANGED rVars
  BY Zenon DEF Next, Handshake, Counter, Stream, Status, Bemfa, Limits, Restart, Import, Scan, vars
<1> QED
  BY <1>1, ProcessNext DEF rVars, ProcessTypes

LEMMA RestartTypesHold == RestartInv /\ ProcessTypes => R!TypeOK
BY DEF RestartInv, RestartTypes, Configuration, ProcessTypes, R!TypeOK

-----------------------------------------------------------------------------
(* The types of all parts. *)

LEMMA LoginTypesHold == LoginInv => H!TypeOK
<1> SUFFICES ASSUME LoginTypes PROVE H!TypeOK
  BY DEF LoginInv
<1>1. ASSUME NEW i \in DOMAIN inbox
      PROVE  inbox[i].kind \in H!Payloads \cup {"init", "key", "ready", "taken"}
  <2>1. inbox[i] \in AnyFrame
    BY ElementOfSeq, LenProperties DEF LoginTypes
  <2> QED
    BY <2>1 DEF AnyFrame
<1> QED
  BY <1>1 DEF LoginTypes, H!TypeOK

LEMMA ScanTypesHold == ScanInv /\ line \in Seq(Callers) => C!TypeOK
<1> SUFFICES ASSUME ScanInv, line \in Seq(Callers) PROVE C!TypeOK
  OBVIOUS
<1>1. ASSUME NEW i \in DOMAIN line PROVE line[i] \in Callers
  BY ElementOfSeq, LenProperties
<1>2. bare = {} /\ stopped \subseteq Callers
  BY DEF ScanInv, ScanTypes, C!AnsweredUnlessStopped
<1> QED
  BY <1>1, <1>2 DEF ScanInv, ScanTypes, C!TypeOK

(* The inductive invariants of the parts, together. *)
LinkTypesInv ==
    /\ LoginInv
    /\ CounterInv /\ Flags /\ Drift
    /\ ScanInv /\ line \in Seq(Callers)
TypesInv ==
    /\ LinkTypesInv
    /\ StreamTypes /\ CacheInv
    /\ PingInv /\ EchoInv /\ ClientTypes
    /\ LimitsInv /\ Queued /\ Retries /\ Readings
    /\ RestartInv /\ ProcessTypes
    /\ ImportInv /\ ImportTypes

(* Every part keeps its variables to their types, and its queues, its counts
   and its timers to the bounds that the code sets for them. *)
THEOREM ServicesTypes == Spec => []TypesOK
<1>1. Init => TypesInv
  <2>1. Init => line \in Seq(Callers)
    BY EmptySeq DEF Init, C!Init
  <2> QED
    BY <2>1, LoginInit, CounterInit, DriftInit, ScanInit, StreamTypesInit, CacheInit,
       ClientInit, ClientTypesInit, LimitsInit, QueuedInit, RestartInit, ProcessInit, ImportInit,
       ImportTypesInit, Zenon
       DEF TypesInv, LinkTypesInv
<1>2. TypesInv /\ [Next]_vars => TypesInv'
  <2>1. LinkTypesInv /\ [Next]_vars => LinkTypesInv'
    BY LoginStep, CounterStep, DriftStep, ScanStep, LineStep, Zenon DEF LinkTypesInv
  <2> QED
    BY <2>1, StreamTypesStep, CacheStep, ClientStep, ClientTypesStep, LimitsStep, QueuedStep,
       RestartStep, ProcessStep, ImportStep, ImportTypesStep, Zenon DEF TypesInv
<1>3. TypesInv => TypesOK
  BY LoginTypesHold, CounterTypes, ScanTypesHold, StreamTypesHold, CacheTypesHold,
     ClientTypesHold, LimitTypesHold, RestartTypesHold, ImportTypesHold, Zenon
     DEF TypesInv, LinkTypesInv, TypesOK
<1> QED
  BY <1>1, <1>2, <1>3, PTL DEF Spec
=============================================================================
