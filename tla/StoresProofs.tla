----------------------------- MODULE StoresProofs -----------------------------
(***************************************************************************)
(* Proofs about the components that keep data, for any constants: the      *)
(* history buffer, the protocol switches, the settings and the rules of a  *)
(* charge.                                                                 *)
(***************************************************************************)
EXTENDS MCStores, FiniteSetTheorems, SequenceTheorems, WellFoundedInduction, TLAPS

-----------------------------------------------------------------------------
(* HistoryBuffer. *)

Inside == {"flush", "insert", "commit", "after"}
RowSet == [kind : D!Kinds, n : Nat]
CallSet == [op : D!Ops \cup {"none"}, pc : Inside \cup {"idle", "lock", "select"},
            row : RowSet \cup {D!NoRow}, before : SUBSET RowSet]

BufferTypes ==
    /\ holder \in Threads \cup {D!Nobody}
    /\ jobs \in [Threads -> CallSet]
    /\ recorded \subseteq RowSet
    /\ buffer \subseteq recorded /\ disk \subseteq recorded /\ seen \subseteq recorded
    /\ gone \subseteq recorded /\ buried \subseteq recorded

LockIsHeld == \A t \in Threads : (holder = t) <=> jobs[t].pc \in Inside

(* A row that waits to be recorded is new, and no other thread's. *)
Waiting(t) == jobs[t].pc = "lock" /\ jobs[t].op \in D!Kinds
RowsAreNew ==
    \A t \in Threads :
        IF Waiting(t)
        THEN /\ jobs[t].row \notin recorded
             /\ jobs[t].row \in RowSet
             /\ jobs[t].row.kind = jobs[t].op
             /\ \A u \in Threads : jobs[u].row = jobs[t].row => u = t
        ELSE jobs[t].row \in recorded \cup {D!NoRow}

(* Rows are numbered one by one. *)
Numbered ==
    /\ IsFiniteSet(recorded)
    /\ \A r \in D!Known : r.n \in 1 .. Cardinality(D!Of(r.kind, D!Known))

(* A flush that was completed leaves nothing behind. *)
Flushed == \A t \in Threads : jobs[t].pc \in {"commit", "after"} => buffer = {}

SmallBatches ==
    holder = D!Nobody => \A kind \in D!Kinds : Cardinality(D!Of(kind, buffer)) < BatchSize

(* What was recorded and has not gone is seen, or still in the buffer. *)
NothingLost == recorded \ gone \subseteq seen \cup buffer

(* A transaction is only open in the middle of a flush. *)
Committed ==
    (\A t \in Threads : jobs[t].pc \notin {"insert", "commit"}) => seen \subseteq disk

ReadsFind ==
    \A t \in Threads :
        /\ jobs[t].before \subseteq recorded
        /\ jobs[t].pc = "select" => jobs[t].before \ gone \subseteq seen

BufferInv ==
    /\ BufferTypes /\ LockIsHeld /\ RowsAreNew /\ Numbered /\ Flushed
    /\ SmallBatches /\ NothingLost /\ Committed /\ ReadsFind
    /\ D!DeletedStaysDeleted

-----------------------------------------------------------------------------
(* An instance has operators of FiniteSets of its own: they are the same. *)
LEMMA BufferSets ==
  /\ \A x : D!IsFiniteSet(x) <=> IsFiniteSet(x)
  /\ \A x : D!Cardinality(x) = Cardinality(x)
<1>1. \A x : D!IsFiniteSet(x) <=> IsFiniteSet(x)
  BY DEF D!IsFiniteSet, IsFiniteSet
<1>2. \A x : D!Cardinality(x) = Cardinality(x)
  BY DEF D!Cardinality, Cardinality
<1> QED
  BY <1>1, <1>2

(* A thread goes on or finishes, its row having been recorded. *)
LEMMA Moves ==
  ASSUME BufferTypes, RowsAreNew, Numbered, NEW t \in Threads, ~Waiting(t),
         UNCHANGED recorded,
         \/ \E pc \in Inside \cup {"select"} : D!GoOn(t, pc)
         \/ jobs' = [jobs EXCEPT ![t] = D!Idle]
  PROVE  /\ jobs' \in [Threads -> CallSet]
         /\ \A u \in Threads : u # t => jobs'[u] = jobs[u]
         /\ jobs'[t].op \in {jobs[t].op, "none"}
         /\ jobs'[t].before \in {jobs[t].before, {}}
         /\ RowsAreNew' /\ Numbered'
<1>1. jobs \in [Threads -> CallSet] /\ jobs[t] \in CallSet
  BY DEF BufferTypes
<1>2. /\ jobs' \in [Threads -> CallSet]
      /\ \A u \in Threads : u # t => jobs'[u] = jobs[u]
      /\ jobs'[t].op \in {jobs[t].op, "none"}
      /\ jobs'[t].before \in {jobs[t].before, {}}
      /\ jobs'[t].row \in {jobs[t].row, D!NoRow}
      /\ jobs'[t].pc # "lock"
  <2>1. CASE \E pc \in Inside \cup {"select"} : D!GoOn(t, pc)
    <3>1. PICK pc \in Inside \cup {"select"} : jobs' = [jobs EXCEPT ![t].pc = pc]
      BY <2>1 DEF D!GoOn
    <3>2. pc # "lock"
      BY DEF Inside
    <3>3. [jobs[t] EXCEPT !.pc = pc] \in CallSet
      BY <1>1 DEF CallSet
    <3>4. jobs'[t] = [jobs[t] EXCEPT !.pc = pc] /\ \A u \in Threads : u # t => jobs'[u] = jobs[u]
      BY <1>1, <3>1
    <3>5. /\ jobs'[t].op = jobs[t].op /\ jobs'[t].before = jobs[t].before
          /\ jobs'[t].row = jobs[t].row /\ jobs'[t].pc = pc
      BY <1>1, <3>4 DEF CallSet
    <3> QED
      BY <1>1, <3>1, <3>2, <3>3, <3>4, <3>5
  <2>2. CASE jobs' = [jobs EXCEPT ![t] = D!Idle]
    <3>1. /\ D!Idle \in CallSet /\ D!Idle.op = "none" /\ D!Idle.before = {}
          /\ D!Idle.row = D!NoRow /\ D!Idle.pc = "idle"
      BY DEF D!Idle, D!Job, CallSet
    <3> QED
      BY <1>1, <2>2, <3>1
  <2> QED
    BY <2>1, <2>2
<1>3. jobs[t].row \in recorded \cup {D!NoRow}
  BY DEF RowsAreNew
<1>4. \A u \in Threads : Waiting(u)' => u # t /\ Waiting(u)
  BY <1>2 DEF Waiting
<1>5. RowsAreNew'
  <2> SUFFICES ASSUME NEW u \in Threads
               PROVE  IF Waiting(u)'
                      THEN /\ jobs'[u].row \notin recorded
                           /\ jobs'[u].row \in RowSet
                           /\ jobs'[u].row.kind = jobs'[u].op
                           /\ \A w \in Threads : jobs'[w].row = jobs'[u].row => w = u
                      ELSE jobs'[u].row \in recorded \cup {D!NoRow}
    BY DEF RowsAreNew
  <2>1. CASE u = t
    BY <1>2, <1>3, <1>4, <2>1
  <2>2. CASE u # t /\ ~Waiting(u)
    BY <1>2, <2>2 DEF RowsAreNew, Waiting
  <2>3. CASE u # t /\ Waiting(u)
    <3>1. /\ jobs[u].row \notin recorded /\ jobs[u].row \in RowSet
          /\ jobs[u].row.kind = jobs[u].op
          /\ \A w \in Threads : jobs[w].row = jobs[u].row => w = u
      BY <2>3 DEF RowsAreNew
    <3>2. jobs[u].row # D!NoRow
      BY <3>1 DEF RowSet, D!NoRow, D!Row, D!Kinds
    <3>3. Waiting(u)'
      BY <1>2, <2>3 DEF Waiting
    <3>4. jobs'[t].row # jobs[u].row
      BY <1>2, <1>3, <3>1, <3>2
    <3> QED
      BY <1>2, <2>3, <3>1, <3>3, <3>4
  <2> QED
    BY <2>1, <2>2, <2>3
<1>6. D!Known' = D!Known
  BY <1>2, <1>3 DEF D!Known
<1>7. Numbered'
  <2>1. IsFiniteSet(recorded') /\ \A r \in D!Known : r.n \in 1 .. Cardinality(D!Of(r.kind, D!Known))
    BY DEF Numbered
  <2>2. \A r \in D!Known' : r.n \in 1 .. Cardinality(D!Of(r.kind, D!Known'))
    BY <1>6, <2>1, Zenon
  <2> QED
    BY <2>1, <2>2, Zenon DEF Numbered, D!Of
<1> QED
  BY <1>2, <1>5, <1>7

(* Kinds of rows and of calls. *)
LEMMA Kinds ==
  /\ D!Kinds = {"sample", "point"} /\ D!Reads = {"query", "points"}
  /\ D!Ops = {"sample", "point", "query", "points", "delete"}
  BY DEF D!Kinds, D!Reads, D!Ops

LEMMA Constants ==
  /\ IsFiniteSet(Threads) /\ D!Nobody \notin Threads
  /\ BatchSize \in Nat \ {0} /\ MaxRows \in Nat
  BY StoresAssumption, BufferSets DEF D!BufferConstants

LEMMA NoRows == \A kind \in D!Kinds : Cardinality(D!Of(kind, {})) < BatchSize
<1>1. \A kind \in D!Kinds : D!Of(kind, {}) = {}
  BY DEF D!Of
<1> QED
  BY <1>1, Constants, FS_EmptySet

LEMMA BufferInit == Init => BufferInv
<1> SUFFICES ASSUME D!Init PROVE BufferInv
  BY DEF Init
<1>1. \A t \in Threads : /\ jobs[t].pc = "idle" /\ jobs[t].row = D!NoRow
                         /\ jobs[t].before = {}
  BY DEF D!Init, D!Idle, D!Job
<1>2. BufferTypes
  BY DEF D!Init, D!Idle, D!Job, BufferTypes, CallSet
<1>3. LockIsHeld
  BY <1>1, Constants DEF D!Init, LockIsHeld, Inside
<1>4. RowsAreNew
  BY <1>1 DEF RowsAreNew, Waiting
<1>5. Numbered
  <2>1. D!Known = {}
    BY <1>1 DEF D!Init, D!Known
  <2> QED
    BY <2>1, FS_EmptySet DEF D!Init, Numbered
<1>6. Flushed /\ NothingLost /\ Committed
  BY <1>1 DEF D!Init, Flushed, NothingLost, Committed
<1>7. SmallBatches
  BY NoRows DEF D!Init, SmallBatches
<1>8. ReadsFind
  BY <1>1 DEF ReadsFind
<1>9. D!DeletedStaysDeleted
  BY DEF D!Init, D!DeletedStaysDeleted
<1> QED
  BY <1>2, <1>3, <1>4, <1>5, <1>6, <1>7, <1>8, <1>9 DEF BufferInv

(* A thread is called: a row to record gets the next number of its kind. *)
LEMMA SubmitStep ==
  ASSUME BufferInv, NEW t \in Threads, NEW op \in D!Ops, D!Submit(t, op)
  PROVE  BufferInv'
<1> DEFINE new == IF op \in D!Kinds
                  THEN D!Row(op, Cardinality(D!Of(op, D!Known)) + 1) ELSE D!NoRow
           j == D!Job(op, "lock", new, IF op \in D!Reads THEN recorded ELSE {})
<1>1. /\ jobs' = [jobs EXCEPT ![t] = j]
      /\ UNCHANGED <<buffer, disk, seen, holder, recorded, gone, buried>>
      /\ jobs[t] = D!Idle
  <2>1. new = IF op \in D!Kinds
              THEN D!Row(op, D!Cardinality(D!Of(op, D!Known)) + 1) ELSE D!NoRow
    BY BufferSets
  <2> HIDE DEF new
  <2> QED
    BY <2>1 DEF D!Submit, D!aux
<1>2. /\ jobs[t].row = D!NoRow /\ jobs[t].pc = "idle"
  BY <1>1 DEF D!Idle, D!Job
<1>3. IsFiniteSet(D!Known) /\ \A kind \in D!Kinds : Cardinality(D!Of(kind, D!Known)) \in Nat
  <2>1. [u \in Threads |-> jobs[u].row] \in Surjection(Threads, {jobs[u].row : u \in Threads})
    BY DEF Surjection
  <2>2. IsFiniteSet({jobs[u].row : u \in Threads})
    BY <2>1, Constants, FS_Surjection
  <2>3. IsFiniteSet(recorded \cup {jobs[u].row : u \in Threads})
    BY <2>2, FS_Union DEF BufferInv, Numbered
  <2>4. IsFiniteSet(D!Known)
    BY <2>3, FS_Subset DEF D!Known
  <2>5. \A kind \in D!Kinds : IsFiniteSet(D!Of(kind, D!Known))
    BY <2>4, FS_Subset DEF D!Of
  <2> QED
    BY <2>4, <2>5, FS_CardinalityType
<1>4. /\ op \in D!Kinds => new \in RowSet /\ new.kind = op
      /\ op \in D!Kinds => new.n = Cardinality(D!Of(op, D!Known)) + 1
      /\ op \notin D!Kinds => new = D!NoRow
  BY <1>3 DEF D!Row, RowSet
<1>5. /\ j.op = op /\ j.pc = "lock" /\ j.row = new
      /\ j.before \subseteq recorded
  BY DEF D!Job
<1>6. j \in CallSet
  <2>1. j.before \in SUBSET RowSet
    BY <1>5 DEF BufferInv, BufferTypes
  <2>2. new \in RowSet \cup {D!NoRow}
    BY <1>4
  <2> QED
    BY <2>1, <2>2 DEF D!Job, CallSet
<1> HIDE DEF j
<1>7. /\ jobs' \in [Threads -> CallSet] /\ jobs'[t] = j
      /\ \A u \in Threads : u # t => jobs'[u] = jobs[u]
  BY <1>1, <1>6 DEF BufferInv, BufferTypes
<1>8. BufferTypes'
  BY <1>1, <1>7 DEF BufferInv, BufferTypes
<1>9. LockIsHeld' /\ Flushed' /\ SmallBatches' /\ NothingLost' /\ D!DeletedStaysDeleted'
  <2>1. \A u \in Threads : (jobs'[u].pc \in Inside) = (jobs[u].pc \in Inside)
    BY <1>2, <1>5, <1>7 DEF Inside
  <2>2. \A u \in Threads : jobs'[u].pc \in {"commit", "after"} => jobs[u].pc \in {"commit", "after"}
    BY <1>2, <1>5, <1>7
  <2>3. LockIsHeld'
    BY <1>1, <2>1 DEF BufferInv, LockIsHeld
  <2>4. Flushed'
    BY <1>1, <2>2 DEF BufferInv, Flushed
  <2>5. SmallBatches' /\ NothingLost' /\ D!DeletedStaysDeleted'
    BY <1>1 DEF BufferInv, SmallBatches, NothingLost, D!DeletedStaysDeleted, D!Of
  <2> QED
    BY <2>3, <2>4, <2>5
<1>10. Committed'
  <2>1. \A u \in Threads : jobs'[u].pc \notin {"insert", "commit"} =>
            jobs[u].pc \notin {"insert", "commit"}
    BY <1>2, <1>5, <1>7
  <2> QED
    BY <1>1, <2>1 DEF BufferInv, Committed
<1>11. ReadsFind'
  BY <1>1, <1>5, <1>7 DEF BufferInv, ReadsFind
<1>12. \A r \in D!Known : op \in D!Kinds => r # new
  <2> SUFFICES ASSUME NEW r \in D!Known, op \in D!Kinds, r = new PROVE FALSE
    OBVIOUS
  <2>1. r.n \in 1 .. Cardinality(D!Of(op, D!Known))
    BY <1>4 DEF BufferInv, Numbered
  <2> QED
    BY <1>3, <1>4, <2>1
<1>13. D!Known' = IF op \in D!Kinds THEN D!Known \cup {new} ELSE D!Known
  <2>1. op \in D!Kinds => new # D!NoRow
    BY <1>4 DEF RowSet, D!NoRow, D!Row, D!Kinds
  <2>2. {jobs'[u].row : u \in Threads} \ {D!NoRow} =
           ({jobs[u].row : u \in Threads} \cup {new}) \ {D!NoRow}
    BY <1>2, <1>5, <1>7
  <2> QED
    BY <1>1, <1>4, <2>1, <2>2 DEF D!Known
<1>14. Numbered'
  <2>1. CASE op \notin D!Kinds
    BY <1>1, <1>13, <2>1 DEF BufferInv, Numbered, D!Of
  <2>2. CASE op \in D!Kinds
    <3>1. /\ D!Of(op, D!Known)' = D!Of(op, D!Known) \cup {new}
          /\ new \notin D!Of(op, D!Known)
          /\ \A kind : kind # op => D!Of(kind, D!Known)' = D!Of(kind, D!Known)
      BY <1>4, <1>12, <1>13, <2>2 DEF D!Of
    <3>2. Cardinality(D!Of(op, D!Known)') = Cardinality(D!Of(op, D!Known)) + 1
      <4>1. IsFiniteSet(D!Of(op, D!Known))
        BY <1>3, FS_Subset DEF D!Of
      <4> HIDE DEF new
      <4>2. Cardinality(D!Of(op, D!Known) \cup {new}) = Cardinality(D!Of(op, D!Known)) + 1
        BY <3>1, <4>1, FS_AddElement
      <4> QED
        BY <3>1, <4>2, Zenon
    <3>3. ASSUME NEW r \in D!Known'
          PROVE  r.n \in 1 .. Cardinality(D!Of(r.kind, D!Known)')
      <4>1. CASE r = new
        BY <1>3, <1>4, <2>2, <3>2, <4>1
      <4>2. CASE r \in D!Known
        <5>1. r.n \in 1 .. Cardinality(D!Of(r.kind, D!Known))
          BY <4>2 DEF BufferInv, Numbered
        <5>2. CASE r.kind = op
          BY <1>3, <2>2, <3>2, <5>1, <5>2
        <5>3. CASE r.kind # op
          BY <3>1, <5>1, <5>3
        <5> QED
          BY <5>2, <5>3
      <4> QED
        BY <1>13, <2>2, <4>1, <4>2
    <3> QED
      BY <1>1, <3>3 DEF BufferInv, Numbered
  <2> QED
    BY <2>1, <2>2
<1>15. RowsAreNew'
  <2> SUFFICES ASSUME NEW u \in Threads
               PROVE  IF Waiting(u)'
                      THEN /\ jobs'[u].row \notin recorded
                           /\ jobs'[u].row \in RowSet
                           /\ jobs'[u].row.kind = jobs'[u].op
                           /\ \A w \in Threads : jobs'[w].row = jobs'[u].row => w = u
                      ELSE jobs'[u].row \in recorded \cup {D!NoRow}
    BY <1>1 DEF RowsAreNew
  <2>1. CASE u = t
    <3>1. CASE op \in D!Kinds
      <4>1. new # D!NoRow /\ new \in RowSet /\ new.kind = op
        BY <1>4, <3>1 DEF RowSet, D!NoRow, D!Row, D!Kinds
      <4>2. new \notin recorded /\ \A w \in Threads : jobs[w].row # new
        BY <1>12, <3>1, <4>1 DEF D!Known, BufferInv, BufferTypes, RowSet, D!NoRow, D!Row, D!Kinds
      <4>3. Waiting(t)'
        BY <1>5, <1>7, <3>1 DEF Waiting
      <4> QED
        BY <1>5, <1>7, <2>1, <4>1, <4>2, <4>3
    <3>2. CASE op \notin D!Kinds
      BY <1>4, <1>5, <1>7, <2>1, <3>2 DEF Waiting
    <3> QED
      BY <3>1, <3>2
  <2>2. CASE u # t /\ ~Waiting(u)
    BY <1>7, <2>2 DEF BufferInv, RowsAreNew, Waiting
  <2>3. CASE u # t /\ Waiting(u)
    <3>1. /\ jobs[u].row \notin recorded /\ jobs[u].row \in RowSet
          /\ jobs[u].row.kind = jobs[u].op
          /\ \A w \in Threads : jobs[w].row = jobs[u].row => w = u
      BY <2>3 DEF BufferInv, RowsAreNew
    <3>2. jobs[u].row # D!NoRow
      BY <3>1 DEF RowSet, D!NoRow, D!Row, D!Kinds
    <3>3. Waiting(u)'
      BY <1>7, <2>3 DEF Waiting
    <3>4. jobs[u].row # new
      <4>1. jobs[u].row \in D!Known
        BY <3>2 DEF D!Known
      <4> QED
        BY <1>4, <1>12, <3>2, <4>1
    <3>5. jobs'[t].row # jobs[u].row
      BY <1>5, <1>7, <3>4
    <3> QED
      BY <1>7, <2>3, <3>1, <3>3, <3>5
  <2> QED
    BY <2>1, <2>2, <2>3
<1> QED
  BY <1>8, <1>9, <1>10, <1>11, <1>14, <1>15 DEF BufferInv

(* A row gets into the buffer, which may then be full. *)
LEMMA RecordStep ==
  ASSUME BufferInv, NEW t \in Threads, D!Record(t)
  PROVE  BufferInv'
<1> DEFINE row == jobs[t].row
<1>1. /\ Waiting(t) /\ holder = D!Nobody
      /\ buffer' = buffer \cup {row} /\ recorded' = recorded \cup {row}
      /\ UNCHANGED <<disk, seen, gone, buried>>
      /\ \/ holder' = t /\ D!GoOn(t, "flush")
         \/ ~D!Full(buffer') /\ D!Finish(t)
  BY DEF D!Record, Waiting
<1>2. /\ row \in RowSet /\ row \notin recorded
      /\ \A u \in Threads : jobs[u].row = row => u = t
  BY <1>1 DEF BufferInv, RowsAreNew
<1>3. row # D!NoRow
  BY <1>2 DEF RowSet, D!NoRow, D!Row, D!Kinds
<1>4. /\ jobs' \in [Threads -> CallSet]
      /\ \A u \in Threads : u # t => jobs'[u] = jobs[u]
      /\ jobs'[t].before \in {jobs[t].before, {}}
      /\ jobs'[t].row \in {row, D!NoRow}
      /\ \/ holder' = t /\ jobs'[t].pc = "flush"
         \/ holder' = D!Nobody /\ ~D!Full(buffer') /\ jobs'[t].pc = "idle"
  <2>1. jobs \in [Threads -> CallSet] /\ jobs[t] \in CallSet
    BY DEF BufferInv, BufferTypes
  <2>2. CASE holder' = t /\ D!GoOn(t, "flush")
    <3>1. jobs' = [jobs EXCEPT ![t] = [jobs[t] EXCEPT !.pc = "flush"]]
      BY <2>1, <2>2 DEF D!GoOn
    <3>2. [jobs[t] EXCEPT !.pc = "flush"] \in CallSet
      BY <2>1 DEF CallSet, Inside
    <3>3. jobs'[t] = [jobs[t] EXCEPT !.pc = "flush"]
      BY <2>1, <3>1
    <3>4. /\ jobs'[t].before = jobs[t].before
          /\ jobs'[t].row = jobs[t].row /\ jobs'[t].pc = "flush"
      BY <2>1, <3>3 DEF CallSet
    <3> QED
      BY <2>1, <2>2, <3>1, <3>2, <3>4
  <2>3. CASE ~D!Full(buffer') /\ D!Finish(t)
    <3>1. /\ D!Idle \in CallSet /\ D!Idle.before = {}
          /\ D!Idle.row = D!NoRow /\ D!Idle.pc = "idle"
      BY DEF D!Idle, D!Job, CallSet
    <3>2. jobs' = [jobs EXCEPT ![t] = D!Idle] /\ holder' = D!Nobody
      BY <2>3 DEF D!Finish
    <3> QED
      BY <2>1, <2>3, <3>1, <3>2
  <2> QED
    BY <1>1, <2>2, <2>3
<1> HIDE DEF row
<1>5. BufferTypes'
  BY <1>1, <1>2, <1>4, Constants DEF BufferInv, BufferTypes
<1>6. \A u \in Threads : jobs[u].pc \notin Inside
  BY <1>1, Constants DEF BufferInv, LockIsHeld
<1>7. LockIsHeld'
  BY <1>4, <1>6, Constants DEF LockIsHeld, Inside
<1>8. RowsAreNew'
  <2> SUFFICES ASSUME NEW u \in Threads
               PROVE  IF Waiting(u)'
                      THEN /\ jobs'[u].row \notin recorded'
                           /\ jobs'[u].row \in RowSet
                           /\ jobs'[u].row.kind = jobs'[u].op
                           /\ \A w \in Threads : jobs'[w].row = jobs'[u].row => w = u
                      ELSE jobs'[u].row \in recorded' \cup {D!NoRow}
    BY DEF RowsAreNew
  <2>1. CASE u = t
    BY <1>1, <1>4, <2>1 DEF Waiting
  <2>2. CASE u # t /\ ~Waiting(u)
    BY <1>1, <1>4, <2>2 DEF BufferInv, RowsAreNew, Waiting
  <2>3. CASE u # t /\ Waiting(u)
    <3>1. /\ jobs[u].row \notin recorded /\ jobs[u].row \in RowSet
          /\ jobs[u].row.kind = jobs[u].op
          /\ \A w \in Threads : jobs[w].row = jobs[u].row => w = u
      BY <2>3 DEF BufferInv, RowsAreNew
    <3>2. jobs[u].row # row /\ jobs[u].row # D!NoRow
      BY <1>2, <2>3, <3>1 DEF RowSet, D!NoRow, D!Row, D!Kinds
    <3>3. Waiting(u)'
      BY <1>4, <2>3 DEF Waiting
    <3> QED
      BY <1>1, <1>4, <2>3, <3>1, <3>2, <3>3
  <2> QED
    BY <2>1, <2>2, <2>3
<1>9. D!Known' = D!Known
  BY <1>1, <1>4 DEF D!Known, row
<1>10. Numbered'
  <2>1. IsFiniteSet(recorded')
    BY <1>1, FS_AddElement DEF BufferInv, Numbered
  <2>2. \A r \in D!Known' : r.n \in 1 .. Cardinality(D!Of(r.kind, D!Known'))
    BY <1>9, Zenon DEF BufferInv, Numbered
  <2> QED
    BY <2>1, <2>2, Zenon DEF Numbered, D!Of
<1>11. Flushed'
  BY <1>4, <1>6 DEF Flushed, Inside
<1>12. SmallBatches'
  <2>1. CASE holder' = D!Nobody /\ ~D!Full(buffer')
    <3> SUFFICES ASSUME NEW kind \in D!Kinds
                 PROVE  Cardinality(D!Of(kind, buffer')) < BatchSize
      BY DEF SmallBatches, D!Of
    <3>1. ~(Cardinality(D!Of(kind, buffer')) >= BatchSize)
      BY <2>1, BufferSets DEF D!Full
    <3>2. IsFiniteSet(buffer')
      BY <1>5, <1>10, FS_Subset DEF BufferTypes, Numbered
    <3>3. IsFiniteSet(D!Of(kind, buffer'))
      BY <3>2, FS_Subset DEF D!Of
    <3> QED
      BY <3>1, <3>3, FS_CardinalityType, Constants
  <2>2. CASE holder' = t
    BY <2>2, Constants DEF SmallBatches
  <2> QED
    BY <1>4, <2>1, <2>2
<1>13. NothingLost' /\ D!DeletedStaysDeleted'
  BY <1>1, <1>2 DEF BufferInv, BufferTypes, NothingLost, D!DeletedStaysDeleted
<1>14. Committed'
  <2>1. \A u \in Threads : jobs[u].pc \notin {"insert", "commit"}
    BY <1>6 DEF Inside
  <2> QED
    BY <1>1, <2>1 DEF BufferInv, Committed
<1>15. ReadsFind'
  BY <1>1, <1>4 DEF BufferInv, ReadsFind
<1> QED
  BY <1>5, <1>7, <1>8, <1>10, <1>11, <1>12, <1>13, <1>14, <1>15 DEF BufferInv

(* The lock is taken; nothing to flush means that the flush is over. *)
LEMMA AcquireStep ==
  ASSUME BufferInv, NEW t \in Threads, D!Acquire(t)
  PROVE  BufferInv'
<1> DEFINE pc == D!FlushFirst
<1>1. /\ ~Waiting(t) /\ jobs[t].pc = "lock" /\ holder = D!Nobody /\ holder' = t
      /\ pc \in {"flush", "after"} /\ (pc = "after" => buffer = {})
      /\ D!GoOn(t, pc)
      /\ UNCHANGED <<buffer, disk, seen, recorded, gone, buried>>
  BY DEF D!Acquire, D!FlushFirst, Waiting, D!aux
<1> HIDE DEF pc
<1>2. pc \in Inside
  BY <1>1 DEF Inside
<1>3. /\ jobs' \in [Threads -> CallSet]
      /\ \A u \in Threads : u # t => jobs'[u] = jobs[u]
      /\ jobs'[t].before \in {jobs[t].before, {}}
      /\ RowsAreNew' /\ Numbered'
  BY <1>1, <1>2, Moves DEF BufferInv
<1>4. jobs'[t].pc = pc
  BY <1>1 DEF D!GoOn, BufferInv, BufferTypes, CallSet
<1>5. BufferTypes'
  BY <1>1, <1>3 DEF BufferInv, BufferTypes
<1>6. \A u \in Threads : jobs[u].pc \notin Inside
  BY <1>1, Constants DEF BufferInv, LockIsHeld
<1>7. LockIsHeld' /\ Flushed'
  BY <1>1, <1>2, <1>3, <1>4, <1>6 DEF LockIsHeld, Flushed, Inside
<1>8. SmallBatches'
  BY <1>1, Constants DEF SmallBatches
<1>9. NothingLost' /\ D!DeletedStaysDeleted'
  BY <1>1 DEF BufferInv, NothingLost, D!DeletedStaysDeleted
<1>10. Committed'
  <2>1. \A u \in Threads : jobs[u].pc \notin {"insert", "commit"}
    BY <1>6 DEF Inside
  <2> QED
    BY <1>1, <2>1 DEF BufferInv, Committed
<1>11. ReadsFind'
  BY <1>1, <1>3, <1>4 DEF BufferInv, ReadsFind
<1> QED
  BY <1>3, <1>5, <1>7, <1>8, <1>9, <1>10, <1>11 DEF BufferInv

-----------------------------------------------------------------------------
(* Under the lock there is one thread. *)
LEMMA OneInside ==
  ASSUME BufferInv, NEW t \in Threads, jobs[t].pc \in Inside
  PROVE  /\ holder = t /\ holder # D!Nobody /\ ~Waiting(t)
         /\ \A u \in Threads : u # t => jobs[u].pc \notin Inside
  BY Constants DEF BufferInv, LockIsHeld, Waiting, Inside

(* It goes on under the lock. *)
LEMMA GoesOnInside ==
  ASSUME BufferInv, NEW t \in Threads, jobs[t].pc \in Inside,
         NEW pc \in Inside, D!GoOn(t, pc), UNCHANGED <<holder, recorded>>,
         buffer' \subseteq recorded, disk' \subseteq recorded,
         seen' \subseteq recorded, gone' \subseteq recorded, buried' \subseteq recorded,
         pc \in {"commit", "after"} => buffer' = {}
  PROVE  /\ BufferTypes' /\ LockIsHeld' /\ RowsAreNew' /\ Numbered' /\ Flushed'
         /\ SmallBatches'
         /\ jobs'[t].pc = pc
         /\ \A u \in Threads : jobs'[u].before \in {jobs[u].before, {}}
         /\ \A u \in Threads : u # t => jobs'[u] = jobs[u] /\ jobs[u].pc \notin Inside
         /\ \A u \in Threads : jobs'[u].pc = "select" => u # t
<1>1. /\ holder = t /\ holder # D!Nobody /\ ~Waiting(t)
      /\ \A u \in Threads : u # t => jobs[u].pc \notin Inside
  BY OneInside
<1>2. /\ jobs' \in [Threads -> CallSet]
      /\ \A u \in Threads : u # t => jobs'[u] = jobs[u]
      /\ jobs'[t].before \in {jobs[t].before, {}}
      /\ RowsAreNew' /\ Numbered'
  BY <1>1, Moves DEF BufferInv
<1>3. jobs'[t].pc = pc
  BY DEF D!GoOn, BufferInv, BufferTypes, CallSet
<1>4. BufferTypes'
  BY <1>2 DEF BufferInv, BufferTypes
<1>5. LockIsHeld'
  BY <1>1, <1>2, <1>3 DEF LockIsHeld
<1>6. Flushed'
  BY <1>1, <1>2, <1>3 DEF Flushed, Inside
<1>7. SmallBatches'
  BY <1>1 DEF SmallBatches
<1>8. pc # "select"
  BY DEF Inside
<1> QED
  BY <1>1, <1>2, <1>3, <1>4, <1>5, <1>6, <1>7, <1>8

(* Samples and points go from the buffer to where the connection sees them. *)
LEMMA InsertsStep ==
  ASSUME BufferInv, NEW t \in Threads, D!InsertSamples(t) \/ D!InsertPoints(t)
  PROVE  BufferInv'
<1>1. PICK pc \in {"insert", "commit"} :
         /\ jobs[t].pc \in Inside /\ D!GoOn(t, pc)
         /\ seen' \cup buffer' = seen \cup buffer
         /\ seen \subseteq seen'
         /\ pc = "commit" => buffer' = {}
         /\ UNCHANGED <<disk, holder, recorded, gone, buried>>
  BY DEF D!InsertSamples, D!InsertPoints, D!aux, D!Of, Inside
<1>2. pc \in Inside /\ pc # "after"
  BY DEF Inside
<1>3. /\ buffer' \subseteq recorded /\ disk' \subseteq recorded
      /\ seen' \subseteq recorded /\ gone' \subseteq recorded /\ buried' \subseteq recorded
  BY <1>1 DEF BufferInv, BufferTypes
<1>4. /\ BufferTypes' /\ LockIsHeld' /\ RowsAreNew' /\ Numbered' /\ Flushed'
      /\ SmallBatches'
      /\ jobs'[t].pc = pc
      /\ \A u \in Threads : jobs'[u].before \in {jobs[u].before, {}}
      /\ \A u \in Threads : u # t => jobs'[u] = jobs[u]
      /\ \A u \in Threads : jobs'[u].pc = "select" => u # t
  BY <1>1, <1>2, <1>3, GoesOnInside
<1>5. NothingLost' /\ D!DeletedStaysDeleted'
  BY <1>1 DEF BufferInv, NothingLost, D!DeletedStaysDeleted
<1>6. Committed'
  BY <1>4 DEF Committed
<1>7. ReadsFind'
  BY <1>1, <1>4 DEF BufferInv, ReadsFind
<1> QED
  BY <1>4, <1>5, <1>6, <1>7 DEF BufferInv

LEMMA CommitStep ==
  ASSUME BufferInv, NEW t \in Threads, D!Commit(t)
  PROVE  BufferInv'
<1>1. /\ jobs[t].pc = "commit" /\ D!GoOn(t, "after") /\ disk' = seen
      /\ UNCHANGED <<buffer, seen, holder, recorded, gone, buried>>
  BY DEF D!Commit, D!CommitAll, D!aux
<1>2. buffer = {} /\ jobs[t].pc \in Inside /\ "after" \in Inside
  BY <1>1 DEF BufferInv, Flushed, Inside
<1>3. /\ buffer' \subseteq recorded /\ disk' \subseteq recorded
      /\ seen' \subseteq recorded /\ gone' \subseteq recorded /\ buried' \subseteq recorded
  BY <1>1 DEF BufferInv, BufferTypes
<1>4. /\ BufferTypes' /\ LockIsHeld' /\ RowsAreNew' /\ Numbered' /\ Flushed'
      /\ SmallBatches'
      /\ \A u \in Threads : jobs'[u].before \in {jobs[u].before, {}}
      /\ \A u \in Threads : u # t => jobs'[u] = jobs[u]
      /\ \A u \in Threads : jobs'[u].pc = "select" => u # t
  BY <1>1, <1>2, <1>3, GoesOnInside
<1>5. NothingLost' /\ D!DeletedStaysDeleted' /\ Committed'
  BY <1>1, <1>2 DEF BufferInv, NothingLost, D!DeletedStaysDeleted, Committed
<1>6. ReadsFind'
  BY <1>1, <1>4 DEF BufferInv, ReadsFind
<1> QED
  BY <1>4, <1>5, <1>6 DEF BufferInv

(* A failure drops the buffer and what was not committed: all of it is gone. *)
LEMMA FlushFailsStep ==
  ASSUME BufferInv, NEW t \in Threads, D!FlushFails(t)
  PROVE  BufferInv'
<1>1. /\ jobs[t].pc \in {"flush", "insert", "commit"} /\ D!GoOn(t, "after")
      /\ gone' = gone \cup buffer \cup (seen \ disk)
      /\ buffer' = {} /\ seen' = disk
      /\ UNCHANGED <<disk, holder, recorded, buried>>
  BY DEF D!FlushFails
<1>2. jobs[t].pc \in Inside /\ "after" \in Inside
  BY <1>1 DEF Inside
<1>3. /\ buffer' \subseteq recorded /\ disk' \subseteq recorded
      /\ seen' \subseteq recorded /\ gone' \subseteq recorded /\ buried' \subseteq recorded
  BY <1>1 DEF BufferInv, BufferTypes
<1>4. /\ BufferTypes' /\ LockIsHeld' /\ RowsAreNew' /\ Numbered' /\ Flushed'
      /\ SmallBatches'
      /\ \A u \in Threads : jobs'[u].before \in {jobs[u].before, {}}
      /\ \A u \in Threads : u # t => jobs'[u] = jobs[u]
      /\ \A u \in Threads : jobs'[u].pc = "select" => u # t
  BY <1>1, <1>2, <1>3, GoesOnInside
<1>5. NothingLost' /\ D!DeletedStaysDeleted' /\ Committed'
  BY <1>1 DEF BufferInv, NothingLost, D!DeletedStaysDeleted, Committed
<1>6. ReadsFind'
  BY <1>1, <1>4 DEF BufferInv, ReadsFind
<1> QED
  BY <1>4, <1>5, <1>6 DEF BufferInv

(* The lock is given back: what was recorded is on disk or in the buffer.  A *)
(* call that goes on to read without the lock will find it.                  *)
LEMMA LeavesInside ==
  ASSUME BufferInv, NEW t \in Threads, jobs[t].pc = "after", holder' = D!Nobody,
         D!GoOn(t, "select") \/ jobs' = [jobs EXCEPT ![t] = D!Idle],
         UNCHANGED <<buffer, recorded>>,
         disk' \subseteq recorded, seen' \subseteq recorded,
         gone' \subseteq recorded, buried' \subseteq recorded,
         gone \subseteq gone', recorded \ gone' \subseteq seen', seen' \subseteq disk',
         buried' \cap disk' = {}
  PROVE  BufferInv'
<1>1. /\ holder = t /\ ~Waiting(t) /\ buffer = {}
      /\ \A u \in Threads : u # t => jobs[u].pc \notin Inside
  BY OneInside DEF BufferInv, Flushed, Inside
<1>2. /\ jobs' \in [Threads -> CallSet]
      /\ \A u \in Threads : u # t => jobs'[u] = jobs[u]
      /\ jobs'[t].before \in {jobs[t].before, {}}
      /\ RowsAreNew' /\ Numbered'
  <2>1. \/ \E pc \in Inside \cup {"select"} : D!GoOn(t, pc)
        \/ jobs' = [jobs EXCEPT ![t] = D!Idle]
    OBVIOUS
  <2> QED
    BY <1>1, <2>1, Moves DEF BufferInv
<1>3. jobs'[t].pc \in {"select", "idle"}
  BY DEF D!GoOn, D!Idle, D!Job, BufferInv, BufferTypes, CallSet
<1>4. BufferTypes'
  BY <1>2 DEF BufferInv, BufferTypes
<1>5. \A u \in Threads : jobs'[u].pc \notin Inside
  BY <1>1, <1>2, <1>3 DEF Inside
<1>6. LockIsHeld' /\ Flushed'
  BY <1>1, <1>5, Constants DEF LockIsHeld, Flushed
<1>7. SmallBatches'
  BY <1>1, NoRows DEF SmallBatches
<1>8. NothingLost' /\ D!DeletedStaysDeleted' /\ Committed'
  BY <1>1 DEF NothingLost, D!DeletedStaysDeleted, Committed
<1>9. ReadsFind'
  <2>1. \A u \in Threads : jobs'[u].before \subseteq recorded
    BY <1>2 DEF BufferInv, ReadsFind
  <2> QED
    BY <2>1 DEF ReadsFind
<1> QED
  BY <1>2, <1>4, <1>6, <1>7, <1>8, <1>9 DEF BufferInv

(* What holds when a flush is over. *)
LEMMA AfterFlush ==
  ASSUME BufferInv, NEW t \in Threads, jobs[t].pc = "after"
  PROVE  buffer = {} /\ recorded \ gone \subseteq seen /\ seen \subseteq disk
<1>1. \A u \in Threads : u # t => jobs[u].pc \notin Inside
  BY OneInside DEF Inside
<1>2. \A u \in Threads : jobs[u].pc \notin {"insert", "commit"}
  BY <1>1 DEF Inside
<1> QED
  BY <1>2 DEF BufferInv, Flushed, NothingLost, Committed

LEMMA EndStep ==
  ASSUME BufferInv, NEW t \in Threads,
         D!Recorded(t) \/ D!ReadPoints(t) \/ D!EndFlush(t)
  PROVE  BufferInv'
<1>1. /\ jobs[t].pc = "after" /\ holder' = D!Nobody
      /\ D!GoOn(t, "select") \/ jobs' = [jobs EXCEPT ![t] = D!Idle]
      /\ UNCHANGED <<buffer, disk, seen, recorded, gone, buried>>
  BY DEF D!Recorded, D!ReadPoints, D!EndFlush, D!Finish, D!aux
<1>2. buffer = {} /\ recorded \ gone \subseteq seen /\ seen \subseteq disk
  BY <1>1, AfterFlush
<1>3. buried' \cap disk' = {}
  BY <1>1 DEF BufferInv, D!DeletedStaysDeleted
<1> QED
  BY <1>1, <1>2, <1>3, LeavesInside DEF BufferInv, BufferTypes

(* A session is deleted, in part or as a whole, or not at all. *)
LEMMA DeleteStep ==
  ASSUME BufferInv, NEW t \in Threads, D!DeleteSession(t)
  PROVE  BufferInv'
<1>1. /\ jobs[t].pc = "after" /\ holder' = D!Nobody
      /\ jobs' = [jobs EXCEPT ![t] = D!Idle]
      /\ UNCHANGED <<buffer, recorded>>
  BY DEF D!DeleteSession, D!Finish
<1>2. buffer = {} /\ recorded \ gone \subseteq seen /\ seen \subseteq disk
  BY <1>1, AfterFlush
<1>3. /\ seen \subseteq recorded /\ disk \subseteq recorded /\ gone \subseteq recorded
      /\ buried \subseteq recorded /\ buried \cap disk = {}
  BY DEF BufferInv, BufferTypes, D!DeletedStaysDeleted
<1>4. CASE UNCHANGED <<seen, disk, gone, buried>>
  BY <1>1, <1>2, <1>3, <1>4, LeavesInside
<1>5. CASE /\ seen' = seen \ D!Of("point", seen)
           /\ gone' = gone \cup D!Of("point", recorded)
           /\ \/ disk' = seen' /\ buried' = buried \cup D!Of("point", recorded)
              \/ UNCHANGED <<disk, buried>>
  <2>1. /\ seen' \subseteq seen /\ gone \subseteq gone' /\ gone' \subseteq recorded
        /\ buried' \subseteq recorded
        /\ disk' \subseteq recorded
    BY <1>3, <1>5 DEF D!Of
  <2>2. recorded \ gone' \subseteq seen'
    BY <1>2, <1>3, <1>5 DEF D!Of
  <2>3. seen' \subseteq disk'
    BY <1>2, <1>5
  <2>4. buried' \cap disk' = {}
    <3>1. CASE disk' = seen' /\ buried' = buried \cup D!Of("point", recorded)
      BY <1>2, <1>3, <1>5, <3>1 DEF D!Of
    <3> QED
      BY <1>3, <1>5, <3>1
  <2> QED
    BY <1>1, <1>3, <2>1, <2>2, <2>3, <2>4, LeavesInside
<1> QED
  BY <1>4, <1>5 DEF D!DeleteSession

(* A read without the lock. *)
LEMMA SelectStep ==
  ASSUME BufferInv, NEW t \in Threads, D!Select(t)
  PROVE  BufferInv'
<1>1. /\ jobs[t].pc = "select" /\ ~Waiting(t)
      /\ jobs' = [jobs EXCEPT ![t] = D!Idle]
      /\ UNCHANGED <<buffer, disk, seen, holder, recorded, gone, buried>>
  BY DEF D!Select, Waiting, D!aux
<1>2. /\ jobs' \in [Threads -> CallSet]
      /\ \A u \in Threads : u # t => jobs'[u] = jobs[u]
      /\ jobs'[t].before \in {jobs[t].before, {}}
      /\ RowsAreNew' /\ Numbered'
  BY <1>1, Moves DEF BufferInv
<1>3. jobs'[t].pc = "idle"
  BY <1>1 DEF D!Idle, D!Job, BufferInv, BufferTypes
<1>4. BufferTypes'
  BY <1>1, <1>2 DEF BufferInv, BufferTypes
<1>5. LockIsHeld'
  BY <1>1, <1>2, <1>3 DEF BufferInv, LockIsHeld, Inside
<1>6. Flushed'
  BY <1>1, <1>2, <1>3 DEF BufferInv, Flushed
<1>7. SmallBatches' /\ NothingLost' /\ D!DeletedStaysDeleted'
  BY <1>1 DEF BufferInv, SmallBatches, NothingLost, D!DeletedStaysDeleted, D!Of
<1>8. Committed'
  <2>1. \A u \in Threads : jobs'[u].pc \notin {"insert", "commit"} =>
            jobs[u].pc \notin {"insert", "commit"}
    BY <1>1, <1>2
  <2> QED
    BY <1>1, <2>1 DEF BufferInv, Committed
<1>9. ReadsFind'
  BY <1>1, <1>2, <1>3 DEF BufferInv, ReadsFind
<1> QED
  BY <1>2, <1>4, <1>5, <1>6, <1>7, <1>8, <1>9 DEF BufferInv

-----------------------------------------------------------------------------
LEMMA BufferStays ==
  ASSUME BufferInv, UNCHANGED dVars
  PROVE  BufferInv'
<1>1. UNCHANGED <<buffer, disk, seen, holder, jobs, recorded, gone, buried>>
  BY DEF dVars
<1>2. D!Known' = D!Known
  BY <1>1 DEF D!Known
<1>3. BufferTypes' /\ LockIsHeld' /\ Flushed' /\ NothingLost' /\ Committed' /\ ReadsFind'
  BY <1>1 DEF BufferInv, BufferTypes, LockIsHeld, Flushed, NothingLost, Committed, ReadsFind
<1>4. RowsAreNew'
  BY <1>1 DEF BufferInv, RowsAreNew, Waiting
<1>5. Numbered'
  <2>1. \A r \in D!Known' : r.n \in 1 .. Cardinality(D!Of(r.kind, D!Known'))
    BY <1>2, Zenon DEF BufferInv, Numbered
  <2> QED
    BY <1>1, <2>1, Zenon DEF BufferInv, Numbered, D!Of
<1>6. SmallBatches' /\ D!DeletedStaysDeleted'
  BY <1>1 DEF BufferInv, SmallBatches, D!DeletedStaysDeleted, D!Of
<1> QED
  BY <1>3, <1>4, <1>5, <1>6 DEF BufferInv

LEMMA BufferStep == BufferInv /\ [Next]_vars => BufferInv'
<1> SUFFICES ASSUME BufferInv, [Next]_vars
             PROVE  BufferInv'
  OBVIOUS
<1>1. CASE UNCHANGED dVars
  BY <1>1, BufferStays
<1>2. CASE D!Next
  <2>1. PICK t \in Threads :
           \/ \E op \in D!Ops : D!Submit(t, op)
           \/ D!Record(t) \/ D!Acquire(t)
           \/ D!InsertSamples(t) \/ D!InsertPoints(t) \/ D!Commit(t) \/ D!FlushFails(t)
           \/ D!Recorded(t) \/ D!ReadPoints(t) \/ D!EndFlush(t) \/ D!Select(t)
           \/ D!DeleteSession(t)
    BY <1>2 DEF D!Next
  <2> QED
    BY <2>1, SubmitStep, RecordStep, AcquireStep, InsertsStep, CommitStep,
       FlushFailsStep, EndStep, SelectStep, DeleteStep
<1> QED
  BY <1>1, <1>2 DEF Next, Settings, History, Protocols, Charge, vars

LEMMA BufferAlways == Spec => []BufferInv
<1>1. Init => BufferInv
  BY BufferInit
<1> QED
  BY <1>1, BufferStep, PTL DEF Spec

(* A crash costs less than a batch: whenever no thread is in a method, every
   row is on disk or one of a part batch, unless a failed write or a deletion
   has cost it; and what was deleted does not come back (_flush_pending). *)
THEOREM HistoryIsKept == Spec => []HistoryKept
<1>1. BufferInv => HistoryKept
  <2> SUFFICES ASSUME BufferInv PROVE HistoryKept
    OBVIOUS
  <2>1. ASSUME holder = D!Nobody
        PROVE  /\ \A kind \in D!Kinds : D!Cardinality(D!Of(kind, buffer)) < BatchSize
               /\ recorded \ gone \subseteq disk \cup buffer
    <3>1. \A t \in Threads : jobs[t].pc \notin Inside
      BY <2>1, Constants DEF BufferInv, LockIsHeld
    <3>2. seen \subseteq disk
      BY <3>1 DEF BufferInv, Committed, Inside
    <3> QED
      BY <2>1, <3>2, BufferSets DEF BufferInv, SmallBatches, NothingLost
  <2> QED
    BY <2>1 DEF HistoryKept, D!OnlyABatchAtRisk, BufferInv
<1> QED
  BY <1>1, BufferAlways, PTL

(* A read finds what was recorded before it was called, even when it reads
   without the lock, and under the lock it sees nothing that is not on disk. *)
THEOREM ReadsFindWhatWasRecorded == Spec => ReadsAreTrue
<1>1. ASSUME BufferInv, [Next]_vars
      PROVE  [\A t \in Threads :
                 D!ReadPoints(t) \/ D!Select(t) => jobs[t].before \ gone \subseteq seen]_(D!vars)
  <2>1. ASSUME NEW t \in Threads, D!ReadPoints(t)
        PROVE  jobs[t].before \ gone \subseteq seen
    BY <1>1, <2>1, AfterFlush DEF D!ReadPoints, BufferInv, ReadsFind
  <2>2. ASSUME NEW t \in Threads, D!Select(t)
        PROVE  jobs[t].before \ gone \subseteq seen
    BY <1>1, <2>2 DEF D!Select, BufferInv, ReadsFind
  <2> QED
    BY <2>1, <2>2
<1>2. ASSUME BufferInv, [Next]_vars
      PROVE  [\A t \in Threads : D!ReadPoints(t) => seen \subseteq disk]_(D!vars)
  BY <1>2, AfterFlush DEF D!ReadPoints
<1> QED
  BY <1>1, <1>2, BufferAlways, PTL
     DEF Spec, ReadsAreTrue, D!ReadsSeeRecorded, D!LockedReadsAreDurable

-----------------------------------------------------------------------------
(* ProtocolSwitches. *)

CommandSet == [by : Clients \cup {P!NoOne}, val : SUBSET P!Bits, flips : SUBSET Switches]

SwitchTypes ==
    /\ charger \in SUBSET P!Bits /\ copy \in SUBSET P!Bits
    /\ commands \in Seq(CommandSet) /\ Len(commands) <= MaxCommands
    /\ resuming \subseteq [by : Clients, val : SUBSET P!Bits]
    /\ resuming = {} \/ \E r : resuming = {r}

(* Only a command that was queued alone is held to what it was to flip. *)
FirstFlips == \A i \in DOMAIN commands : commands[i].flips # {} => i = 1

(* The request that is told of its command's success sets what was sent. *)
ResumedIsSent == \A r \in resuming : ~astray => r.val = charger

SwitchInv ==
    /\ SwitchTypes /\ FirstFlips /\ ResumedIsSent
    /\ P!OnlyItsSwitch /\ P!CopyIsTrue

LEMMA SwitchSets ==
  /\ \A x : P!IsFiniteSet(x) <=> IsFiniteSet(x)
  /\ \A x : P!Cardinality(x) = Cardinality(x)
<1>1. \A x : P!IsFiniteSet(x) <=> IsFiniteSet(x)
  BY DEF P!IsFiniteSet, IsFiniteSet
<1>2. \A x : P!Cardinality(x) = Cardinality(x)
  BY DEF P!Cardinality, Cardinality
<1> QED
  BY <1>1, <1>2

LEMMA SwitchConstants ==
  /\ Other \notin Switches /\ P!NoOne \notin Clients
  /\ Writes \subseteq SUBSET P!Bits /\ MaxCommands \in Nat
  BY StoresAssumption DEF P!SwitchesConstants

LEMMA SwitchInit == Init => SwitchInv
<1> SUFFICES ASSUME P!Init PROVE SwitchInv
  BY DEF Init
<1>1. SwitchTypes
  BY SwitchConstants DEF P!Init, SwitchTypes
<1> QED
  BY <1>1 DEF P!Init, SwitchInv, FirstFlips, ResumedIsSent, P!OnlyItsSwitch, P!CopyIsTrue

(* A command is queued; alone, it flips one switch of what the charger has. *)
LEMMA SendStep ==
  ASSUME SwitchInv, NEW c \in Clients, NEW v \in SUBSET P!Bits, NEW f \in SUBSET Switches,
         P!Send(P!Command(c, v, f)),
         f # {} => commands = <<>>,
         \A s \in f : v \cap Switches = P!Flip(charger, s) \cap Switches
  PROVE  SwitchInv'
<1> DEFINE m == P!Command(c, v, f)
<1>1. m \in CommandSet /\ m.val = v /\ m.flips = f
  BY DEF P!Command, CommandSet
<1>2. /\ Len(commands) < MaxCommands /\ commands' = Append(commands, m)
      /\ UNCHANGED <<charger, copy, resuming, astray>>
  BY DEF P!Send, P!Free
<1> HIDE DEF m
<1>3. commands \in Seq(CommandSet) /\ Len(commands) \in Nat /\ DOMAIN commands = 1 .. Len(commands)
  BY DEF SwitchInv, SwitchTypes
<1>4. /\ commands' \in Seq(CommandSet) /\ Len(commands') = Len(commands) + 1
      /\ \A i \in 1 .. Len(commands) : commands'[i] = commands[i]
      /\ commands'[Len(commands) + 1] = m
  BY <1>1, <1>2, <1>3, AppendProperties
<1>5. \A i \in DOMAIN commands' : \/ i \in DOMAIN commands /\ commands'[i] = commands[i]
                                  \/ i = Len(commands) + 1 /\ commands'[i] = m
  <2>1. DOMAIN commands' = 1 .. Len(commands) + 1
    BY <1>4
  <2>2. \A i \in 1 .. Len(commands) + 1 : i \in 1 .. Len(commands) \/ i = Len(commands) + 1
    BY <1>3
  <2> QED
    BY <1>3, <1>4, <2>1, <2>2, Zenon
<1>6. SwitchTypes'
  <2>1. Len(commands') <= MaxCommands
    BY <1>2, <1>3, <1>4, SwitchConstants
  <2> QED
    BY <1>2, <1>4, <2>1, Zenon DEF SwitchInv, SwitchTypes
<1>7. FirstFlips'
  <2>1. commands = <<>> => Len(commands) + 1 = 1
    OBVIOUS
  <2> QED
    BY <1>1, <1>5, <2>1 DEF SwitchInv, FirstFlips
<1>8. P!OnlyItsSwitch'
  BY <1>1, <1>2, <1>5 DEF SwitchInv, P!OnlyItsSwitch
<1>9. ResumedIsSent' /\ P!CopyIsTrue'
  BY <1>2 DEF SwitchInv, ResumedIsSent, P!CopyIsTrue
<1> QED
  BY <1>6, <1>7, <1>8, <1>9 DEF SwitchInv

LEMMA ToggleStep ==
  ASSUME SwitchInv, NEW c \in Clients, NEW s \in Switches, P!Toggle(c, s)
  PROVE  SwitchInv'
<1> DEFINE v == P!Encode(copy, s)
           f == IF astray \/ commands # <<>> THEN {} ELSE {s}
<1>1. v \in SUBSET P!Bits
  BY DEF SwitchInv, SwitchTypes, P!Encode, P!Flip, P!Bits
<1>2. f \in SUBSET Switches /\ (f # {} => commands = <<>> /\ ~astray) /\ \A x \in f : x = s
  OBVIOUS
<1>3. P!Send(P!Command(c, v, f))
  BY DEF P!Toggle
<1>4. f # {} => v \cap Switches = P!Flip(charger, s) \cap Switches
  <2>1. f # {} => copy = charger
    BY <1>2 DEF SwitchInv, P!CopyIsTrue
  <2>2. v \cap Switches = P!Flip(copy, s) \cap Switches
    BY SwitchConstants DEF P!Encode
  <2> QED
    BY <2>1, <2>2
<1> HIDE DEF v, f
<1> QED
  BY <1>1, <1>2, <1>3, <1>4, SendStep

(* The first command goes, done or not; none of the others has to flip. *)
LEMMA QueueMoves ==
  ASSUME SwitchInv, commands # <<>>, commands' = Tail(commands)
  PROVE  /\ commands' \in Seq(CommandSet) /\ Len(commands') <= MaxCommands
         /\ \A i \in DOMAIN commands' : commands'[i].flips = {}
         /\ Head(commands) \in CommandSet
<1>1. commands \in Seq(CommandSet) /\ Len(commands) \in Nat
  BY DEF SwitchInv, SwitchTypes
<1>2. /\ commands' \in Seq(CommandSet) /\ Head(commands) \in CommandSet
      /\ Len(commands') = Len(commands) - 1
      /\ \A i \in 1 .. Len(commands') : commands'[i] = commands[i + 1]
  BY <1>1, HeadTailProperties
<1>3. ASSUME NEW i \in DOMAIN commands'
      PROVE  commands'[i].flips = {}
  <2>1. i \in 1 .. Len(commands') /\ i + 1 \in DOMAIN commands /\ i + 1 # 1
    BY <1>1, <1>2
  <2> QED
    BY <1>2, <2>1 DEF SwitchInv, FirstFlips
<1> QED
  BY <1>1, <1>2, <1>3, SwitchConstants DEF SwitchInv, SwitchTypes

LEMMA ExecuteStep ==
  ASSUME SwitchInv, P!Execute
  PROVE  SwitchInv'
<1> DEFINE m == Head(commands)
<1>1. /\ commands # <<>> /\ commands' = Tail(commands)
      /\ charger' = m.val /\ copy' = m.val /\ astray' = FALSE
      /\ resuming' = IF m.by = P!NoOne THEN {} ELSE {[by |-> m.by, val |-> m.val]}
  BY DEF P!Execute, P!Synced
<1>2. /\ commands' \in Seq(CommandSet) /\ Len(commands') <= MaxCommands
      /\ \A i \in DOMAIN commands' : commands'[i].flips = {}
      /\ m \in CommandSet
  BY <1>1, QueueMoves
<1> HIDE DEF m
<1>3. SwitchTypes'
  <2>1. m.val \in SUBSET P!Bits /\ m.by \in Clients \cup {P!NoOne}
    BY <1>2 DEF CommandSet
  <2>2. resuming' \subseteq [by : Clients, val : SUBSET P!Bits]
    BY <1>1, <2>1
  <2>3. resuming' = {} \/ \E r : resuming' = {r}
    BY <1>1
  <2> QED
    BY <1>1, <1>2, <2>1, <2>2, <2>3 DEF SwitchTypes
<1>4. FirstFlips' /\ P!OnlyItsSwitch'
  BY <1>2 DEF FirstFlips, P!OnlyItsSwitch
<1>5. ResumedIsSent' /\ P!CopyIsTrue'
  BY <1>1 DEF ResumedIsSent, P!CopyIsTrue
<1> QED
  BY <1>3, <1>4, <1>5 DEF SwitchInv

LEMMA FailStep ==
  ASSUME SwitchInv, P!Fail
  PROVE  SwitchInv'
<1>1. /\ commands # <<>> /\ commands' = Tail(commands) /\ resuming = {} /\ resuming' = {}
      /\ charger' \in {charger, Head(commands).val} /\ UNCHANGED copy
      /\ ~astray' => ~astray /\ charger' = charger
  BY DEF P!Fail
<1>2. /\ commands' \in Seq(CommandSet) /\ Len(commands') <= MaxCommands
      /\ \A i \in DOMAIN commands' : commands'[i].flips = {}
      /\ Head(commands) \in CommandSet
  BY <1>1, QueueMoves
<1>3. SwitchTypes'
  BY <1>1, <1>2 DEF SwitchInv, SwitchTypes, CommandSet
<1>4. FirstFlips' /\ P!OnlyItsSwitch'
  BY <1>2 DEF FirstFlips, P!OnlyItsSwitch
<1>5. ResumedIsSent' /\ P!CopyIsTrue'
  BY <1>1 DEF SwitchInv, ResumedIsSent, P!CopyIsTrue
<1> QED
  BY <1>3, <1>4, <1>5 DEF SwitchInv

(* A request ends before its command; the answer to another is handled. *)
LEMMA RequestStep ==
  ASSUME SwitchInv,
         (\E i \in DOMAIN commands : P!TimeOut(i)) \/ (\E r \in resuming : P!Resume(r))
  PROVE  SwitchInv'
<1>1. CASE \E i \in DOMAIN commands : P!TimeOut(i)
  <2>1. PICK i \in DOMAIN commands : commands' = [commands EXCEPT ![i].by = P!NoOne]
    BY <1>1 DEF P!TimeOut
  <2>2. UNCHANGED <<charger, copy, resuming, astray>>
    BY <1>1 DEF P!TimeOut
  <2>3. commands \in Seq(CommandSet) /\ commands[i] \in CommandSet
    BY DEF SwitchInv, SwitchTypes
  <2> DEFINE m == [commands[i] EXCEPT !.by = P!NoOne]
  <2>4. m \in CommandSet /\ m.val = commands[i].val /\ m.flips = commands[i].flips
    BY <2>3 DEF CommandSet
  <2>5. commands' = [commands EXCEPT ![i] = m]
    BY <2>1
  <2> HIDE DEF m
  <2>6. /\ commands' \in Seq(CommandSet) /\ Len(commands') = Len(commands)
        /\ DOMAIN commands' = DOMAIN commands
        /\ \A k \in DOMAIN commands : /\ commands'[k].val = commands[k].val
                                      /\ commands'[k].flips = commands[k].flips
    BY <2>3, <2>4, <2>5
  <2>7. SwitchTypes'
    BY <2>2, <2>6 DEF SwitchInv, SwitchTypes
  <2>8. FirstFlips' /\ P!OnlyItsSwitch'
    BY <2>2, <2>6 DEF SwitchInv, FirstFlips, P!OnlyItsSwitch
  <2>9. ResumedIsSent' /\ P!CopyIsTrue'
    BY <2>2 DEF SwitchInv, ResumedIsSent, P!CopyIsTrue
  <2> QED
    BY <2>7, <2>8, <2>9 DEF SwitchInv
<1>2. CASE \E r \in resuming : P!Resume(r)
  <2>1. PICK r \in resuming : /\ resuming' = resuming \ {r} /\ copy' = r.val
                              /\ UNCHANGED <<charger, commands, astray>>
    BY <1>2 DEF P!Resume
  <2>2. SwitchTypes'
    BY <2>1 DEF SwitchInv, SwitchTypes
  <2>3. FirstFlips' /\ P!OnlyItsSwitch'
    BY <2>1 DEF SwitchInv, FirstFlips, P!OnlyItsSwitch
  <2>4. ResumedIsSent' /\ P!CopyIsTrue'
    BY <2>1 DEF SwitchInv, ResumedIsSent, P!CopyIsTrue
  <2> QED
    BY <2>2, <2>3, <2>4 DEF SwitchInv
<1> QED
  BY <1>1, <1>2

(* The value is read again, or changed by somebody else. *)
LEMMA ReadOrChangedStep ==
  ASSUME SwitchInv, P!Refresh \/ (\E v \in Writes : P!Outside(v))
  PROVE  SwitchInv'
<1>1. CASE P!Refresh
  <2>1. resuming = {} /\ copy' = charger /\ UNCHANGED <<charger, commands, resuming>>
    BY <1>1 DEF P!Refresh
  <2>2. SwitchTypes' /\ FirstFlips' /\ P!OnlyItsSwitch'
    BY <2>1 DEF SwitchInv, SwitchTypes, FirstFlips, P!OnlyItsSwitch
  <2>3. ResumedIsSent' /\ P!CopyIsTrue'
    BY <2>1 DEF ResumedIsSent, P!CopyIsTrue
  <2> QED
    BY <2>2, <2>3 DEF SwitchInv
<1>2. CASE \E v \in Writes : P!Outside(v)
  <2>1. PICK v \in Writes :
           /\ charger' = v /\ astray' = TRUE /\ UNCHANGED <<copy, resuming>>
           /\ commands' = [i \in DOMAIN commands |-> [commands[i] EXCEPT !.flips = {}]]
    BY <1>2 DEF P!Outside
  <2>2. \A i \in DOMAIN commands : commands[i] \in CommandSet
    BY ElementOfSeq DEF SwitchInv, SwitchTypes
  <2>3. \A i \in DOMAIN commands : /\ [commands[i] EXCEPT !.flips = {}] \in CommandSet
                                   /\ [commands[i] EXCEPT !.flips = {}].flips = {}
    BY <2>2 DEF CommandSet
  <2>4. /\ DOMAIN commands' = DOMAIN commands
        /\ \A i \in DOMAIN commands : commands'[i].flips = {}
        /\ commands' \in [1 .. Len(commands) -> CommandSet] /\ Len(commands) \in Nat
    <3>1. DOMAIN commands = 1 .. Len(commands) /\ Len(commands) \in Nat
      BY DEF SwitchInv, SwitchTypes
    <3> QED
      BY <2>1, <2>3, <3>1
  <2>5. commands' \in Seq(CommandSet) /\ Len(commands') = Len(commands)
    BY <2>4, SeqDef
  <2>6. SwitchTypes'
    BY <2>1, <2>5, SwitchConstants DEF SwitchInv, SwitchTypes
  <2>7. FirstFlips' /\ P!OnlyItsSwitch'
    BY <2>4 DEF FirstFlips, P!OnlyItsSwitch
  <2>8. ResumedIsSent' /\ P!CopyIsTrue'
    BY <2>1 DEF ResumedIsSent, P!CopyIsTrue
  <2> QED
    BY <2>6, <2>7, <2>8 DEF SwitchInv
<1> QED
  BY <1>1, <1>2

LEMMA SwitchStep == SwitchInv /\ [Next]_vars => SwitchInv'
<1> SUFFICES ASSUME SwitchInv, [Next]_vars
             PROVE  SwitchInv'
  OBVIOUS
<1>1. CASE UNCHANGED pVars
  <2>1. UNCHANGED <<charger, copy, commands, resuming, astray>>
    BY <1>1 DEF pVars
  <2>2. SwitchTypes' /\ FirstFlips' /\ ResumedIsSent'
    BY <2>1 DEF SwitchInv, SwitchTypes, FirstFlips, ResumedIsSent
  <2>3. P!OnlyItsSwitch' /\ P!CopyIsTrue'
    BY <2>1 DEF SwitchInv, P!OnlyItsSwitch, P!CopyIsTrue
  <2> QED
    BY <2>2, <2>3 DEF SwitchInv
<1>2. CASE P!Next
  <2>1. ASSUME NEW c \in Clients, NEW v \in Writes, P!Write(c, v)
        PROVE  SwitchInv'
    <3>1. v \in SUBSET P!Bits /\ P!Send(P!Command(c, v, {}))
      BY <2>1, SwitchConstants DEF P!Write
    <3> QED
      BY <3>1, SendStep
  <2>2. ASSUME NEW c \in Clients, NEW s \in Switches, P!Toggle(c, s)
        PROVE  SwitchInv'
    BY <2>2, ToggleStep
  <2> QED
    BY <1>2, <2>1, <2>2, RequestStep, ExecuteStep, FailStep, ReadOrChangedStep DEF P!Next
<1> QED
  BY <1>1, <1>2 DEF Next, Settings, History, Protocols, Charge, vars

LEMMA SwitchAlways == Spec => []SwitchInv
<1>1. Init => SwitchInv
  BY SwitchInit
<1> QED
  BY <1>1, SwitchStep, PTL DEF Spec

(* A toggle flips its switch and no other, and the copy the next one starts
   from is what the charger was told, even by a command that outlived its
   request: whatever the order of the command, its answer and a refresh. *)
THEOREM SwitchesAreTrue == Spec => []SwitchesTrue
<1>1. SwitchInv => SwitchesTrue
  BY DEF SwitchInv, SwitchesTrue
<1> QED
  BY <1>1, SwitchAlways, PTL

-----------------------------------------------------------------------------
(* SettingsStore. *)

Settled == [Ports -> S!Modes]
ModeSteps == {"modes", "full_off", "modes_written", "stale", "stale_written"}
RequestSet ==
    [step : ModeSteps \cup {"limits", "limits_written", "idle"},
     limit : Settled, fullOff : Settled, permanent : SUBSET Ports]
TableSet == [limit : Settled, fullOff : Settled, permanent : SUBSET Ports]
Keys == {"limit", "fullOff", "permanent"}

StoreTypes ==
    /\ limit \in Settled /\ fullOff \in Settled /\ permanent \in SUBSET Ports
    /\ table \in TableSet
    /\ unsaved \in SUBSET Keys /\ faults \in 0..MaxFaults
    /\ writes \in Seq([op : {"limit", "fullOff"}, set : Settled])
    /\ req \in [Requests -> RequestSet]
    /\ \A r \in Requests : req[r].step = "idle" => req[r] = S!Idle

FullOffIsExclusive == \A p \in permanent : fullOff[p] = "none"

(* A request for a port's mode gives no permanent port a full_off. *)
GivesNoFullOff(x) ==
    x.step \in ModeSteps => \A p \in x.permanent : x.fullOff[p] = "none"
ModesExclude == \A r \in Requests : GivesNoFullOff(req[r])

(* As long as no two writers met: the limits, those set and those to be set,
   keep off the permanent ports. *)
GivesNoLimit(x, ports) ==
    /\ x.step \in {"limits", "limits_written"} => \A p \in ports : x.limit[p] = "none"
    /\ x.step \in {"stale", "stale_written"} =>
          \A p \in x.permanent : x.limit[p] = "none"
LimitsExclude ==
    ~mixed =>
       /\ \A p \in permanent : limit[p] = "none"
       /\ \A r \in Requests : GivesNoLimit(req[r], permanent)

(* Then there is one writer at most, ... *)
OneWriter ==
    ~mixed =>
       /\ \A r, q \in Requests : req[r] # S!Idle /\ req[q] # S!Idle => r = q
       /\ Len(writes) <= 1
       /\ writes # <<>> => \A r \in Requests : req[r] = S!Idle

(* ... and what the table holds is what the manager does, but for what the
   writer has written and not yet set, or set and not yet written, and for what
   a failure has kept from the one or the other. *)
Holds(t, u, l, f, p) ==
    /\ "limit" \notin u => t.limit = l
    /\ "fullOff" \notin u => t.fullOff = f
    /\ "permanent" \notin u => t.permanent = p
IsAhead(t, u, x, l, f, p) ==
    /\ x.step \in {"limits", "modes"} => Holds(t, u, l, f, p)
    /\ x.step = "limits_written" => Holds(t, u, x.limit, f, p)
    /\ x.step = "full_off" => Holds(t, u, l, f, x.permanent)
    /\ x.step \in {"modes_written", "stale"} => Holds(t, u, l, x.fullOff, x.permanent)
    /\ x.step = "stale_written" => Holds(t, u, x.limit, x.fullOff, x.permanent)
TableFollows ==
    ~mixed =>
       /\ S!Quiet => Holds(table, unsaved, limit, fullOff, permanent)
       /\ \A i \in DOMAIN writes :
             \/ writes[i].op = "limit" /\ Holds(table, unsaved, table.limit, fullOff, permanent)
                  /\ writes[i].set = limit
             \/ writes[i].op = "fullOff" /\ Holds(table, unsaved, limit, table.fullOff, permanent)
                  /\ writes[i].set = fullOff
       /\ \A r \in Requests : IsAhead(table, unsaved, req[r], limit, fullOff, permanent)

StoreInv ==
    /\ StoreTypes /\ FullOffIsExclusive /\ ModesExclude /\ LimitsExclude
    /\ OneWriter /\ TableFollows

WriteSet == [op : {"limit", "fullOff"}, set : Settled]

LEMMA StoreInit == Init => StoreInv
<1> SUFFICES ASSUME S!Init PROVE StoreInv
  BY DEF Init
<1>1. StoreTypes
  <2>1. S!NoSetting \in Settled
    BY Zenon DEF S!NoSetting, Settled, S!Modes
  <2>2. S!Idle \in RequestSet
    BY <2>1, Zenon DEF S!Idle, RequestSet
  <2>3. table \in TableSet
    BY DEF S!Init, S!Manager, Settled, TableSet
  <2>4. unsaved \in SUBSET Keys /\ faults \in 0..MaxFaults
    BY StoresAssumption DEF S!Init, S!StoreConstants
  <2> QED
    BY <2>2, <2>3, <2>4 DEF S!Init, StoreTypes, Settled
<1>2. \A r \in Requests : req[r] = S!Idle /\ req[r].step = "idle"
  BY DEF S!Init, S!Idle
<1>3. Holds(table, unsaved, limit, fullOff, permanent)
  BY DEF S!Init, S!Manager, Holds
<1>4. FullOffIsExclusive /\ ModesExclude
  BY <1>2 DEF S!Init, FullOffIsExclusive, ModesExclude, GivesNoFullOff, ModeSteps
<1>5. LimitsExclude /\ OneWriter
  BY <1>2 DEF S!Init, LimitsExclude, GivesNoLimit, OneWriter
<1>6. TableFollows
  BY <1>2, <1>3 DEF S!Init, TableFollows, IsAhead
<1> QED
  BY <1>1, <1>4, <1>5, <1>6 DEF StoreInv

(* A writer that begins where nothing else is under way is the only one. *)
LEMMA AloneOrMixed ==
  ASSUME mixed' = (mixed \/ ~S!Quiet), ~mixed'
  PROVE  /\ ~mixed
         /\ writes = <<>>
         /\ \A r \in Requests : req[r] = S!Idle
  BY Zenon DEF S!Quiet

(* A write that succeeds or fails: it touches its key and no other, and the
   table holds what was to be written, or the key counts as unsaved. *)
LEMMA WrittenOrNot ==
  ASSUME StoreTypes, NEW key \in Keys, NEW value,
         key \in {"limit", "fullOff"} => value \in Settled,
         key = "permanent" => value \in SUBSET Ports,
         S!SetMeta(key, value)
  PROVE  /\ table' \in TableSet
         /\ unsaved' \in SUBSET Keys /\ faults' \in 0..MaxFaults
         /\ \A other \in Keys \ {key} :
               other \notin unsaved' => other \notin unsaved
         /\ key # "limit" => table'.limit = table.limit
         /\ key # "fullOff" => table'.fullOff = table.fullOff
         /\ key # "permanent" => table'.permanent = table.permanent
         /\ key = "limit" /\ key \notin unsaved' => table'.limit = value
         /\ key = "fullOff" /\ key \notin unsaved' => table'.fullOff = value
         /\ key = "permanent" /\ key \notin unsaved' => table'.permanent = value
<1>1. /\ table \in TableSet /\ unsaved \in SUBSET Keys
      /\ faults \in 0..MaxFaults /\ MaxFaults \in Nat
  BY StoresAssumption DEF StoreTypes, S!StoreConstants
<1>2. CASE /\ table' = [table EXCEPT ![key] = value]
           /\ unsaved' = unsaved \ {key} /\ faults' = faults
  <2>1. unsaved' \in SUBSET Keys /\ faults' \in 0..MaxFaults
    BY <1>1, <1>2
  <2>2. CASE key = "limit"
    BY <1>1, <1>2, <2>1, <2>2 DEF TableSet, Keys
  <2>3. CASE key = "fullOff"
    BY <1>1, <1>2, <2>1, <2>3 DEF TableSet, Keys
  <2>4. CASE key = "permanent"
    BY <1>1, <1>2, <2>1, <2>4 DEF TableSet, Keys
  <2> QED
    BY <2>2, <2>3, <2>4 DEF Keys
<1>3. CASE /\ table' = table /\ faults < MaxFaults
           /\ unsaved' = unsaved \cup {key} /\ faults' = faults + 1
  BY <1>1, <1>3 DEF Keys
<1> QED
  BY <1>2, <1>3 DEF S!SetMeta

LEMMA IdleStep == S!Idle.step = "idle"
  BY DEF S!Idle

(* The manager queues the write of a setting it has spent. *)
LEMMA PersistStep ==
  ASSUME StoreInv, NEW op \in {"limit", "fullOff"}, NEW what \in Settled,
         S!Persist(op, what), permanent' = permanent,
         limit' = (IF op = "limit" THEN what ELSE limit),
         fullOff' = (IF op = "fullOff" THEN what ELSE fullOff),
         \A p \in permanent : fullOff'[p] = "none",
         \A p \in permanent : limit[p] = "none" => limit'[p] = "none"
  PROVE  StoreInv'
<1> DEFINE job == [op |-> op, set |-> what]
<1>1. /\ limit' \in Settled /\ fullOff' \in Settled
      /\ table' = table /\ unsaved' = unsaved /\ faults' = faults
      /\ req' = req /\ writes' = Append(writes, job)
  BY DEF StoreInv, StoreTypes, S!Persist, S!store
<1>2. StoreTypes'
  <2>1. writes' \in Seq(WriteSet)
    BY <1>1, AppendProperties DEF StoreInv, StoreTypes, WriteSet
  <2> QED
    BY <1>1, <2>1 DEF StoreInv, StoreTypes, WriteSet
<1>3. FullOffIsExclusive'
  BY DEF FullOffIsExclusive
<1>4. ModesExclude'
  BY <1>1 DEF StoreInv, ModesExclude, GivesNoFullOff
<1>5. ASSUME ~mixed' PROVE LimitsExclude' /\ OneWriter' /\ TableFollows'
  <2>1. /\ ~mixed
        /\ writes = <<>>
        /\ \A r \in Requests : req[r] = S!Idle
    BY <1>5, AloneOrMixed DEF S!Persist
  <2>2. writes' = <<job>> /\ Len(writes') = 1 /\ DOMAIN writes' = {1} /\ writes'[1] = job
    BY <1>1, <2>1
  <2>3. Holds(table, unsaved, limit, fullOff, permanent)
    BY <2>1 DEF StoreInv, TableFollows, IsAhead, S!Quiet
  <2>4. \A r \in Requests : req'[r].step = "idle"
    BY <1>1, <2>1, IdleStep
  <2>5. LimitsExclude'
    BY <2>1, <2>4 DEF StoreInv, LimitsExclude, GivesNoLimit
  <2>6. OneWriter'
    BY <1>1, <2>1, <2>2 DEF OneWriter
  <2>7. ~S!Quiet'
    BY <2>2 DEF S!Quiet
  <2>8. TableFollows'
    BY <1>1, <2>2, <2>3, <2>4, <2>7 DEF TableFollows, IsAhead, Holds
  <2> QED
    BY <2>5, <2>6, <2>8
<1>6. LimitsExclude' /\ OneWriter' /\ TableFollows'
  BY <1>5 DEF LimitsExclude, GivesNoLimit, OneWriter, TableFollows, IsAhead
<1> QED
  BY <1>2, <1>3, <1>4, <1>6 DEF StoreInv

LEMMA SpendStep ==
  ASSUME StoreInv, NEW p \in Ports, S!SpendLimit(p) \/ S!SpendFullOff(p)
  PROVE  StoreInv'
<1>1. CASE S!SpendLimit(p)
  <2>1. limit' = [limit EXCEPT ![p] = "none"] /\ limit' \in Settled
    BY <1>1 DEF S!SpendLimit, StoreInv, StoreTypes, Settled, S!Modes
  <2>2. \A q \in permanent : limit[q] = "none" => limit'[q] = "none"
    BY <2>1 DEF StoreInv, StoreTypes, Settled
  <2>3. S!Persist("limit", limit') /\ fullOff' = fullOff /\ permanent' = permanent
    BY <1>1 DEF S!SpendLimit
  <2>4. \A q \in permanent : fullOff'[q] = "none"
    BY <2>3 DEF StoreInv, FullOffIsExclusive
  <2> QED
    BY <2>1, <2>2, <2>3, <2>4, PersistStep
<1>2. CASE S!SpendFullOff(p)
  <2>1. fullOff' = [fullOff EXCEPT ![p] = "none"] /\ fullOff' \in Settled
    BY <1>2 DEF S!SpendFullOff, StoreInv, StoreTypes, Settled, S!Modes
  <2>2. S!Persist("fullOff", fullOff') /\ limit' = limit /\ permanent' = permanent
    BY <1>2 DEF S!SpendFullOff
  <2>3. \A q \in permanent : fullOff'[q] = "none"
    BY <2>1 DEF StoreInv, StoreTypes, Settled, FullOffIsExclusive
  <2> QED
    BY <2>1, <2>2, <2>3, PersistStep
<1> QED
  BY <1>1, <1>2

(* A thread of the executor writes one of the snapshots. *)
LEMMA WriteRemoved ==
  ASSUME writes \in Seq(WriteSet), NEW i \in DOMAIN writes, writes' = S!RemoveAt(writes, i)
  PROVE  writes' \in Seq(WriteSet) /\ Len(writes') = Len(writes) - 1
<1> DEFINE s == SubSeq(writes, 1, i - 1)
           t == SubSeq(writes, i + 1, Len(writes))
<1>1. i \in 1 .. Len(writes) /\ Len(writes) \in Nat
  OBVIOUS
<1>2. \A k \in 1 .. Len(writes) : writes[k] \in WriteSet
  BY ElementOfSeq
<1>3. s \in Seq(WriteSet) /\ Len(s) = i - 1
  BY <1>1, <1>2, SubSeqProperties
<1>4. t \in Seq(WriteSet) /\ Len(t) = Len(writes) - i
  <2>1. \A k \in i + 1 .. Len(writes) : writes[k] \in WriteSet
    BY <1>1, <1>2
  <2>2. /\ t \in Seq(WriteSet)
        /\ Len(t) = IF i + 1 <= Len(writes) THEN Len(writes) - (i + 1) + 1 ELSE 0
    BY <1>1, <2>1, SubSeqProperties
  <2> QED
    BY <1>1, <2>2
<1>5. writes' = s \o t
  BY DEF S!RemoveAt
<1> HIDE DEF s, t
<1>6. writes' \in Seq(WriteSet) /\ Len(writes') = Len(s) + Len(t)
  BY <1>3, <1>4, <1>5, ConcatProperties
<1> QED
  BY <1>1, <1>3, <1>4, <1>6

LEMMA WriteJobStep ==
  ASSUME StoreInv, NEW i \in DOMAIN writes, S!WriteJob(i)
  PROVE  StoreInv'
<1>1. /\ writes[i].op \in {"limit", "fullOff"} /\ writes[i].set \in Settled
      /\ i \in 1 .. Len(writes)
  <2>1. writes \in Seq(WriteSet)
    BY DEF StoreInv, StoreTypes, WriteSet
  <2>2. writes[i] \in WriteSet
    BY <2>1, ElementOfSeq
  <2>3. i \in 1 .. Len(writes)
    BY <2>1
  <2> QED
    BY <2>2, <2>3 DEF WriteSet
<1>2. /\ S!SetMeta(writes[i].op, writes[i].set)
      /\ UNCHANGED <<limit, fullOff, permanent, req, mixed>>
  BY DEF S!WriteJob, S!settings
<1>3. writes' \in Seq(WriteSet) /\ Len(writes') = Len(writes) - 1
  BY WriteRemoved DEF S!WriteJob, StoreInv, StoreTypes, WriteSet
<1>4. /\ table' \in TableSet
      /\ unsaved' \in SUBSET Keys /\ faults' \in 0..MaxFaults
      /\ writes[i].op = "limit" =>
            (Holds(table, unsaved, table.limit, fullOff, permanent)
               => Holds(table', unsaved', writes[i].set, fullOff, permanent))
      /\ writes[i].op = "fullOff" =>
            (Holds(table, unsaved, limit, table.fullOff, permanent)
               => Holds(table', unsaved', limit, writes[i].set, permanent))
  <2> DEFINE key == writes[i].op
             value == writes[i].set
  <2>1. key \in Keys /\ key # "permanent" /\ value \in Settled
    BY <1>1 DEF Keys
  <2>2. StoreTypes /\ S!SetMeta(key, value)
    BY <1>2 DEF StoreInv
  <2> HIDE DEF key, value
  <2>3. /\ table' \in TableSet
        /\ unsaved' \in SUBSET Keys /\ faults' \in 0..MaxFaults
    BY <2>1, <2>2, WrittenOrNot
  <2>4. key = "limit" =>
            (Holds(table, unsaved, table.limit, fullOff, permanent)
               => Holds(table', unsaved', value, fullOff, permanent))
    BY <2>1, <2>2, WrittenOrNot DEF Holds, Keys
  <2>5. key = "fullOff" =>
            (Holds(table, unsaved, limit, table.fullOff, permanent)
               => Holds(table', unsaved', limit, value, permanent))
    BY <2>1, <2>2, WrittenOrNot DEF Holds, Keys
  <2> QED
    BY <2>3, <2>4, <2>5 DEF key, value
<1>5. StoreTypes'
  BY <1>2, <1>3, <1>4 DEF StoreInv, StoreTypes, WriteSet
<1>6. FullOffIsExclusive' /\ ModesExclude' /\ LimitsExclude'
  BY <1>2 DEF StoreInv, FullOffIsExclusive, ModesExclude, GivesNoFullOff, LimitsExclude, GivesNoLimit
<1>7. ASSUME ~mixed' PROVE OneWriter' /\ TableFollows'
  <2>1. ~mixed
    BY <1>2, <1>7
  <2>2. Len(writes) = 1 /\ i = 1 /\ writes # <<>>
    <3>1. Len(writes) <= 1 /\ Len(writes) \in Nat
      BY <2>1, LenProperties DEF StoreInv, OneWriter, StoreTypes
    <3>2. writes # <<>>
      BY <1>1
    <3>3. \A n \in Nat : n <= 1 => \A k \in 1 .. n : n = 1 /\ k = 1
      OBVIOUS
    <3> QED
      BY <1>1, <3>1, <3>2, <3>3, Zenon
  <2>3. writes' = <<>> /\ Len(writes') = 0
    BY <1>3, <2>2
  <2>4. \A r \in Requests : req[r] = S!Idle
    BY <2>1, <2>2 DEF StoreInv, OneWriter
  <2>5. Holds(table, unsaved, limit, fullOff, permanent)'
    BY <1>1, <1>2, <1>4, <2>1 DEF StoreInv, TableFollows, IsAhead, Holds
  <2>6. \A r \in Requests : req'[r].step = "idle"
    BY <1>2, <2>4, IdleStep
  <2>7. OneWriter'
    BY <1>2, <2>3, <2>4 DEF OneWriter
  <2>8. TableFollows'
    BY <2>3, <2>5, <2>6 DEF TableFollows, IsAhead
  <2> QED
    BY <2>7, <2>8
<1>8. OneWriter' /\ TableFollows'
  BY <1>7 DEF OneWriter, TableFollows, IsAhead
<1> QED
  BY <1>5, <1>6, <1>8 DEF StoreInv

(* A request begins: what it will set keeps off the permanent ports. *)
LEMMA BeginStep ==
  ASSUME StoreInv, NEW r \in Requests, NEW step \in {"limits", "modes"},
         NEW l \in Settled, NEW f \in Settled, NEW s \in SUBSET Ports,
         S!Begin(r, step, l, f, s),
         step = "modes" => \A q \in s : f[q] = "none",
         step = "limits" => \A q \in permanent : limit[q] = "none" => l[q] = "none"
  PROVE  StoreInv'
<1> DEFINE new == [step |-> step, limit |-> l, fullOff |-> f, permanent |-> s]
<1>1. /\ req' = [req EXCEPT ![r] = new]
      /\ UNCHANGED <<limit, fullOff, permanent, table, unsaved, faults, writes>>
  BY DEF S!Begin, S!settings, S!store
<1>2. /\ new \in RequestSet /\ new.step = step /\ new.permanent = s
      /\ new.limit = l /\ new.fullOff = f /\ step # "idle"
  BY DEF RequestSet, ModeSteps
<1> HIDE DEF new
<1>3. /\ req' \in [Requests -> RequestSet]
      /\ \A q \in Requests : req'[q] = IF q = r THEN new ELSE req[q]
  BY <1>1, <1>2 DEF StoreInv, StoreTypes
<1>4. StoreTypes'
  <2>1. \A q \in Requests : req'[q].step = "idle" => req'[q] = S!Idle
    BY <1>2, <1>3 DEF StoreInv, StoreTypes
  <2> QED
    BY <1>1, <1>3, <2>1 DEF StoreInv, StoreTypes
<1>5. FullOffIsExclusive'
  BY <1>1 DEF StoreInv, FullOffIsExclusive
<1>6. ModesExclude'
  BY <1>2, <1>3 DEF StoreInv, ModesExclude, GivesNoFullOff, ModeSteps
<1>7. ASSUME ~mixed' PROVE LimitsExclude' /\ OneWriter' /\ TableFollows'
  <2>1. /\ ~mixed
        /\ writes = <<>>
        /\ \A q \in Requests : req[q] = S!Idle
    BY <1>7, AloneOrMixed DEF S!Begin
  <2>2. Holds(table, unsaved, limit, fullOff, permanent)
    BY <2>1 DEF StoreInv, TableFollows, IsAhead, S!Quiet
  <2>3. \A q \in Requests : q # r => req'[q] = S!Idle /\ req'[q].step = "idle"
    BY <1>3, <2>1, IdleStep
  <2>4. LimitsExclude'
    BY <1>1, <1>2, <1>3, <2>1, <2>3 DEF StoreInv, LimitsExclude, GivesNoLimit
  <2>5. OneWriter'
    BY <1>1, <2>1, <2>3 DEF OneWriter
  <2>6. ~S!Quiet'
    BY <1>2, <1>3, IdleStep DEF S!Quiet
  <2>7. TableFollows'
    BY <1>1, <1>2, <1>3, <2>1, <2>2, <2>3, <2>6 DEF TableFollows, IsAhead, Holds
  <2> QED
    BY <2>4, <2>5, <2>7
<1>8. LimitsExclude' /\ OneWriter' /\ TableFollows'
  BY <1>7 DEF LimitsExclude, GivesNoLimit, OneWriter, TableFollows, IsAhead
<1> QED
  BY <1>4, <1>5, <1>6, <1>8 DEF StoreInv

LEMMA RequestsStep ==
  ASSUME StoreInv, NEW r \in Requests, NEW p \in Ports,
         \/ S!PermanentRequest(r, p) \/ S!OrdinaryRequest(r, p)
         \/ \E m \in S!Modes : S!LimitRequest(r, p, m) \/ S!FullOffRequest(r, p, m)
  PROVE  StoreInv'
<1>1. /\ S!NoSetting \in Settled /\ limit \in Settled /\ fullOff \in Settled
      /\ permanent \in SUBSET Ports
      /\ \A q \in permanent : fullOff[q] = "none"
  BY DEF StoreInv, StoreTypes, FullOffIsExclusive, S!NoSetting, Settled, S!Modes
<1>2. CASE S!PermanentRequest(r, p)
  <2>1. /\ [fullOff EXCEPT ![p] = "none"] \in Settled
        /\ \A q \in permanent \cup {p} : [fullOff EXCEPT ![p] = "none"][q] = "none"
    BY <1>1 DEF Settled, S!Modes
  <2>2. permanent \cup {p} \in SUBSET Ports
    BY <1>1
  <2> QED
    BY <1>1, <1>2, <2>1, <2>2, BeginStep DEF S!PermanentRequest
<1>3. CASE S!OrdinaryRequest(r, p)
  BY <1>1, <1>3, BeginStep DEF S!OrdinaryRequest
<1>4. ASSUME NEW m \in S!Modes, S!LimitRequest(r, p, m) PROVE StoreInv'
  <2> DEFINE l == [limit EXCEPT ![p] = m]
  <2>1. l \in Settled
    BY <1>1 DEF Settled
  <2>2. \A q \in permanent : limit[q] = "none" => l[q] = "none"
    BY <1>1, <1>4 DEF S!LimitRequest, Settled
  <2>3. S!Begin(r, "limits", l, S!NoSetting, {})
    BY <1>4 DEF S!LimitRequest
  <2>4. {} \in SUBSET Ports
    OBVIOUS
  <2> HIDE DEF l
  <2> QED
    BY <1>1, <2>1, <2>2, <2>3, <2>4, BeginStep
<1>5. ASSUME NEW m \in S!Modes, S!FullOffRequest(r, p, m) PROVE StoreInv'
  <2>1. [fullOff EXCEPT ![p] = m] \in Settled
    BY <1>1 DEF Settled
  <2>2. \A q \in permanent : [fullOff EXCEPT ![p] = m][q] = "none"
    BY <1>1, <1>5 DEF S!FullOffRequest, Settled
  <2> QED
    BY <1>1, <1>5, <2>1, <2>2, BeginStep DEF S!FullOffRequest
<1> QED
  BY <1>2, <1>3, <1>4, <1>5

(* A request at work goes on: only its own record changes, and while it is the
   only writer its new record answers for the table. *)
LEMMA WorkStep ==
  ASSUME StoreInv, NEW r \in Requests, req[r].step # "idle",
         NEW new \in RequestSet, req' = [req EXCEPT ![r] = new],
         new.step = "idle" => new = S!Idle,
         UNCHANGED <<writes, mixed>>,
         unsaved' \in SUBSET Keys, faults' \in 0..MaxFaults,
         limit' \in Settled, fullOff' \in Settled, permanent' \in SUBSET Ports,
         table' \in TableSet,
         \A p \in permanent' : fullOff'[p] = "none",
         GivesNoFullOff(new),
         ~mixed => /\ \A p \in permanent' : limit'[p] = "none"
                   /\ GivesNoLimit(new, permanent')
                   /\ IsAhead(table', unsaved', new, limit', fullOff', permanent')
                   /\ new.step = "idle" => Holds(table', unsaved', limit', fullOff', permanent')
  PROVE  StoreInv'
<1>1. /\ req' \in [Requests -> RequestSet]
      /\ \A q \in Requests : req'[q] = IF q = r THEN new ELSE req[q]
  BY DEF StoreInv, StoreTypes
<1>2. StoreTypes'
  <2>1. \A q \in Requests : req'[q].step = "idle" => req'[q] = S!Idle
    BY <1>1 DEF StoreInv, StoreTypes
  <2> QED
    BY <1>1, <2>1 DEF StoreInv, StoreTypes
<1>3. FullOffIsExclusive' /\ ModesExclude'
  BY <1>1 DEF StoreInv, FullOffIsExclusive, ModesExclude
<1>4. ASSUME ~mixed' PROVE LimitsExclude' /\ OneWriter' /\ TableFollows'
  <2>1. ~mixed
    BY <1>4
  <2>2. writes = <<>> /\ \A q \in Requests : q # r => req[q] = S!Idle
    BY <2>1, IdleStep DEF StoreInv, OneWriter
  <2>3. writes' = <<>> /\ Len(writes') = 0
    BY <2>2
  <2>4. \A q \in Requests : q # r => req'[q] = S!Idle /\ req'[q].step = "idle"
    BY <1>1, <2>2, IdleStep
  <2>5. req'[r] = new
    BY <1>1
  <2>6. LimitsExclude'
    <3>1. \A q \in Requests : q # r => GivesNoLimit(req'[q], permanent')
      BY <2>4 DEF GivesNoLimit
    <3> QED
      BY <2>1, <2>5, <3>1 DEF LimitsExclude
  <2>7. OneWriter'
    BY <2>3, <2>4 DEF OneWriter
  <2>8. TableFollows'
    <3>1. \A q \in Requests : q # r =>
             IsAhead(table', unsaved', req'[q], limit', fullOff', permanent')
      BY <2>4 DEF IsAhead
    <3>2. S!Quiet' => Holds(table', unsaved', limit', fullOff', permanent')
      BY <2>1, <2>5, IdleStep DEF S!Quiet
    <3> QED
      BY <2>1, <2>3, <2>5, <3>1, <3>2 DEF TableFollows
  <2> QED
    BY <2>6, <2>7, <2>8
<1>5. LimitsExclude' /\ OneWriter' /\ TableFollows'
  BY <1>4 DEF LimitsExclude, OneWriter, TableFollows
<1> QED
  BY <1>2, <1>3, <1>5 DEF StoreInv

(* What the lemmas below read off the invariant. *)
LEMMA AtWork ==
  ASSUME StoreInv, NEW r \in Requests
  PROVE  /\ req[r] \in RequestSet /\ req \in [Requests -> RequestSet]
         /\ limit \in Settled /\ fullOff \in Settled /\ permanent \in SUBSET Ports
         /\ StoreTypes /\ table \in TableSet
         /\ unsaved \in SUBSET Keys /\ faults \in 0..MaxFaults
         /\ \A p \in permanent : fullOff[p] = "none"
         /\ GivesNoFullOff(req[r])
         /\ ~mixed => /\ \A p \in permanent : limit[p] = "none"
                      /\ GivesNoLimit(req[r], permanent)
                      /\ IsAhead(table, unsaved, req[r], limit, fullOff, permanent)
BY DEF StoreInv, StoreTypes, FullOffIsExclusive, ModesExclude, LimitsExclude,
       TableFollows

LEMMA IdleRequest ==
  /\ S!Idle \in RequestSet /\ S!Idle.step = "idle"
  /\ GivesNoFullOff(S!Idle)
  /\ \A ports : GivesNoLimit(S!Idle, ports)
  /\ \A t, u, l, f, p : IsAhead(t, u, S!Idle, l, f, p)
<1>1. S!NoSetting \in Settled
  BY Zenon DEF S!NoSetting, Settled, S!Modes
<1>2. S!Idle \in RequestSet
  BY <1>1, Zenon DEF S!Idle, RequestSet
<1> QED
  BY <1>2, IdleStep DEF GivesNoFullOff, GivesNoLimit, IsAhead, ModeSteps

(* A handler awaits the executor's write of one column of the table. *)
LEMMA WriteStep ==
  ASSUME StoreInv, NEW r \in Requests,
         \/ S!WriteLimits(r) \/ S!WritePermanent(r)
         \/ S!WriteFullOff(r) \/ S!WriteStale(r)
  PROVE  StoreInv'
<1>1. UNCHANGED <<limit, fullOff, permanent, writes, mixed>>
  BY DEF S!WriteLimits, S!WritePermanent, S!WriteFullOff, S!WriteStale, S!GoOn,
         S!settings
<1> DEFINE New(to) == [req[r] EXCEPT !.step = to]
<1>2. ASSUME NEW to \in ModeSteps \cup {"limits", "limits_written"}
      PROVE  /\ New(to) \in RequestSet /\ New(to).step = to
             /\ New(to).limit = req[r].limit /\ New(to).fullOff = req[r].fullOff
             /\ New(to).permanent = req[r].permanent
  BY AtWork DEF RequestSet
<1>3. CASE S!WriteLimits(r)
  <2> DEFINE new == New("limits_written")
  <2>1. req[r].step = "limits" /\ req' = [req EXCEPT ![r] = new]
    BY <1>3, AtWork DEF S!WriteLimits, S!GoOn
  <2>2. /\ new \in RequestSet /\ new.step = "limits_written"
        /\ new.limit = req[r].limit
    BY <1>2
  <2>3. /\ table' \in TableSet
        /\ unsaved' \in SUBSET Keys /\ faults' \in 0..MaxFaults
        /\ \A other \in Keys \ {"limit"} :
              other \notin unsaved' => other \notin unsaved
        /\ "limit" \notin unsaved' => table'.limit = req[r].limit
        /\ table'.fullOff = table.fullOff /\ table'.permanent = table.permanent
    <3>1. S!SetMeta("limit", req[r].limit) /\ "limit" \in Keys
      BY <1>3 DEF S!WriteLimits, Keys
    <3>2. StoreTypes /\ req[r].limit \in Settled
      BY AtWork DEF RequestSet
    <3> QED
      BY <3>1, <3>2, WrittenOrNot
  <2> HIDE DEF new
  <2>4. GivesNoFullOff(new)
    BY <2>2 DEF GivesNoFullOff, ModeSteps
  <2>5. ~mixed => GivesNoLimit(new, permanent)
    BY <2>1, <2>2, AtWork DEF GivesNoLimit
  <2>6. ~mixed => IsAhead(table', unsaved', new, limit, fullOff, permanent)
    BY <2>1, <2>2, <2>3, AtWork DEF IsAhead, Holds, Keys
  <2> QED
    BY <1>1, <2>1, <2>2, <2>3, <2>4, <2>5, <2>6, AtWork, WorkStep
<1>4. CASE S!WritePermanent(r)
  <2> DEFINE new == New("full_off")
  <2>1. req[r].step = "modes" /\ req' = [req EXCEPT ![r] = new]
    BY <1>4, AtWork DEF S!WritePermanent, S!GoOn
  <2>2. /\ new \in RequestSet /\ new.step = "full_off"
        /\ new.permanent = req[r].permanent /\ new.fullOff = req[r].fullOff
    BY <1>2 DEF ModeSteps
  <2>3. /\ table' \in TableSet
        /\ unsaved' \in SUBSET Keys /\ faults' \in 0..MaxFaults
        /\ \A other \in Keys \ {"permanent"} :
              other \notin unsaved' => other \notin unsaved
        /\ "permanent" \notin unsaved' => table'.permanent = req[r].permanent
        /\ table'.fullOff = table.fullOff /\ table'.limit = table.limit
    <3>1. S!SetMeta("permanent", req[r].permanent) /\ "permanent" \in Keys
      BY <1>4 DEF S!WritePermanent, Keys
    <3>2. StoreTypes /\ req[r].permanent \in SUBSET Ports
      BY AtWork DEF RequestSet
    <3> QED
      BY <3>1, <3>2, WrittenOrNot
  <2> HIDE DEF new
  <2>4. GivesNoFullOff(new)
    BY <2>1, <2>2, AtWork DEF GivesNoFullOff, ModeSteps
  <2>5. ~mixed => GivesNoLimit(new, permanent)
    BY <2>1, <2>2, AtWork DEF GivesNoLimit
  <2>6. ~mixed => IsAhead(table', unsaved', new, limit, fullOff, permanent)
    BY <2>1, <2>2, <2>3, AtWork DEF IsAhead, Holds, Keys
  <2> QED
    BY <1>1, <2>1, <2>2, <2>3, <2>4, <2>5, <2>6, AtWork, WorkStep
<1>5. CASE S!WriteFullOff(r)
  <2> DEFINE new == New("modes_written")
  <2>1. req[r].step = "full_off" /\ req' = [req EXCEPT ![r] = new]
    BY <1>5, AtWork DEF S!WriteFullOff, S!GoOn
  <2>2. /\ new \in RequestSet /\ new.step = "modes_written"
        /\ new.permanent = req[r].permanent /\ new.fullOff = req[r].fullOff
    BY <1>2 DEF ModeSteps
  <2>3. /\ table' \in TableSet
        /\ unsaved' \in SUBSET Keys /\ faults' \in 0..MaxFaults
        /\ \A other \in Keys \ {"fullOff"} :
              other \notin unsaved' => other \notin unsaved
        /\ "fullOff" \notin unsaved' => table'.fullOff = req[r].fullOff
        /\ table'.permanent = table.permanent /\ table'.limit = table.limit
    <3>1. S!SetMeta("fullOff", req[r].fullOff) /\ "fullOff" \in Keys
      BY <1>5 DEF S!WriteFullOff, Keys
    <3>2. StoreTypes /\ req[r].fullOff \in Settled
      BY AtWork DEF RequestSet
    <3> QED
      BY <3>1, <3>2, WrittenOrNot
  <2> HIDE DEF new
  <2>4. GivesNoFullOff(new)
    BY <2>1, <2>2, AtWork DEF GivesNoFullOff, ModeSteps
  <2>5. ~mixed => GivesNoLimit(new, permanent)
    BY <2>1, <2>2, AtWork DEF GivesNoLimit
  <2>6. ~mixed => IsAhead(table', unsaved', new, limit, fullOff, permanent)
    BY <2>1, <2>2, <2>3, AtWork DEF IsAhead, Holds, Keys
  <2> QED
    BY <1>1, <2>1, <2>2, <2>3, <2>4, <2>5, <2>6, AtWork, WorkStep
<1>6. CASE S!WriteStale(r)
  <2> DEFINE new == New("stale_written")
  <2>1. req[r].step = "stale" /\ req' = [req EXCEPT ![r] = new]
    BY <1>6, AtWork DEF S!WriteStale, S!GoOn
  <2>2. /\ new \in RequestSet /\ new.step = "stale_written"
        /\ new.permanent = req[r].permanent /\ new.fullOff = req[r].fullOff
        /\ new.limit = req[r].limit
    BY <1>2 DEF ModeSteps
  <2>3. /\ table' \in TableSet
        /\ unsaved' \in SUBSET Keys /\ faults' \in 0..MaxFaults
        /\ \A other \in Keys \ {"limit"} :
              other \notin unsaved' => other \notin unsaved
        /\ "limit" \notin unsaved' => table'.limit = req[r].limit
        /\ table'.permanent = table.permanent /\ table'.fullOff = table.fullOff
    <3>1. S!SetMeta("limit", req[r].limit) /\ "limit" \in Keys
      BY <1>6 DEF S!WriteStale, Keys
    <3>2. StoreTypes /\ req[r].limit \in Settled
      BY AtWork DEF RequestSet
    <3> QED
      BY <3>1, <3>2, WrittenOrNot
  <2> HIDE DEF new
  <2>4. GivesNoFullOff(new)
    BY <2>1, <2>2, AtWork DEF GivesNoFullOff, ModeSteps
  <2>5. ~mixed => GivesNoLimit(new, permanent)
    BY <2>1, <2>2, AtWork DEF GivesNoLimit
  <2>6. ~mixed => IsAhead(table', unsaved', new, limit, fullOff, permanent)
    BY <2>1, <2>2, <2>3, AtWork DEF IsAhead, Holds, Keys
  <2> QED
    BY <1>1, <2>1, <2>2, <2>3, <2>4, <2>5, <2>6, AtWork, WorkStep
<1> QED
  BY <1>3, <1>4, <1>5, <1>6

(* The limits of the ports that are permanent from now on, cleared. *)
LEMMA ClearStaleStep ==
  ASSUME StoreInv, NEW r \in Requests, S!ClearStale(r)
  PROVE  StoreInv'
<1> DEFINE cleared == [p \in Ports |-> IF p \in S!Stale(r) THEN "none" ELSE limit[p]]
           new == [req[r] EXCEPT !.step = "stale", !.limit = cleared]
<1>1. /\ req[r].step = "modes_written"
      /\ UNCHANGED <<limit, fullOff, permanent, table, unsaved, faults, writes, mixed>>
  BY DEF S!ClearStale, S!settings, S!store
<1>2. req' = [req EXCEPT ![r] = new]
  BY AtWork DEF S!ClearStale
<1>3. /\ cleared \in Settled
      /\ \A p \in req[r].permanent : cleared[p] = "none"
  BY AtWork DEF Settled, S!Modes, S!Stale, RequestSet
<1> HIDE DEF cleared
<1>4. /\ new \in RequestSet /\ new.step = "stale" /\ new.limit = cleared
      /\ new.permanent = req[r].permanent /\ new.fullOff = req[r].fullOff
  BY <1>3, AtWork DEF RequestSet, ModeSteps
<1> HIDE DEF new
<1>5. GivesNoFullOff(new)
  BY <1>1, <1>4, AtWork DEF GivesNoFullOff, ModeSteps
<1>6. ~mixed => GivesNoLimit(new, permanent)
  BY <1>3, <1>4 DEF GivesNoLimit
<1>7. ~mixed => IsAhead(table, unsaved, new, limit, fullOff, permanent)
  BY <1>1, <1>4, AtWork DEF IsAhead
<1> QED
  BY <1>1, <1>2, <1>4, <1>5, <1>6, <1>7, AtWork, WorkStep

(* A setting that spares the permanent ports already is left as it is. *)
LEMMA WithoutNothing ==
  ASSUME NEW setting \in Settled, NEW ports \in SUBSET Ports
  PROVE  /\ S!Without(setting, ports) \in Settled
         /\ \A p \in ports : S!Without(setting, ports)[p] = "none"
         /\ (\A p \in ports : setting[p] = "none") => S!Without(setting, ports) = setting
BY DEF S!Without, Settled, S!Modes

(* The manager is set to what a handler has written. *)
LEMMA ApplyStep ==
  ASSUME StoreInv, NEW r \in Requests, S!ApplyLimits(r) \/ S!ApplyModes(r)
  PROVE  StoreInv'
<1>1. /\ UNCHANGED <<table, unsaved, faults, writes, mixed>>
      /\ req' = [req EXCEPT ![r] = S!Idle]
  BY DEF S!ApplyLimits, S!ApplyModes, S!store
<1>2. /\ req[r].limit \in Settled /\ req[r].fullOff \in Settled
      /\ req[r].permanent \in SUBSET Ports
  BY AtWork DEF RequestSet
<1>3. CASE S!ApplyLimits(r)
  <2>1. /\ req[r].step = "limits_written"
        /\ limit' = req[r].limit /\ fullOff' = fullOff /\ permanent' = permanent
    BY <1>3 DEF S!ApplyLimits
  <2>2. ~mixed => \A p \in permanent : limit'[p] = "none"
    BY <2>1, AtWork DEF GivesNoLimit
  <2>3. ~mixed => Holds(table', unsaved', limit', fullOff', permanent')
    BY <1>1, <2>1, AtWork DEF IsAhead
  <2> QED
    BY <1>1, <1>2, <2>1, <2>2, <2>3, AtWork, IdleRequest, WorkStep
<1>4. CASE S!ApplyModes(r)
  <2>1. /\ permanent' = req[r].permanent
        /\ fullOff' = S!Without(req[r].fullOff, req[r].permanent)
        /\ \/ /\ req[r].step = "modes_written" /\ S!Stale(r) = {}
              /\ limit' = S!Without(limit, req[r].permanent)
           \/ /\ req[r].step = "stale_written"
              /\ limit' = S!Without(req[r].limit, req[r].permanent)
    BY <1>4 DEF S!ApplyModes
  <2>2. /\ limit' \in Settled /\ fullOff' \in Settled
        /\ \A p \in permanent' : limit'[p] = "none" /\ fullOff'[p] = "none"
    BY <1>2, <2>1, AtWork, WithoutNothing
  <2>3. fullOff' = req[r].fullOff
    BY <1>2, <2>1, AtWork, WithoutNothing DEF GivesNoFullOff, ModeSteps
  <2>4. ~mixed => Holds(table', unsaved', limit', fullOff', permanent')
    <3>1. CASE req[r].step = "modes_written"
      <4>1. limit' = limit
        BY <1>2, <2>1, <3>1, AtWork, WithoutNothing DEF S!Stale
      <4> QED
        BY <1>1, <2>1, <2>3, <3>1, <4>1, AtWork DEF IsAhead
    <3>2. CASE req[r].step = "stale_written"
      <4>1. ~mixed => limit' = req[r].limit
        BY <1>2, <2>1, <3>2, AtWork, WithoutNothing DEF GivesNoLimit
      <4> QED
        BY <1>1, <2>1, <2>3, <3>2, <4>1, AtWork DEF IsAhead, Holds
    <3> QED
      BY <2>1, <3>1, <3>2
  <2> QED
    BY <1>1, <1>2, <2>1, <2>2, <2>4, AtWork, IdleRequest, WorkStep
<1> QED
  BY <1>3, <1>4

(* What fails to be read can be counted. *)
LEMMA LostKeys == \A lost \in SUBSET Keys : S!Cardinality(lost) \in Nat
<1>1. IsFiniteSet({"limit"}) /\ IsFiniteSet({"limit", "fullOff"})
  <2>1. IsFiniteSet({}) /\ {"limit"} = {} \cup {"limit"}
    BY FS_EmptySet
  <2>2. IsFiniteSet({"limit"})
    BY <2>1, FS_AddElement
  <2>3. {"limit", "fullOff"} = {"limit"} \cup {"fullOff"}
    OBVIOUS
  <2> QED
    BY <2>2, <2>3, FS_AddElement
<1>2. IsFiniteSet(Keys)
  <2>1. Keys = {"limit", "fullOff"} \cup {"permanent"}
    BY DEF Keys
  <2> QED
    BY <1>1, <2>1, FS_AddElement
<1>3. ASSUME NEW lost \in SUBSET Keys PROVE S!Cardinality(lost) \in Nat
  <2>1. Cardinality(lost) \in Nat
    BY <1>2, FS_Subset, FS_CardinalityType
  <2>2. S!Cardinality(lost) = Cardinality(lost)
    BY DEF S!Cardinality, Cardinality
  <2> QED
    BY <2>1, <2>2
<1> QED
  BY <1>3

(* A new manager, after a rebuild or a restart, loads the table. *)
LEMMA LoadStep ==
  ASSUME StoreInv, S!Rebuild \/ S!Restart
  PROVE  StoreInv'
<1> DEFINE ReadLimit(lost) == IF "limit" \in lost THEN S!NoSetting ELSE table.limit
           ReadFullOff(lost) == IF "fullOff" \in lost THEN S!NoSetting ELSE table.fullOff
           ReadPermanent(lost) == IF "permanent" \in lost THEN {} ELSE table.permanent
<1>1. PICK lost \in SUBSET Keys :
         /\ permanent' = ReadPermanent(lost) /\ table' = table
         /\ limit' = S!Without(ReadLimit(lost), ReadPermanent(lost))
         /\ fullOff' = S!Without(ReadFullOff(lost), ReadPermanent(lost))
         /\ unsaved' = lost \cup S!Tainted
         /\ faults' = faults + S!Cardinality(lost) /\ faults' <= MaxFaults
         /\ mixed' = (mixed \/ ~S!Quiet)
  <2>1. S!Load
    BY DEF S!Rebuild, S!Restart
  <2>2. DOMAIN S!Missing = Keys
    BY DEF S!Missing, Keys
  <2>3. PICK lost \in SUBSET Keys :
           /\ permanent' = S!GetMeta(lost).permanent
           /\ limit' = S!Without(S!GetMeta(lost).limit, S!GetMeta(lost).permanent)
           /\ fullOff' = S!Without(S!GetMeta(lost).fullOff, S!GetMeta(lost).permanent)
           /\ unsaved' = lost \cup S!Tainted
           /\ faults' = faults + S!Cardinality(lost) /\ faults' <= MaxFaults
    BY <2>1, <2>2, Zenon DEF S!Load
  <2>4. /\ S!GetMeta(lost).limit = ReadLimit(lost)
        /\ S!GetMeta(lost).fullOff = ReadFullOff(lost)
        /\ S!GetMeta(lost).permanent = ReadPermanent(lost)
    BY DEF S!GetMeta, S!Missing
  <2>5. table' = table /\ mixed' = (mixed \/ ~S!Quiet)
    BY <2>1 DEF S!Load
  <2> QED
    BY <2>3, <2>4, <2>5, Zenon
<1>2. \/ writes' = writes /\ req' = req
      \/ writes' = <<>> /\ req' = [r \in Requests |-> S!Idle]
  BY DEF S!Rebuild, S!Restart
<1>3. /\ limit' \in Settled /\ fullOff' \in Settled /\ permanent' \in SUBSET Ports
      /\ \A p \in permanent' : limit'[p] = "none" /\ fullOff'[p] = "none"
  <2>1. /\ table.limit \in Settled /\ table.fullOff \in Settled
        /\ table.permanent \in SUBSET Ports
    BY DEF StoreInv, StoreTypes, TableSet
  <2>2. S!NoSetting \in Settled
    BY Zenon DEF S!NoSetting, Settled, S!Modes
  <2>3. /\ ReadLimit(lost) \in Settled /\ ReadFullOff(lost) \in Settled
        /\ ReadPermanent(lost) \in SUBSET Ports
    BY <2>1, <2>2
  <2> HIDE DEF ReadLimit, ReadFullOff, ReadPermanent
  <2> QED
    BY <1>1, <2>3, WithoutNothing
<1>4. /\ req' \in [Requests -> RequestSet]
      /\ \A r \in Requests : req'[r] = req[r] \/ req'[r] = S!Idle
      /\ writes' \in Seq(WriteSet)
  BY <1>2, IdleRequest, EmptySeq DEF StoreInv, StoreTypes, WriteSet
<1>5. StoreTypes'
  <2>1. \A r \in Requests : req'[r].step = "idle" => req'[r] = S!Idle
    BY <1>4 DEF StoreInv, StoreTypes
  <2>2. unsaved' \in SUBSET Keys
    BY <1>1 DEF S!Tainted, Keys
  <2>3. faults' \in 0..MaxFaults
    <3>1. S!Cardinality(lost) \in Nat
      BY LostKeys
    <3> QED
      BY <1>1, <3>1, StoresAssumption DEF StoreInv, StoreTypes, S!StoreConstants
  <2>4. table' \in TableSet
    BY <1>1 DEF StoreInv, StoreTypes
  <2> QED
    BY <1>3, <1>4, <2>1, <2>2, <2>3, <2>4 DEF StoreTypes, WriteSet
<1>6. FullOffIsExclusive' /\ ModesExclude'
  BY <1>3, <1>4, IdleRequest DEF StoreInv, FullOffIsExclusive, ModesExclude
<1>7. ASSUME ~mixed' PROVE LimitsExclude' /\ OneWriter' /\ TableFollows'
  <2>1. /\ ~mixed
        /\ writes = <<>>
        /\ \A r \in Requests : req[r] = S!Idle
    BY <1>1, <1>7, AloneOrMixed
  <2>2. writes' = <<>> /\ Len(writes') = 0 /\ \A r \in Requests : req'[r] = S!Idle
    BY <1>2, <2>1
  <2>3. Holds(table, unsaved, limit, fullOff, permanent)
    BY <2>1 DEF StoreInv, TableFollows, S!Quiet
  <2>4. Holds(table', unsaved', limit', fullOff', permanent')
    <3>1. \A p \in permanent : limit[p] = "none" /\ fullOff[p] = "none"
      BY <2>1 DEF StoreInv, LimitsExclude, FullOffIsExclusive
    <3>2. limit \in Settled /\ fullOff \in Settled /\ permanent \in SUBSET Ports
      BY DEF StoreInv, StoreTypes
    <3>3. "permanent" \notin unsaved =>
             ReadPermanent(lost) \in SUBSET permanent
      BY <2>3 DEF Holds
    <3>4. ASSUME "limit" \notin unsaved' PROVE table'.limit = limit'
      <4>1. "limit" \notin lost /\ "limit" \notin unsaved /\ "permanent" \notin unsaved
        BY <1>1, <3>4 DEF S!Tainted
      <4>2. ReadLimit(lost) = limit /\ table.limit = limit
        BY <2>3, <4>1 DEF Holds
      <4>3. /\ ReadPermanent(lost) \in SUBSET Ports
            /\ \A p \in ReadPermanent(lost) : limit[p] = "none"
        BY <3>1, <3>2, <3>3, <4>1
      <4> HIDE DEF ReadLimit, ReadPermanent
      <4>4. S!Without(limit, ReadPermanent(lost)) = limit
        BY <3>2, <4>3, WithoutNothing
      <4> QED
        BY <1>1, <4>2, <4>4
    <3>5. ASSUME "fullOff" \notin unsaved' PROVE table'.fullOff = fullOff'
      <4>1. "fullOff" \notin lost /\ "fullOff" \notin unsaved /\ "permanent" \notin unsaved
        BY <1>1, <3>5 DEF S!Tainted
      <4>2. ReadFullOff(lost) = fullOff /\ table.fullOff = fullOff
        BY <2>3, <4>1 DEF Holds
      <4>3. /\ ReadPermanent(lost) \in SUBSET Ports
            /\ \A p \in ReadPermanent(lost) : fullOff[p] = "none"
        BY <3>1, <3>2, <3>3, <4>1
      <4> HIDE DEF ReadFullOff, ReadPermanent
      <4>4. S!Without(fullOff, ReadPermanent(lost)) = fullOff
        BY <3>2, <4>3, WithoutNothing
      <4> QED
        BY <1>1, <4>2, <4>4
    <3>6. "permanent" \notin unsaved' => table'.permanent = permanent'
      BY <1>1
    <3> HIDE DEF ReadLimit, ReadFullOff, ReadPermanent
    <3> QED
      BY <3>4, <3>5, <3>6 DEF Holds
  <2>5. LimitsExclude'
    BY <1>3, <2>2, IdleRequest DEF LimitsExclude
  <2>6. OneWriter'
    BY <2>2 DEF OneWriter
  <2>7. TableFollows'
    BY <2>2, <2>4, IdleRequest DEF TableFollows
  <2> QED
    BY <2>5, <2>6, <2>7
<1>8. LimitsExclude' /\ OneWriter' /\ TableFollows'
  BY <1>7 DEF LimitsExclude, OneWriter, TableFollows
<1> QED
  BY <1>5, <1>6, <1>8 DEF StoreInv

LEMMA StoreStep == StoreInv /\ [Next]_vars => StoreInv'
<1> SUFFICES ASSUME StoreInv, [Next]_vars PROVE StoreInv'
  OBVIOUS
<1>1. ASSUME UNCHANGED sVars PROVE StoreInv'
  <2>1. UNCHANGED <<limit, fullOff, permanent, table, unsaved, faults, writes, req, mixed>>
    BY <1>1 DEF sVars
  <2>2. StoreTypes' /\ FullOffIsExclusive' /\ ModesExclude' /\ LimitsExclude'
    BY <2>1 DEF StoreInv, StoreTypes, FullOffIsExclusive, ModesExclude, LimitsExclude
  <2>3. OneWriter'
    BY <2>1 DEF StoreInv, OneWriter
  <2>4. TableFollows'
    BY <2>1 DEF StoreInv, TableFollows, S!Quiet
  <2> QED
    BY <2>2, <2>3, <2>4 DEF StoreInv
<1>2. CASE Settings
  BY <1>2, SpendStep, WriteJobStep, RequestsStep, WriteStep, ClearStaleStep,
     ApplyStep, LoadStep, Zenon DEF Settings, S!Next
<1>3. CASE History \/ Protocols \/ Charge \/ UNCHANGED vars
  BY <1>1, <1>3, Zenon DEF History, Protocols, Charge, vars
<1> QED
  BY <1>2, <1>3 DEF Next

LEMMA StoreAlways == Spec => []StoreInv
<1> QED
  BY StoreInit, StoreStep, PTL DEF Spec

(* full_off is never on for a permanent port, whatever the order of handlers,
   spent settings, rebuilds and restarts; neither is a limit, nor is there
   anything a restart would change, unless two writers have overlapped. *)
THEOREM SettingsAlwaysAgree == Spec => []SettingsAgree
<1>1. StoreInv => SettingsAgree
  <2> SUFFICES ASSUME StoreInv PROVE S!PermanentIsExclusive /\ S!PersistedAtRest
    BY DEF SettingsAgree
  <2>1. S!PermanentIsExclusive
    BY DEF StoreInv, FullOffIsExclusive, LimitsExclude, S!PermanentIsExclusive
  <2>2. S!PersistedAtRest
    <3> SUFFICES ASSUME S!Quiet, ~mixed, NEW key \in DOMAIN S!Missing \ unsaved
                 PROVE  table[key] = S!Manager[key]
      BY DEF S!PersistedAtRest
    <3>1. Holds(table, unsaved, limit, fullOff, permanent)
      BY DEF StoreInv, TableFollows
    <3>2. key \in Keys /\ key \notin unsaved
      BY DEF S!Missing, Keys
    <3> QED
      BY <3>1, <3>2 DEF S!Manager, Holds, Keys
  <2> QED
    BY <2>1, <2>2
<1> QED
  BY <1>1, StoreAlways, PTL

-----------------------------------------------------------------------------
(* SessionRules: the operators on windows. *)

(* A set of numbers has a least one. *)
LEMMA LeastNumber ==
  ASSUME NEW T \in SUBSET Nat, T # {}
  PROVE  \E x \in T : \A y \in T : x <= y
<1> DEFINE R == OpToRel(<, Nat)
<1>1. IsWellFoundedOn(R, Nat)
  BY NatLessThanWellFounded, Zenon
<1>2. PICK x \in T : \A y \in T : <<y, x>> \notin R
  <2> HIDE DEF R
  <2> QED
    BY <1>1, WFMin
<1>3. \A y \in T : ~(y < x)
  BY <1>2 DEF OpToRel
<1> QED
  BY <1>3

(* Finitely many numbers have a bound, and a greatest one. *)
LEMMA BoundedNumbers ==
  ASSUME NEW n \in Nat, NEW f \in [1..n -> Nat]
  PROVE  \E b \in Nat : \A i \in 1..n : f[i] <= b
<1> DEFINE Bounded(k) == \E b \in Nat : \A i \in 1..k : f[i] <= b
           T == {k \in 0..n : ~Bounded(k)}
<1>1. Bounded(0)
  OBVIOUS
<1>2. ASSUME NEW k \in 1..n, Bounded(k - 1) PROVE Bounded(k)
  <2>1. PICK b \in Nat : \A i \in 1..(k - 1) : f[i] <= b
    BY <1>2
  <2>2. PICK c \in Nat : c >= b /\ c >= f[k]
    <3>1. f[k] \in Nat
      OBVIOUS
    <3>2. b >= f[k] \/ f[k] >= b
      BY <3>1
    <3> QED
      BY <3>1, <3>2
  <2>3. ASSUME NEW i \in 1..k PROVE f[i] <= c
    <3>1. i \in 1..(k - 1) \/ i = k
      OBVIOUS
    <3>2. f[i] \in Nat
      OBVIOUS
    <3> QED
      BY <2>1, <2>2, <3>1, <3>2
  <2> QED
    BY <2>3
<1> HIDE DEF Bounded
<1>3. T = {}
  <2> SUFFICES ASSUME T # {} PROVE FALSE
    OBVIOUS
  <2>1. PICK k \in T : \A l \in T : k <= l
    <3>1. T \in SUBSET Nat
      OBVIOUS
    <3> HIDE DEF T
    <3> QED
      BY <3>1, LeastNumber
  <2>2. k \in 1..n /\ ~Bounded(k)
    BY <1>1, <2>1
  <2>3. k - 1 \in 0..n /\ k - 1 \notin T
    BY <2>1, <2>2
  <2> QED
    BY <1>2, <2>2, <2>3
<1>4. n \in 0..n
  OBVIOUS
<1>5. Bounded(n)
  BY <1>3, <1>4
<1> QED
  BY <1>5 DEF Bounded

LEMMA GreatestNumber ==
  ASSUME NEW n \in Nat \ {0}, NEW f \in [1..n -> Nat]
  PROVE  \E i \in 1..n : \A j \in 1..n : f[j] <= f[i]
<1> DEFINE T == {b \in Nat : \A i \in 1..n : f[i] <= b}
<1>1. T # {}
  BY BoundedNumbers
<1>2. PICK b \in T : \A c \in T : b <= c
  BY <1>1, LeastNumber
<1> SUFFICES ASSUME \A i \in 1..n : f[i] # b PROVE FALSE
  BY <1>2
<1>3. \A i \in 1..n : f[i] \in Nat /\ f[i] < b
  BY <1>2
<1>4. b - 1 \in T
  BY <1>2, <1>3
<1> QED
  BY <1>2, <1>4

(* The operators Max and Min, of sets that have a greatest or least element. *)
LEMMA MaxFacts ==
  ASSUME NEW V \in SUBSET Int, \E x \in V : \A y \in V : x >= y
  PROVE  E!Max(V) \in V /\ \A y \in V : y <= E!Max(V)
  BY DEF E!Max

LEMMA MinFacts ==
  ASSUME NEW V \in SUBSET Int, \E x \in V : \A y \in V : x <= y
  PROVE  E!Min(V) \in V /\ \A y \in V : E!Min(V) <= y
  BY DEF E!Min

LEMMA LeastIsMin ==
  ASSUME NEW V \in SUBSET Nat, V # {}
  PROVE  E!Min(V) \in V /\ \A y \in V : E!Min(V) <= y
  BY LeastNumber, MinFacts

LEMMA MaxOfTwo ==
  ASSUME NEW a \in Int, NEW b \in Int
  PROVE  E!Max({a, b}) = IF a >= b THEN a ELSE b
<1>1. \E x \in {a, b} : \A y \in {a, b} : x >= y
  OBVIOUS
<1> QED
  BY <1>1, MaxFacts

LEMMA MinOfTwo ==
  ASSUME NEW a \in Int, NEW b \in Int
  PROVE  E!Min({a, b}) = IF a <= b THEN a ELSE b
<1>1. \E x \in {a, b} : \A y \in {a, b} : x <= y
  OBVIOUS
<1> QED
  BY <1>1, MinFacts

LEMMA MaxOfMany ==
  ASSUME NEW n \in Nat \ {0}, NEW f \in [1..n -> Nat]
  PROVE  /\ \E i \in 1..n : E!Max({f[j] : j \in 1..n}) = f[i]
         /\ \A i \in 1..n : f[i] <= E!Max({f[j] : j \in 1..n})
<1> DEFINE V == {f[j] : j \in 1..n}
<1>1. V \in SUBSET Int
  OBVIOUS
<1>2. \E x \in V : \A y \in V : x >= y
  <2>1. PICK i \in 1..n : \A j \in 1..n : f[j] <= f[i]
    BY GreatestNumber
  <2>2. f[i] \in V
    OBVIOUS
  <2> QED
    BY <2>1, <2>2
<1>3. E!Max(V) \in V /\ \A y \in V : y <= E!Max(V)
  <2> HIDE DEF V
  <2> QED
    BY <1>1, <1>2, MaxFacts
<1> QED
  BY <1>3

-----------------------------------------------------------------------------
(* The threshold is some hundredths of a watt, and grows with the peak; the one
   of recovery is always five watts. *)
LEMMA ThresholdFacts ==
  /\ \A h \in Nat : E!Threshold(h) \in 5..60 /\ E!RecoverThreshold(h) = 500
  /\ \A h, k \in Nat : h <= k => E!Threshold(h) <= E!Threshold(k)
<1>1. ASSUME NEW h \in Nat
      PROVE  E!Threshold(h) = IF h \div 5 <= 5 THEN 5 ELSE IF h \div 5 >= 60 THEN 60 ELSE h \div 5
  <2>1. h \div 5 \in Nat
    OBVIOUS
  <2>2. E!Min({60, h \div 5}) = IF 60 <= h \div 5 THEN 60 ELSE h \div 5
    BY <2>1, MinOfTwo
  <2>3. E!Min({60, h \div 5}) \in Nat
    BY <2>1, <2>2
  <2>4. E!Threshold(h) = IF 5 >= E!Min({60, h \div 5}) THEN 5 ELSE E!Min({60, h \div 5})
    BY <2>3, MaxOfTwo DEF E!Threshold
  <2> DEFINE fifth == h \div 5
             least == E!Min({60, h \div 5})
  <2>5. /\ fifth \in Nat
        /\ least = IF 60 <= fifth THEN 60 ELSE fifth
        /\ E!Threshold(h) = IF 5 >= least THEN 5 ELSE least
    BY <2>1, <2>2, <2>4
  <2> HIDE DEF fifth, least
  <2>6. E!Threshold(h) = IF fifth <= 5 THEN 5 ELSE IF fifth >= 60 THEN 60 ELSE fifth
    BY <2>5
  <2> QED
    BY <2>6 DEF fifth
<1>2. \A h \in Nat : E!Threshold(h) \in 5..60
  BY <1>1
<1>3. ASSUME NEW h \in Nat PROVE E!RecoverThreshold(h) = 500
  <2>1. E!RecoverThreshold(h) = IF 500 >= 2 * E!Threshold(h) THEN 500 ELSE 2 * E!Threshold(h)
    <3> DEFINE double == 2 * E!Threshold(h)
    <3>1. double \in Int
      BY <1>2
    <3> HIDE DEF double
    <3>2. E!Max({500, double}) = IF 500 >= double THEN 500 ELSE double
      BY <3>1, MaxOfTwo
    <3> QED
      BY <3>2 DEF E!RecoverThreshold, double
  <2> QED
    BY <1>2, <2>1
<1>4. \A h, k \in Nat : h <= k => E!Threshold(h) <= E!Threshold(k)
  <2> SUFFICES ASSUME NEW h \in Nat, NEW k \in Nat, h <= k
               PROVE  E!Threshold(h) <= E!Threshold(k)
    OBVIOUS
  <2>1. h \div 5 <= k \div 5 /\ h \div 5 \in Nat /\ k \div 5 \in Nat
    OBVIOUS
  <2> QED
    BY <1>1, <2>1
<1> QED
  BY <1>2, <1>3, <1>4

-----------------------------------------------------------------------------
(* The k-th smallest value of a sequence is one of its values, ... *)
LEMMA RankedIsAValue ==
  ASSUME NEW n \in Nat \ {0}, NEW s \in [1..n -> Nat], NEW k \in 1..n
  PROVE  \E i \in 1..n : E!Ranked(s, k) = s[i]
<1> DEFINE Upto(j) == {l \in 1..n : s[l] <= s[j]}
           A == {j \in 1..n : E!Cardinality(Upto(j)) >= k}
           B == {s[i] : i \in A}
<1>1. E!Ranked(s, k) = E!Min(B)
  BY DEF E!Ranked
<1>2. PICK m \in 1..n : \A j \in 1..n : s[j] <= s[m]
  BY GreatestNumber
<1>3. Upto(m) = 1..n
  BY <1>2
<1>4. E!Cardinality(Upto(m)) = n
  <2>1. Cardinality(1..n) = n
    BY FS_Interval
  <2>2. E!Cardinality(1..n) = Cardinality(1..n)
    BY DEF E!Cardinality, Cardinality
  <2> QED
    BY <1>3, <2>1, <2>2
<1>5. m \in A
  BY <1>4
<1>6. B \in SUBSET Nat /\ B # {} /\ \A b \in B : \E i \in 1..n : b = s[i]
  <2> HIDE DEF Upto
  <2> QED
    BY <1>5
<1>7. E!Min(B) \in B
  <2> HIDE DEF B
  <2> QED
    BY <1>6, LeastIsMin
<1> QED
  <2> HIDE DEF B
  <2> QED
    BY <1>1, <1>6, <1>7

(* ... and so the median is between two of them. *)
LEMMA MedianIsBetween ==
  ASSUME NEW n \in Nat \ {0}, NEW s \in [1..n -> Nat]
  PROVE  /\ E!Median(s) \in Nat
         /\ \E i \in 1..n : s[i] <= E!Median(s)
         /\ \E i \in 1..n : E!Median(s) <= s[i]
<1> DEFINE half == n \div 2
<1>1. s \in Seq(Nat) /\ Len(s) = n /\ s # <<>>
  <2>1. s \in Seq(Nat)
    BY SeqDef
  <2>2. Len(s) \in Nat /\ DOMAIN s = 1..Len(s) /\ DOMAIN s = 1..n
    BY <2>1, LenProperties
  <2>3. Len(s) = n
    BY <2>2
  <2> QED
    BY <2>1, <2>3, EmptySeq
<1>2. CASE n % 2 = 1
  <2>1. half + 1 \in 1..n
    BY <1>2
  <2>2. PICK i \in 1..n : E!Ranked(s, half + 1) = s[i]
    BY <2>1, RankedIsAValue
  <2>3. E!Median(s) = s[i]
    BY <1>1, <1>2, <2>2 DEF E!Median
  <2>4. s[i] \in Nat
    OBVIOUS
  <2> QED
    BY <2>3, <2>4
<1>3. CASE n % 2 # 1
  <2>1. half \in 1..n /\ half + 1 \in 1..n
    BY <1>3
  <2>2. PICK i \in 1..n : E!Ranked(s, half) = s[i]
    BY <2>1, RankedIsAValue
  <2>3. PICK j \in 1..n : E!Ranked(s, half + 1) = s[j]
    BY <2>1, RankedIsAValue
  <2>4. E!Median(s) = (s[i] + s[j]) \div 2
    BY <1>1, <1>3, <2>2, <2>3 DEF E!Median
  <2>5. s[i] \in Nat /\ s[j] \in Nat
    OBVIOUS
  <2>6. \A a, b \in Nat : /\ (a + b) \div 2 \in Nat
                          /\ a <= (a + b) \div 2 \/ b <= (a + b) \div 2
                          /\ (a + b) \div 2 <= a \/ (a + b) \div 2 <= b
    OBVIOUS
  <2> QED
    BY <2>4, <2>5, <2>6
<1> QED
  BY <1>2, <1>3

-----------------------------------------------------------------------------
(* Windows: sequences of readings, the newest last. *)
Reading == [power : Powers, ago : Nat]
InOrder(w) == \A i, j \in 1..Len(w) : i <= j => w[j].ago <= w[i].ago

LEMMA ReadingFacts ==
  ASSUME NEW w \in Seq(Reading)
  PROVE  /\ Len(w) \in Nat /\ DOMAIN w = 1..Len(w)
         /\ \A i \in 1..Len(w) : w[i] \in Reading /\ w[i].ago \in Nat /\ w[i].power \in Nat
<1>1. Len(w) \in Nat /\ DOMAIN w = 1..Len(w)
  BY LenProperties
<1>2. \A i \in 1..Len(w) : w[i] \in Reading
  BY ElementOfSeq
<1>3. Powers \subseteq Nat
  BY StoresAssumption DEF E!RulesConstants
<1> QED
  BY <1>1, <1>2, <1>3 DEF Reading

(* What is selected are the last ones, from the first that is not too old. *)
LEMMA WithinFacts ==
  ASSUME NEW w \in Seq(Reading), InOrder(w), NEW most \in Nat
  PROVE  LET v == E!Within(w, most) IN
         /\ v \in Seq(Reading)
         /\ InOrder(v)
         /\ \E k \in 0..Len(w) :
               /\ Len(v) = Len(w) - k
               /\ \A i \in 1..Len(v) : v[i] = w[i + k]
               /\ \A i \in 1..Len(w) : w[i].ago <= most <=> i > k
<1> DEFINE v == E!Within(w, most)
           recent == {i \in DOMAIN w : w[i].ago <= most}
<1>1. /\ Len(w) \in Nat /\ DOMAIN w = 1..Len(w)
      /\ \A i \in 1..Len(w) : w[i] \in Reading /\ w[i].ago \in Nat
  BY ReadingFacts
<1>2. CASE recent = {}
  <2>1. v = <<>>
    BY <1>2 DEF E!Within
  <2>2. v \in Seq(Reading) /\ Len(v) = 0
    BY <2>1, EmptySeq
  <2>3. \A i \in 1..Len(w) : ~(w[i].ago <= most) /\ ~(i > Len(w))
    BY <1>1, <1>2
  <2> HIDE DEF v
  <2>4. Len(w) \in 0..Len(w) /\ Len(v) = Len(w) - Len(w) /\ 1..Len(v) = {}
    BY <1>1, <2>2
  <2>5. InOrder(v)
    BY <2>4 DEF InOrder
  <2>6. \E k \in 0..Len(w) : /\ Len(v) = Len(w) - k
                             /\ \A i \in 1..Len(v) : v[i] = w[i + k]
                             /\ \A i \in 1..Len(w) : w[i].ago <= most <=> i > k
    BY <2>3, <2>4
  <2> QED
    BY <2>2, <2>5, <2>6 DEF v
<1>3. CASE recent # {}
  <2> DEFINE m == E!Min(recent)
  <2>1. recent \in SUBSET Nat
    BY <1>1
  <2>2. m \in recent /\ \A i \in recent : m <= i
    <3> HIDE DEF recent
    <3> QED
      BY <1>3, <2>1, LeastIsMin
  <2>3. m \in 1..Len(w) /\ w[m].ago <= most
    BY <1>1, <2>2
  <2>4. v = SubSeq(w, m, Len(w))
    BY <1>3 DEF E!Within
  <2> HIDE DEF m, v
  <2>5. /\ v \in Seq(Reading) /\ Len(v) = Len(w) - (m - 1)
        /\ \A i \in 1..Len(v) : v[i] = w[i + (m - 1)]
    <3>1. \A i \in m..Len(w) : w[i] \in Reading
      BY <1>1, <2>3
    <3>2. /\ SubSeq(w, m, Len(w)) \in Seq(Reading)
          /\ Len(SubSeq(w, m, Len(w))) = IF m <= Len(w) THEN Len(w) - m + 1 ELSE 0
          /\ \A i \in 1..(Len(w) - m + 1) : SubSeq(w, m, Len(w))[i] = w[m + i - 1]
      BY <1>1, <2>3, <3>1, SubSeqProperties
    <3>3. Len(v) = Len(w) - (m - 1)
      BY <1>1, <2>3, <2>4, <3>2
    <3>4. ASSUME NEW i \in 1..Len(v) PROVE v[i] = w[i + (m - 1)]
      <4>1. i \in 1..(Len(w) - m + 1) /\ m + i - 1 = i + (m - 1)
        BY <1>1, <2>3, <3>3
      <4> QED
        BY <2>4, <3>2, <4>1
    <3> QED
      BY <2>4, <3>2, <3>3, <3>4
  <2>6. ASSUME NEW i \in 1..Len(w) PROVE w[i].ago <= most <=> i > m - 1
    <3>1. CASE i < m
      BY <1>1, <2>2, <2>3, <3>1
    <3>2. CASE i >= m
      <4>1. w[i].ago <= w[m].ago
        BY <2>3, <3>2 DEF InOrder
      <4> QED
        BY <1>1, <2>3, <3>2, <4>1
    <3> QED
      BY <2>3, <3>1, <3>2
  <2>7. InOrder(v)
    <3> SUFFICES ASSUME NEW i \in 1..Len(v), NEW j \in 1..Len(v), i <= j
                 PROVE  v[j].ago <= v[i].ago
      BY DEF InOrder
    <3>1. i + (m - 1) \in 1..Len(w) /\ j + (m - 1) \in 1..Len(w)
          /\ i + (m - 1) <= j + (m - 1)
      BY <1>1, <2>3, <2>5
    <3>2. w[j + (m - 1)].ago <= w[i + (m - 1)].ago
      BY <3>1 DEF InOrder
    <3> QED
      BY <2>5, <3>2
  <2>8. m - 1 \in 0..Len(w)
    BY <1>1, <2>3
  <2> QED
    BY <2>5, <2>6, <2>7, <2>8 DEF v
<1> QED
  BY <1>2, <1>3

ReadingsOf(w) == {w[i] : i \in 1..Len(w)}

(* The readings that are selected, and the newest one among them. *)
LEMMA WithinReadings ==
  ASSUME NEW w \in Seq(Reading), InOrder(w), NEW most \in Nat
  PROVE  LET v == E!Within(w, most) IN
         /\ v \in Seq(Reading) /\ InOrder(v)
         /\ ReadingsOf(v) = {r \in ReadingsOf(w) : r.ago <= most}
         /\ Len(w) > 0 /\ w[Len(w)].ago <= most => Len(v) > 0 /\ v[Len(v)] = w[Len(w)]
<1> DEFINE v == E!Within(w, most)
<1>1. /\ v \in Seq(Reading) /\ InOrder(v)
      /\ \E k \in 0..Len(w) : /\ Len(v) = Len(w) - k
                              /\ \A i \in 1..Len(v) : v[i] = w[i + k]
                              /\ \A i \in 1..Len(w) : w[i].ago <= most <=> i > k
  BY WithinFacts
<1> HIDE DEF v
<1>2. PICK k \in 0..Len(w) : /\ Len(v) = Len(w) - k
                             /\ \A i \in 1..Len(v) : v[i] = w[i + k]
                             /\ \A i \in 1..Len(w) : w[i].ago <= most <=> i > k
  BY <1>1
<1>3. Len(w) \in Nat /\ Len(v) \in Nat
  BY <1>1, ReadingFacts
<1>4. ASSUME NEW r, r \in ReadingsOf(v) PROVE r \in ReadingsOf(w) /\ r.ago <= most
  <2>1. PICK i \in 1..Len(v) : r = v[i]
    BY <1>4 DEF ReadingsOf
  <2>2. i + k \in 1..Len(w) /\ i + k > k
    BY <1>2, <1>3
  <2> QED
    BY <1>2, <2>1, <2>2 DEF ReadingsOf
<1>5. ASSUME NEW r, r \in ReadingsOf(w), r.ago <= most PROVE r \in ReadingsOf(v)
  <2>1. PICK i \in 1..Len(w) : r = w[i]
    BY <1>5 DEF ReadingsOf
  <2>2. i > k
    BY <1>2, <1>5, <2>1
  <2>3. i - k \in 1..Len(v) /\ (i - k) + k = i
    BY <1>2, <1>3, <2>2
  <2> QED
    BY <1>2, <2>1, <2>3 DEF ReadingsOf
<1>6. ASSUME Len(w) > 0, w[Len(w)].ago <= most PROVE Len(v) > 0 /\ v[Len(v)] = w[Len(w)]
  <2>1. Len(w) > k
    BY <1>2, <1>3, <1>6
  <2>2. Len(v) \in 1..Len(v) /\ Len(v) + k = Len(w)
    BY <1>2, <1>3, <2>1
  <2> QED
    BY <1>2, <1>3, <2>2
<1>7. ReadingsOf(v) = {r \in ReadingsOf(w) : r.ago <= most}
  BY <1>4, <1>5
<1> QED
  BY <1>1, <1>6, <1>7 DEF v

(* The median of recent readings: a number; no larger than all of them; no
   smaller than each. *)
LEMMA MedianOfFacts ==
  ASSUME NEW w \in Seq(Reading), InOrder(w), NEW most \in Nat
  PROVE  /\ E!MedianOf(w, most) \in Nat
         /\ \A high \in Nat :
                (\A r \in ReadingsOf(w) : r.ago <= most => r.power <= high)
                    => E!MedianOf(w, most) <= high
         /\ \A high \in Nat :
                /\ \E r \in ReadingsOf(w) : r.ago <= most
                /\ \A r \in ReadingsOf(w) : r.ago <= most => r.power > high
                => E!MedianOf(w, most) > high
<1> DEFINE v == E!Within(w, most)
           f == [i \in DOMAIN v |-> v[i].power]
<1>1. v \in Seq(Reading) /\ ReadingsOf(v) = {r \in ReadingsOf(w) : r.ago <= most}
  BY WithinReadings
<1>2. E!MedianOf(w, most) = E!Median(f)
  BY DEF E!MedianOf
<1> HIDE DEF v
<1>3. /\ Len(v) \in Nat /\ f \in [1..Len(v) -> Nat]
      /\ \A i \in 1..Len(v) : f[i] = v[i].power /\ v[i] \in ReadingsOf(v)
  BY <1>1, ReadingFacts DEF ReadingsOf
<1> HIDE DEF f
<1>4. CASE Len(v) = 0
  <2>1. f = <<>>
    <3>1. f \in Seq(Nat)
      BY <1>3, SeqDef
    <3>2. DOMAIN f = {} /\ DOMAIN f = 1..Len(f) /\ Len(f) \in Nat
      BY <1>3, <1>4, <3>1, LenProperties
    <3>3. ~(Len(f) \in Nat \ {0})
      BY <3>2
    <3> QED
      BY <3>1, <3>3, EmptySeq
  <2>2. E!Median(f) = 0
    BY <2>1 DEF E!Median
  <2>3. ReadingsOf(v) = {}
    BY <1>4 DEF ReadingsOf
  <2> QED
    BY <1>1, <1>2, <2>2, <2>3
<1>5. CASE Len(v) # 0
  <2>1. /\ E!Median(f) \in Nat
        /\ \E i \in 1..Len(v) : f[i] <= E!Median(f)
        /\ \E i \in 1..Len(v) : E!Median(f) <= f[i]
    BY <1>3, <1>5, MedianIsBetween
  <2>2. PICK i \in 1..Len(v), j \in 1..Len(v) : f[i] <= E!Median(f) /\ E!Median(f) <= f[j]
    BY <2>1
  <2>3. /\ v[i] \in ReadingsOf(w) /\ v[i].ago <= most /\ v[i].power = f[i] /\ f[i] \in Nat
        /\ v[j] \in ReadingsOf(w) /\ v[j].ago <= most /\ v[j].power = f[j] /\ f[j] \in Nat
    BY <1>1, <1>3
  <2>4. ASSUME NEW high \in Nat, \A r \in ReadingsOf(w) : r.ago <= most => r.power <= high
        PROVE  E!Median(f) <= high
    <3>1. f[j] <= high
      BY <2>3, <2>4
    <3> QED
      BY <2>1, <2>2, <2>3, <3>1
  <2>5. ASSUME NEW high \in Nat, \A r \in ReadingsOf(w) : r.ago <= most => r.power > high
        PROVE  E!Median(f) > high
    <3>1. f[i] > high
      BY <2>3, <2>5
    <3> QED
      BY <2>1, <2>2, <2>3, <3>1
  <2> QED
    BY <1>2, <2>1, <2>4, <2>5
<1> QED
  BY <1>3, <1>4, <1>5

(* What the code's constants are like. *)
LEMMA RulesFacts ==
  /\ Powers \subseteq Nat /\ 0 \in Powers
  /\ {MaxGap, HoldTime, StartHold} \subseteq Nat \ {0}
  /\ {Fast, Slow, Assess, Recent, GraceTime, Recover, MinAge, Debounce} \subseteq Nat
  /\ Fast <= Slow /\ Recent <= Slow /\ GraceTime < Assess
  /\ 0 < Recover /\ Recover <= Recent /\ 2 * Recover <= Assess
  BY StoresAssumption DEF E!RulesConstants

(* A window: readings in order, none older than it may be. *)
IsWindow(w) ==
    w \in Seq(Reading) /\ InOrder(w) /\ \A r \in ReadingsOf(w) : r.ago <= Assess

LEMMA WithinIsWindow ==
  ASSUME NEW w, IsWindow(w), NEW most \in Nat
  PROVE  IsWindow(E!Within(w, most))
  BY WithinReadings DEF IsWindow

(* The window grows older ... *)
LEMMA AgedFacts ==
  ASSUME IsWindow(window), NEW gap \in Nat
  PROVE  LET v == E!Aged(gap) IN
         /\ IsWindow(v)
         /\ \A r \in ReadingsOf(v) : \E q \in ReadingsOf(window) :
                r.power = q.power /\ r.ago = q.ago + gap
         /\ \A q \in ReadingsOf(window) : q.ago + gap <= Assess =>
                \E r \in ReadingsOf(v) : r.power = q.power /\ r.ago = q.ago + gap
<1> DEFINE old == [i \in DOMAIN window |-> [window[i] EXCEPT !.ago = @ + gap]]
           v == E!Within(old, Assess)
<1>1. /\ Len(window) \in Nat /\ DOMAIN window = 1..Len(window)
      /\ \A i \in 1..Len(window) : window[i] \in Reading /\ window[i].ago \in Nat
  BY ReadingFacts DEF IsWindow
<1>2. \A i \in 1..Len(window) : /\ old[i] \in Reading
                                /\ old[i].power = window[i].power
                                /\ old[i].ago = window[i].ago + gap
  BY <1>1 DEF Reading
<1>3. old \in Seq(Reading) /\ Len(old) = Len(window)
  <2>1. DOMAIN old = 1..Len(window)
    BY <1>1
  <2>2. old \in [1..Len(window) -> Reading]
    <3>1. old = [i \in 1..Len(window) |-> old[i]]
      BY <1>1
    <3> HIDE DEF old
    <3> QED
      BY <1>2, <3>1
  <2> HIDE DEF old
  <2>3. old \in Seq(Reading)
    BY <1>1, <2>2, SeqDef
  <2>4. Len(old) \in Nat /\ DOMAIN old = 1..Len(old)
    BY <2>3, LenProperties
  <2> QED
    BY <1>1, <2>1, <2>3, <2>4
<1> HIDE DEF old
<1>4. InOrder(old)
  <2> SUFFICES ASSUME NEW i \in 1..Len(window), NEW j \in 1..Len(window), i <= j
               PROVE  old[j].ago <= old[i].ago
    BY <1>3 DEF InOrder
  <2>1. window[j].ago <= window[i].ago
    BY DEF IsWindow, InOrder
  <2> QED
    BY <1>1, <1>2, <2>1
<1>5. Assess \in Nat
  BY RulesFacts
<1>6. v \in Seq(Reading) /\ InOrder(v) /\ ReadingsOf(v) = {r \in ReadingsOf(old) : r.ago <= Assess}
  BY <1>3, <1>4, <1>5, WithinReadings
<1>7. E!Aged(gap) = v
  BY DEF E!Aged, old
<1> HIDE DEF v
<1>8. ASSUME NEW r \in ReadingsOf(v)
      PROVE  \E q \in ReadingsOf(window) : r.power = q.power /\ r.ago = q.ago + gap
  <2>1. r \in ReadingsOf(old)
    BY <1>6
  <2>2. PICK i \in 1..Len(window) : r = old[i]
    BY <1>3, <2>1 DEF ReadingsOf
  <2>3. window[i] \in ReadingsOf(window)
    BY DEF ReadingsOf
  <2> QED
    BY <1>2, <2>2, <2>3
<1>9. ASSUME NEW q \in ReadingsOf(window), q.ago + gap <= Assess
      PROVE  \E r \in ReadingsOf(v) : r.power = q.power /\ r.ago = q.ago + gap
  <2>1. PICK i \in 1..Len(window) : q = window[i]
    BY DEF ReadingsOf
  <2>2. old[i] \in ReadingsOf(old) /\ old[i].ago <= Assess
    BY <1>2, <1>3, <1>9, <2>1 DEF ReadingsOf
  <2> QED
    BY <1>2, <1>6, <2>1, <2>2
<1>10. IsWindow(v)
  BY <1>6 DEF IsWindow
<1> QED
  BY <1>7, <1>8, <1>9, <1>10

(* ... and gets a new reading. *)
FedRight(w, gap, p) ==
    /\ IsWindow(w)
    /\ Len(w) > 0 /\ w[Len(w)].power = p /\ w[Len(w)].ago = 0
    /\ \A r \in ReadingsOf(w) :
           \/ r.power = p /\ r.ago = 0
           \/ \E q \in ReadingsOf(window) : r.power = q.power /\ r.ago = q.ago + gap
    /\ \A q \in ReadingsOf(window) : q.ago + gap <= Assess =>
           \E r \in ReadingsOf(w) : r.power = q.power /\ r.ago = q.ago + gap

LEMMA FedFacts ==
  ASSUME IsWindow(window), NEW gap \in Nat, NEW p \in Powers
  PROVE  FedRight(E!Fed(gap, p), gap, p)
<1> DEFINE v == E!Aged(gap)
           new == [power |-> p, ago |-> 0]
           w == Append(v, new)
<1>1. /\ v \in Seq(Reading) /\ InOrder(v) /\ \A r \in ReadingsOf(v) : r.ago <= Assess
      /\ \A r \in ReadingsOf(v) : \E q \in ReadingsOf(window) :
             r.power = q.power /\ r.ago = q.ago + gap
      /\ \A q \in ReadingsOf(window) : q.ago + gap <= Assess =>
             \E r \in ReadingsOf(v) : r.power = q.power /\ r.ago = q.ago + gap
  BY AgedFacts DEF IsWindow
<1>2. E!Fed(gap, p) = w
  BY DEF E!Fed
<1>3. new \in Reading /\ new.power = p /\ new.ago = 0
  BY DEF Reading
<1> HIDE DEF v, new
<1>4. /\ w \in Seq(Reading) /\ Len(w) = Len(v) + 1
      /\ \A i \in 1..Len(v) : w[i] = v[i]
      /\ w[Len(v) + 1] = new
  BY <1>1, <1>3, AppendProperties
<1>5. /\ Len(v) \in Nat
      /\ \A i \in 1..Len(v) : v[i].ago \in Nat
  BY <1>1, ReadingFacts
<1> HIDE DEF w
<1>6. \A i \in 1..Len(w) : (i \in 1..Len(v) /\ w[i] = v[i]) \/ (i = Len(v) + 1 /\ w[i] = new)
  BY <1>4, <1>5
<1>7. InOrder(w)
  <2> SUFFICES ASSUME NEW i \in 1..Len(w), NEW j \in 1..Len(w), i <= j
               PROVE  w[j].ago <= w[i].ago
    BY DEF InOrder
  <2>1. CASE j \in 1..Len(v)
    <3>1. i \in 1..Len(v)
      BY <1>5, <2>1
    <3> QED
      BY <1>1, <1>4, <2>1, <3>1 DEF InOrder
  <2>2. CASE j = Len(v) + 1
    BY <1>3, <1>4, <1>5, <1>6, <2>2
  <2> QED
    BY <1>6, <2>1, <2>2
<1>8. ReadingsOf(w) = ReadingsOf(v) \cup {new}
  <2>1. Len(v) + 1 \in 1..Len(w) /\ \A i \in 1..Len(v) : i \in 1..Len(w)
    BY <1>4, <1>5
  <2> QED
    BY <1>4, <1>6, <2>1 DEF ReadingsOf
<1>9. Assess \in Nat
  BY RulesFacts
<1>10. IsWindow(w)
  BY <1>1, <1>3, <1>4, <1>7, <1>8, <1>9 DEF IsWindow
<1>11. Len(w) > 0 /\ w[Len(w)] = new
  BY <1>4, <1>5
<1>12. /\ \A r \in ReadingsOf(w) :
              \/ r.power = p /\ r.ago = 0
              \/ \E q \in ReadingsOf(window) : r.power = q.power /\ r.ago = q.ago + gap
       /\ \A q \in ReadingsOf(window) : q.ago + gap <= Assess =>
              \E r \in ReadingsOf(w) : r.power = q.power /\ r.ago = q.ago + gap
  BY <1>1, <1>3, <1>8
<1> QED
  BY <1>2, <1>3, <1>10, <1>11, <1>12 DEF FedRight

-----------------------------------------------------------------------------
(* recovery_sec. *)

(* Nothing high among the recent readings: no recovery. *)
LEMMA NoRecovery ==
  ASSUME NEW w \in Seq(Reading), NEW bar,
         \A r \in ReadingsOf(w) : r.ago <= Recent => ~(r.power > bar)
  PROVE  E!RecoverySec(w, bar) = 0
<1> DEFINE f == E!RunLengths(w, bar)
           V == {0} \cup {f[i] : i \in DOMAIN w}
<1>1. /\ Len(w) \in Nat /\ DOMAIN w = 1..Len(w)
      /\ \A i \in 1..Len(w) : w[i] \in Reading /\ w[i].ago \in Nat
  BY ReadingFacts
<1>2. ASSUME NEW i \in DOMAIN w PROVE f[i] = 0
  <2> DEFINE first == {j \in 1..i : w[j].ago <= Recent}
             run == {j \in first : \A k \in j..i : w[k].power > bar}
  <2>1. run = {}
    <3> SUFFICES ASSUME NEW j \in 1..i, w[j].ago <= Recent, w[j].power > bar PROVE FALSE
      BY <1>1
    <3>1. w[j] \in ReadingsOf(w)
      BY <1>1 DEF ReadingsOf
    <3> QED
      BY <3>1
  <2>2. f[i] = w[i].ago - w[i].ago
    BY <2>1 DEF E!RunLengths
  <2> QED
    BY <1>1, <2>2
<1>3. V = {0}
  BY <1>2
<1>4. E!Max({0}) = 0
  BY MaxFacts
<1> QED
  BY <1>3, <1>4 DEF E!RecoverySec

(* A run of high readings, up to the i-th, from the s-th on. *)
RunFrom(w, bar, i, s) == w[s].ago <= Recent /\ \A k \in s..i : w[k].power > bar

(* A run is as long as the time between two readings. *)
LEMMA RunLengthFacts ==
  ASSUME NEW w, IsWindow(w), NEW bar, NEW i \in 1..Len(w)
  PROVE  /\ E!RunLengths(w, bar)[i] \in Nat
         /\ \A s \in 1..i :
                RunFrom(w, bar, i, s) /\ (\A j \in 1..i : RunFrom(w, bar, i, j) => s <= j)
                => E!RunLengths(w, bar)[i]
                       = w[IF s > 1 THEN s - 1 ELSE 1].ago - w[i].ago
<1> DEFINE first == {j \in 1..i : w[j].ago <= Recent}
           run == {j \in first : \A k \in j..i : w[k].power > bar}
           start == IF run = {} THEN i ELSE E!Max({E!Min(run) - 1, 1})
<1>1. /\ Len(w) \in Nat /\ DOMAIN w = 1..Len(w)
      /\ \A k \in 1..Len(w) : w[k].ago \in Nat
      /\ \A k, l \in 1..Len(w) : k <= l => w[l].ago <= w[k].ago
  BY ReadingFacts DEF IsWindow, InOrder
<1>2. E!RunLengths(w, bar)[i] = w[start].ago - w[i].ago
  BY <1>1 DEF E!RunLengths
<1>3. \A j : j \in run <=> j \in 1..i /\ RunFrom(w, bar, i, j)
  BY DEF RunFrom
<1>4. run \in SUBSET Nat
  OBVIOUS
<1> HIDE DEF run
<1>5. ASSUME run # {}
      PROVE  /\ E!Min(run) \in run /\ \A j \in run : E!Min(run) <= j
             /\ start = IF E!Min(run) > 1 THEN E!Min(run) - 1 ELSE 1
  <2> DEFINE m == E!Min(run)
  <2>1. m \in run /\ \A j \in run : m <= j
    BY <1>4, <1>5, LeastIsMin
  <2>2. m \in 1..i
    BY <1>3, <2>1
  <2> HIDE DEF m
  <2>3. E!Max({m - 1, 1}) = IF m > 1 THEN m - 1 ELSE 1
    BY <2>2, MaxOfTwo
  <2> QED
    BY <1>5, <2>1, <2>3 DEF m
<1> HIDE DEF start
<1>6. start \in 1..i
  <2>1. CASE run = {}
    BY <1>1, <2>1 DEF start
  <2>2. CASE run # {}
    <3>1. E!Min(run) \in 1..i
      BY <1>3, <1>5, <2>2
    <3> QED
      BY <1>1, <1>5, <2>2, <3>1
  <2> QED
    BY <2>1, <2>2
<1>7. E!RunLengths(w, bar)[i] \in Nat
  <2>1. start \in 1..Len(w) /\ start <= i
    BY <1>1, <1>6
  <2>2. w[i].ago <= w[start].ago /\ w[i].ago \in Nat /\ w[start].ago \in Nat
    BY <1>1, <2>1
  <2> QED
    BY <1>2, <2>2
<1>8. ASSUME NEW s \in 1..i, RunFrom(w, bar, i, s),
             \A j \in 1..i : RunFrom(w, bar, i, j) => s <= j
      PROVE  E!RunLengths(w, bar)[i] = w[IF s > 1 THEN s - 1 ELSE 1].ago - w[i].ago
  <2>1. s \in run
    BY <1>3, <1>8
  <2>2. \A j \in run : j \in 1..i /\ s <= j
    BY <1>3, <1>8
  <2>3. E!Min(run) \in run /\ E!Min(run) <= s
    BY <1>5, <2>1
  <2>4. E!Min(run) = s
    BY <2>2, <2>3
  <2>5. start = IF s > 1 THEN s - 1 ELSE 1
    BY <1>5, <2>1, <2>4
  <2> QED
    BY <1>2, <2>5
<1> QED
  BY <1>7, <1>8

(* Every reading of the last RECOVER_SEC is high, and there are older ones or
   one that is just as old: recovery is noticed. *)
LEMMA RunIsSeen ==
  ASSUME NEW w, IsWindow(w), Len(w) > 0, w[Len(w)].ago = 0, NEW bar,
         \A r \in ReadingsOf(w) : r.ago <= Recover => r.power > bar,
         \E r \in ReadingsOf(w) : r.ago >= Recover
  PROVE  E!RecoverySec(w, bar) >= Recover
<1> DEFINE n == Len(w)
           High(j) == \A k \in j..n : w[k].power > bar
           run == {j \in 1..n : w[j].ago <= Recent /\ High(j)}
<1>1. /\ n \in Nat \ {0} /\ DOMAIN w = 1..n
      /\ \A i \in 1..n : w[i].ago \in Nat /\ w[i] \in ReadingsOf(w)
      /\ \A i, j \in 1..n : i <= j => w[j].ago <= w[i].ago
  BY ReadingFacts DEF IsWindow, InOrder, ReadingsOf
<1>2. Recover \in Nat /\ Recent \in Nat /\ Recover <= Recent
  BY RulesFacts
<1>3. \A i \in 1..n : w[i].ago <= Recover => w[i].power > bar
  BY <1>1
<1>4. PICK o \in 1..n : w[o].ago >= Recover
  BY DEF ReadingsOf
<1>5. High(n)
  <2>1. n \in 1..n /\ w[n].power > bar /\ \A k \in n..n : k = n
    BY <1>1, <1>2, <1>3
  <2> QED
    BY <2>1
<1>6. ASSUME NEW j \in 1..n, j > 1, High(j), w[j - 1].power > bar PROVE High(j - 1)
  <2>1. \A k \in (j - 1)..n : k = j - 1 \/ k \in j..n
    BY <1>1
  <2> QED
    BY <1>6, <2>1
<1> HIDE DEF High
<1>7. PICK s \in run : \A j \in run : s <= j
  <2>1. run \in SUBSET Nat /\ n \in run
    BY <1>1, <1>2, <1>5
  <2> HIDE DEF run
  <2> QED
    BY <2>1, LeastNumber
<1>8. s \in 1..n /\ w[s].ago <= Recent /\ High(s)
  BY <1>7
<1>9. ASSUME s > 1 PROVE w[s - 1].ago > Recover \/ w[s - 1].ago >= Recover
  <2>1. s - 1 \in 1..n /\ s - 1 \notin run
    BY <1>1, <1>7, <1>8, <1>9
  <2>2. ~(w[s - 1].ago <= Recent) \/ ~High(s - 1)
    BY <2>1
  <2>3. ~(w[s - 1].ago <= Recent) \/ ~(w[s - 1].power > bar)
    BY <1>6, <1>8, <1>9, <2>2
  <2> QED
    BY <1>1, <1>2, <1>3, <2>1, <2>3
<1>10. w[IF s > 1 THEN s - 1 ELSE 1].ago >= Recover
  <2>1. CASE s > 1
    BY <1>1, <1>2, <1>8, <1>9, <2>1
  <2>2. CASE ~(s > 1)
    <3>1. 1 \in 1..n /\ 1 <= o
      BY <1>1
    <3>2. w[o].ago <= w[1].ago
      BY <1>1, <3>1
    <3> QED
      BY <1>1, <1>2, <1>4, <2>2, <3>1, <3>2
  <2> QED
    BY <2>1, <2>2
<1>11. E!RunLengths(w, bar)[n] = w[IF s > 1 THEN s - 1 ELSE 1].ago - w[n].ago
  <2>1. n \in 1..Len(w) /\ s \in 1..n
    BY <1>1, <1>8
  <2>2. RunFrom(w, bar, n, s) /\ \A j \in 1..n : RunFrom(w, bar, n, j) => s <= j
    BY <1>7 DEF RunFrom, High
  <2> HIDE DEF n
  <2> QED
    BY <2>1, <2>2, RunLengthFacts
<1>12. E!RunLengths(w, bar)[n] >= Recover
  <2>1. s \in Nat /\ (IF s > 1 THEN s - 1 ELSE 1) \in 1..n
    BY <1>1, <1>8
  <2> QED
    BY <1>1, <1>2, <1>10, <1>11, <2>1
<1> DEFINE f == [i \in 1..(n + 1) |-> IF i <= n THEN E!RunLengths(w, bar)[i] ELSE 0]
           V == {0} \cup {E!RunLengths(w, bar)[i] : i \in DOMAIN w}
<1>13. f \in [1..(n + 1) -> Nat]
  BY <1>1, RunLengthFacts
<1>14. V = {f[j] : j \in 1..(n + 1)}
  <2>1. \A i \in 1..n : i \in 1..(n + 1) /\ f[i] = E!RunLengths(w, bar)[i]
    BY <1>1
  <2>2. n + 1 \in 1..(n + 1) /\ f[n + 1] = 0
    BY <1>1
  <2>3. \A j \in 1..(n + 1) : j \in 1..n \/ j = n + 1
    BY <1>1
  <2> HIDE DEF f, n
  <2> QED
    BY <1>1, <2>1, <2>2, <2>3
<1>15. f[n] <= E!Max({f[j] : j \in 1..(n + 1)})
  <2>1. n + 1 \in Nat \ {0} /\ n \in 1..(n + 1)
    BY <1>1
  <2> HIDE DEF f
  <2> QED
    BY <1>13, <2>1, MaxOfMany
<1>16. f[n] >= Recover /\ f[n] \in Nat
  BY <1>1, <1>12, <1>13
<1>17. E!RecoverySec(w, bar) = E!Max(V)
  BY DEF E!RecoverySec
<1>18. E!Max(V) \in Nat
  <2>1. n + 1 \in Nat \ {0}
    BY <1>1
  <2> HIDE DEF f
  <2>2. \E j \in 1..(n + 1) : E!Max({f[i] : i \in 1..(n + 1)}) = f[j]
    BY <1>13, <2>1, MaxOfMany
  <2> QED
    BY <1>13, <1>14, <2>2
<1> HIDE DEF f, V
<1> QED
  BY <1>2, <1>14, <1>15, <1>16, <1>17, <1>18

-----------------------------------------------------------------------------
(* The invariant of SessionRules. *)

RuleTypes ==
    /\ IsWindow(window)
    /\ peak \in Nat /\ grace \in Nat /\ eval \in Nat /\ restart \in Nat
    /\ age \in Nat /\ top \in Nat /\ calm \in Nat
    /\ hold \in Nat \cup {-1} /\ above \in Nat \cup {-1} /\ idle \in Nat \cup {-1}
    /\ tail \in Nat \cup {-1} /\ strong \in Nat \cup {-1}
    /\ post \in BOOLEAN /\ charging \in BOOLEAN /\ enough \in BOOLEAN
    /\ residual \in BOOLEAN /\ judged \in BOOLEAN

(* While a device draws next to nothing every reading is low, and once the
   long median has followed the hold has gone on ever since. *)
TailIsHeld ==
    tail # -1 =>
        /\ charging /\ enough /\ age >= MinAge /\ tail < E!FullBy
        /\ \A r \in ReadingsOf(window) : r.ago <= tail => r.power <= E!Threshold(peak)
        /\ tail >= Slow => hold # -1 /\ tail <= hold + Slow + MaxGap - 1

(* While it charges in earnest every reading is high, and the first one is in
   the window unless the window was cut behind it. *)
EarnestIn(w, time) ==
    time # -1 =>
        /\ time <= Recover
        /\ \A r \in ReadingsOf(w) : r.ago <= time => r.power > 500
        /\ time < Recover => \/ \E r \in ReadingsOf(w) : r.ago = time
                            \/ \A r \in ReadingsOf(w) : r.ago < time

StrongIsSeen == EarnestIn(window, strong)

(* The hold has not gone on for longer than there was no charge in earnest, and
   one that has begun will be seen. *)
HoldIsCalm ==
    charging /\ hold # -1 =>
        /\ hold <= HoldTime /\ hold <= calm
        /\ \E r \in ReadingsOf(window) : r.ago = 0
        /\ strong # -1 => strong < Recover /\ \E r \in ReadingsOf(window) : r.ago = strong

(* A residue: the threshold is raised, and no reading reaches it. *)
ResidueIsLow ==
    residual =>
        /\ ~charging /\ post
        /\ \A r \in ReadingsOf(window) : r.power < 50 \/ r.power < restart

RulesInv ==
    /\ RuleTypes /\ TailIsHeld /\ StrongIsSeen /\ HoldIsCalm /\ ResidueIsLow
    /\ E!ConvergedIsCalm

LEMMA RulesInit == Init => RulesInv
<1> SUFFICES ASSUME E!Init PROVE RulesInv
  BY DEF Init
<1>1. window = <<>> /\ <<>> \in Seq(Reading) /\ Len(<<>>) = 0
  BY EmptySeq DEF E!Init
<1>2. Len(window) = 0 /\ window \in Seq(Reading)
  BY <1>1
<1>3. ReadingsOf(window) = {} /\ InOrder(window)
  BY <1>2 DEF ReadingsOf, InOrder
<1>4. RuleTypes
  BY <1>2, <1>3 DEF E!Init, E!Never, RuleTypes, IsWindow
<1> QED
  BY <1>3, <1>4 DEF E!Init, E!Never, RulesInv, TailIsHeld, StrongIsSeen, EarnestIn,
                    HoldIsCalm, ResidueIsLow, E!ConvergedIsCalm

LEMMA RulesFed ==
  ASSUME RuleTypes, NEW gap \in Nat, NEW p \in Powers
  PROVE  FedRight(E!Fed(gap, p), gap, p)
<1>1. IsWindow(window)
  BY DEF RuleTypes
<1> QED
  BY <1>1, FedFacts

(* v keeps the newest readings of w. *)
KeepsNewest(v, w) ==
    /\ ReadingsOf(v) \subseteq ReadingsOf(w)
    /\ \A r \in ReadingsOf(w), q \in ReadingsOf(v) : r.ago <= q.ago => r \in ReadingsOf(v)

LEMMA WindowNumbers ==
  ASSUME NEW w, IsWindow(w), NEW r \in ReadingsOf(w)
  PROVE  r.ago \in Nat /\ r.power \in Nat /\ r.ago <= Assess
  BY ReadingFacts DEF IsWindow, ReadingsOf

LEMMA NewestReading ==
  ASSUME NEW w, IsWindow(w), Len(w) > 0
  PROVE  w[Len(w)] \in ReadingsOf(w)
<1>1. Len(w) \in 1..Len(w)
  BY ReadingFacts DEF IsWindow
<1> QED
  BY <1>1 DEF ReadingsOf

(* What the history keeps of charging in earnest. *)
StrongNext(gap, p) ==
    IF p <= 500 THEN -1 ELSE IF strong = -1 THEN 0 ELSE E!Min({strong + gap, Recover})

(* After the next reading: of the window that has it, and of any that keeps its
   newest readings. *)
LEMMA EarnestNext ==
  ASSUME RuleTypes, StrongIsSeen, NEW gap \in 1..MaxGap, NEW p \in Powers
  PROVE  StrongNext(gap, p) \in Nat \cup {-1} /\ EarnestIn(E!Fed(gap, p), StrongNext(gap, p))
<1> DEFINE w == E!Fed(gap, p)
           time == StrongNext(gap, p)
<1>1. gap \in Nat \ {0} /\ p \in Nat /\ Recover \in Nat \ {0} /\ Assess \in Nat
      /\ 2 * Recover <= Assess
  BY RulesFacts
<1>2. /\ IsWindow(w) /\ Len(w) > 0 /\ w[Len(w)].power = p /\ w[Len(w)].ago = 0
      /\ \A r \in ReadingsOf(w) :
             \/ r.power = p /\ r.ago = 0
             \/ \E q \in ReadingsOf(window) : r.power = q.power /\ r.ago = q.ago + gap
      /\ \A q \in ReadingsOf(window) : q.ago + gap <= Assess =>
             \E r \in ReadingsOf(w) : r.power = q.power /\ r.ago = q.ago + gap
  <2>1. FedRight(w, gap, p)
    BY <1>1, RulesFed
  <2> HIDE DEF w
  <2> QED
    BY <2>1, Zenon DEF FedRight
<1>3. \E r \in ReadingsOf(w) : r.ago = 0
  BY <1>2, NewestReading
<1> HIDE DEF w
<1>4. \A r \in ReadingsOf(w) : r.ago \in Nat /\ r.power \in Nat
  BY <1>2, WindowNumbers
<1>5. \A q \in ReadingsOf(window) : q.ago \in Nat /\ q.power \in Nat
  BY WindowNumbers DEF RuleTypes
<1>6. CASE p <= 500
  BY <1>6 DEF StrongNext, EarnestIn
<1>7. CASE ~(p <= 500) /\ strong = -1
  <2>1. time = 0
    BY <1>7 DEF StrongNext
  <2> HIDE DEF time
  <2>2. \A r \in ReadingsOf(w) : r.ago <= 0 => r.power > 500
    BY <1>1, <1>2, <1>5, <1>7
  <2>3. EarnestIn(w, time)
    BY <1>1, <1>3, <2>1, <2>2 DEF EarnestIn
  <2> QED
    BY <2>1, <2>3 DEF time, w
<1>8. CASE ~(p <= 500) /\ strong # -1
  <2>1. strong \in Nat
    BY <1>8 DEF RuleTypes
  <2>2. time = IF strong + gap <= Recover THEN strong + gap ELSE Recover
    BY <1>1, <1>8, <2>1, MinOfTwo DEF StrongNext
  <2> HIDE DEF time
  <2>3. time <= Recover /\ time <= strong + gap /\ time \in Nat \ {0}
    BY <1>1, <2>1, <2>2
  <2>4. ASSUME NEW r \in ReadingsOf(w), r.ago <= time PROVE r.power > 500
    <3>1. CASE \E q \in ReadingsOf(window) : r.power = q.power /\ r.ago = q.ago + gap
      <4>1. PICK q \in ReadingsOf(window) : r.power = q.power /\ r.ago = q.ago + gap
        BY <3>1
      <4>2. q.ago <= strong
        BY <1>1, <1>5, <2>1, <2>3, <2>4, <4>1
      <4> QED
        BY <1>8, <4>1, <4>2 DEF StrongIsSeen, EarnestIn
    <3> QED
      BY <1>1, <1>2, <1>8, <3>1
  <2>5. ASSUME time < Recover
        PROVE  \/ \E r \in ReadingsOf(w) : r.ago = time
               \/ \A r \in ReadingsOf(w) : r.ago < time
    <3>1. time = strong + gap /\ strong < Recover
      BY <1>1, <2>1, <2>2, <2>5
    <3>2. CASE \E q \in ReadingsOf(window) : q.ago = strong
      BY <1>1, <1>2, <2>1, <2>5, <3>1, <3>2
    <3>3. CASE \A q \in ReadingsOf(window) : q.ago < strong
      BY <1>1, <1>2, <1>5, <2>1, <2>3, <3>1, <3>3
    <3> QED
      BY <1>8, <3>1, <3>2, <3>3 DEF StrongIsSeen, EarnestIn
  <2>6. EarnestIn(w, time)
    BY <2>3, <2>4, <2>5 DEF EarnestIn
  <2> QED
    BY <2>3, <2>6 DEF time, w
<1> QED
  BY <1>6, <1>7, <1>8

LEMMA EarnestKept ==
  ASSUME NEW w, IsWindow(w), NEW v, KeepsNewest(v, w), NEW time \in Nat \cup {-1},
         EarnestIn(w, time)
  PROVE  EarnestIn(v, time)
<1>1. ReadingsOf(v) \subseteq ReadingsOf(w)
  BY DEF KeepsNewest
<1>2. \A r \in ReadingsOf(w) : r.ago \in Nat
  BY WindowNumbers
<1>3. ASSUME NEW r \in ReadingsOf(w), r.ago = time, time \in Nat
      PROVE  \/ \E q \in ReadingsOf(v) : q.ago = time
             \/ \A q \in ReadingsOf(v) : q.ago < time
  BY <1>1, <1>2, <1>3 DEF KeepsNewest
<1> QED
  BY <1>1, <1>2, <1>3 DEF EarnestIn

(* An empty window keeps the newest readings of any. *)
LEMMA NoneKept ==
  ASSUME NEW w
  PROVE  IsWindow(<<>>) /\ ReadingsOf(<<>>) = {} /\ KeepsNewest(<<>>, w)
<1>1. <<>> \in Seq(Reading) /\ Len(<<>>) = 0
  BY EmptySeq
<1> DEFINE v == <<>>
<1>2. v \in Seq(Reading) /\ Len(v) = 0
  BY <1>1
<1> HIDE DEF v
<1>3. ReadingsOf(v) = {} /\ InOrder(v)
  BY <1>2 DEF ReadingsOf, InOrder
<1>4. IsWindow(v) /\ KeepsNewest(v, w)
  BY <1>2, <1>3 DEF IsWindow, KeepsNewest
<1> QED
  BY <1>3, <1>4 DEF v

(* What the detector makes of the next reading. *)
PeakNow(gap, p) == E!Max({peak, E!MedianOf(E!Fed(gap, p), Fast)})
HoldBefore(gap) == E!Later(hold, gap, HoldTime)
HeldNow(gap, p, ready) ==
    E!Holds(E!Fed(gap, p), PeakNow(gap, p), HoldBefore(gap), eval + gap, ready)

LEMMA DetectorNumbers ==
  ASSUME RuleTypes, NEW gap \in 1..MaxGap, NEW p \in Powers
  PROVE  /\ PeakNow(gap, p) \in Nat /\ peak <= PeakNow(gap, p)
         /\ hold = -1 => HoldBefore(gap) = -1
         /\ hold # -1 => HoldBefore(gap) =
                IF hold + gap <= HoldTime THEN hold + gap ELSE HoldTime
<1>1. gap \in Nat /\ HoldTime \in Nat /\ Fast \in Nat
  BY RulesFacts
<1>2. E!MedianOf(E!Fed(gap, p), Fast) \in Nat
  <2>1. FedRight(E!Fed(gap, p), gap, p)
    BY <1>1, RulesFed
  <2>2. E!Fed(gap, p) \in Seq(Reading) /\ InOrder(E!Fed(gap, p))
    BY <2>1 DEF FedRight, IsWindow
  <2> QED
    BY <1>1, <2>2, MedianOfFacts
<1>3. PeakNow(gap, p) \in Nat /\ peak <= PeakNow(gap, p)
  BY <1>2, MaxOfTwo DEF RuleTypes, PeakNow
<1>4. hold = -1 => HoldBefore(gap) = -1
  BY DEF HoldBefore, E!Later, E!Never
<1>5. ASSUME hold # -1
      PROVE  HoldBefore(gap) = IF hold + gap <= HoldTime THEN hold + gap ELSE HoldTime
  <2>1. hold \in Nat
    BY <1>5 DEF RuleTypes
  <2> QED
    BY <1>1, <1>5, <2>1, MinOfTwo DEF HoldBefore, E!Later, E!Never
<1> QED
  BY <1>3, <1>4, <1>5

(* Unless it has just begun, what is held was so before; and it is not when the
   device recovers, or when nothing is low for longer than the grace. *)
HoldsRight(w, highest, before, dt, ready) ==
    LET held == E!Holds(w, highest, before, dt, ready) IN
    /\ held.hold \in {-1, 0, before} /\ held.grace \in Nat
    /\ held.hold # -1 => /\ ~E!Recovered(w, highest)
                         /\ before = -1 => held.hold = 0 /\ E!Converged(w, highest)
                         /\ before # -1 => held.hold = before
                         /\ E!Converged(w, highest) \/ dt <= GraceTime
    /\ /\ ready /\ ~E!Recovered(w, highest) /\ E!Converged(w, highest)
       => held.hold = IF before = -1 THEN 0 ELSE before

LEMMA HoldsFacts ==
  ASSUME RuleTypes, NEW w, NEW highest, NEW before \in Nat \cup {-1}, NEW dt \in Nat,
         NEW ready
  PROVE  HoldsRight(w, highest, before, dt, ready)
<1> DEFINE held == E!Holds(w, highest, before, dt, ready)
<1>1. GraceTime \in Nat /\ grace \in Nat
  BY RulesFacts DEF RuleTypes
<1>2. CASE ~ready \/ E!Recovered(w, highest)
  <2>1. held = [hold |-> -1, grace |-> 0]
    BY <1>2 DEF E!Holds, E!Never
  <2> HIDE DEF held, HoldsRight
  <2> QED
    BY <1>2, <2>1 DEF held, HoldsRight
<1>3. CASE ~(~ready \/ E!Recovered(w, highest)) /\ E!Converged(w, highest)
  <2>1. held = IF before = -1 THEN [hold |-> 0, grace |-> 0]
                               ELSE [hold |-> before, grace |-> grace]
    BY <1>3, Zenon DEF E!Holds, E!Never
  <2> HIDE DEF held, HoldsRight
  <2> QED
    BY <1>1, <1>3, <2>1 DEF held, HoldsRight
<1>4. CASE ~(~ready \/ E!Recovered(w, highest)) /\ ~E!Converged(w, highest)
  <2>1. held = IF before = -1 THEN [hold |-> -1, grace |-> grace]
               ELSE IF grace + dt > GraceTime THEN [hold |-> -1, grace |-> 0]
               ELSE [hold |-> before, grace |-> grace + dt]
    BY <1>4, Zenon DEF E!Holds, E!Never
  <2> HIDE DEF held, HoldsRight
  <2>2. grace + dt \in Nat /\ (grace + dt > GraceTime \/ dt <= GraceTime)
    BY <1>1
  <2> QED
    BY <1>1, <1>4, <2>1, <2>2 DEF held, HoldsRight
<1> QED
  BY <1>2, <1>3, <1>4

(* Recovery is seen, as soon as the run of high readings is long enough. *)
LEMMA EarnestRecovers ==
  ASSUME NEW w, IsWindow(w), Len(w) > 0, w[Len(w)].ago = 0, NEW highest \in Nat,
         EarnestIn(w, Recover), \E r \in ReadingsOf(w) : r.ago >= Recover
  PROVE  E!Recovered(w, highest)
<1>1. Recover \in Nat /\ Recover # -1
  BY RulesFacts
<1>2. \A r \in ReadingsOf(w) : r.ago <= Recover => r.power > 500
  BY <1>1 DEF EarnestIn
<1>3. E!RecoverThreshold(highest) = 500
  BY ThresholdFacts
<1>4. E!RecoverySec(w, 500) >= Recover
  BY <1>2, RunIsSeen
<1> QED
  BY <1>3, <1>4 DEF E!Recovered

LEMMA HeldIsCalm ==
  ASSUME RuleTypes, StrongIsSeen, HoldIsCalm, charging,
         NEW gap \in 1..MaxGap, NEW p \in Powers, NEW ready,
         HeldNow(gap, p, ready).hold # -1
  PROVE  /\ HeldNow(gap, p, ready).hold <= HoldTime
         /\ HeldNow(gap, p, ready).hold <= calm + gap
         /\ StrongNext(gap, p) # -1 =>
               /\ StrongNext(gap, p) < Recover
               /\ \E r \in ReadingsOf(E!Fed(gap, p)) : r.ago = StrongNext(gap, p)
<1> DEFINE w == E!Fed(gap, p)
           time == StrongNext(gap, p)
           h == HeldNow(gap, p, ready).hold
           top0 == PeakNow(gap, p)
           before == HoldBefore(gap)
<1>1. /\ gap \in Nat \ {0} /\ p \in Nat /\ Recover \in Nat \ {0} /\ Assess \in Nat
      /\ HoldTime \in Nat /\ Fast \in Nat /\ GraceTime < Assess /\ GraceTime \in Nat
      /\ 2 * Recover <= Assess
  BY RulesFacts
<1>2. /\ IsWindow(w) /\ Len(w) > 0 /\ w[Len(w)].power = p /\ w[Len(w)].ago = 0
      /\ \A r \in ReadingsOf(w) :
             \/ r.power = p /\ r.ago = 0
             \/ \E q \in ReadingsOf(window) : r.power = q.power /\ r.ago = q.ago + gap
      /\ \A q \in ReadingsOf(window) : q.ago + gap <= Assess =>
             \E r \in ReadingsOf(w) : r.power = q.power /\ r.ago = q.ago + gap
  <2>1. FedRight(w, gap, p)
    BY <1>1, RulesFed
  <2> HIDE DEF w
  <2> QED
    BY <2>1, Zenon DEF FedRight
<1>3. \E r \in ReadingsOf(w) : r.ago = 0
  BY <1>2, NewestReading
<1>4. time \in Nat \cup {-1} /\ EarnestIn(w, time)
  BY EarnestNext
<1>5. /\ top0 \in Nat
      /\ hold = -1 => before = -1
      /\ hold # -1 => before = IF hold + gap <= HoldTime THEN hold + gap ELSE HoldTime
  BY DetectorNumbers
<1>6. hold \in Nat \cup {-1} /\ calm \in Nat /\ eval \in Nat /\ strong \in Nat \cup {-1}
  BY DEF RuleTypes
<1>7. before \in Nat \cup {-1} /\ eval + gap \in Nat
  BY <1>1, <1>5, <1>6
<1>8. /\ ~E!Recovered(w, top0)
      /\ before = -1 => h = 0 /\ E!Converged(w, top0)
      /\ before # -1 => h = before
      /\ E!Converged(w, top0) \/ eval + gap <= GraceTime
  <2> DEFINE held == E!Holds(w, top0, before, eval + gap, ready)
  <2>1. h = held.hold
    BY DEF HeldNow
  <2> HIDE DEF before, w, top0, h
  <2>2. /\ held.hold # -1 => /\ ~E!Recovered(w, top0)
                             /\ before = -1 => held.hold = 0 /\ E!Converged(w, top0)
                             /\ before # -1 => held.hold = before
                             /\ E!Converged(w, top0) \/ eval + gap <= GraceTime
    <3> DEFINE dt == eval + gap
    <3>1. dt \in Nat
      BY <1>7
    <3> HIDE DEF dt
    <3>2. HoldsRight(w, top0, before, dt, ready)
      BY <1>7, <3>1, HoldsFacts
    <3> QED
      BY <3>2 DEF dt, HoldsRight
  <2>3. held.hold # -1
    BY <2>1 DEF h
  <2> QED
    BY <2>1, <2>2, <2>3
<1> HIDE DEF w, time, h, top0, before
<1>15. /\ E!MedianOf(w, Fast) \in Nat
       /\ (\A r \in ReadingsOf(w) : r.ago <= Fast => r.power > 500)
              => E!MedianOf(w, Fast) > 500
  <2>1. w \in Seq(Reading) /\ InOrder(w) /\ Fast \in Nat /\ 500 \in Nat
    BY <1>1, <1>2 DEF IsWindow
  <2>2. \A high \in Nat :
                /\ \E r \in ReadingsOf(w) : r.ago <= Fast
                /\ \A r \in ReadingsOf(w) : r.ago <= Fast => r.power > high
                => E!MedianOf(w, Fast) > high
    BY <2>1, MedianOfFacts
  <2>3. E!MedianOf(w, Fast) \in Nat
    BY <2>1, MedianOfFacts
  <2>4. \E r \in ReadingsOf(w) : r.ago <= Fast
    BY <1>1, <1>3
  <2> QED
    BY <2>1, <2>2, <2>3, <2>4
<1>9. \A r \in ReadingsOf(w) : r.ago \in Nat /\ r.power \in Nat
  BY <1>2, WindowNumbers
<1>10. \A q \in ReadingsOf(window) : q.ago \in Nat /\ q.power \in Nat /\ q.ago <= Assess
  BY WindowNumbers DEF RuleTypes
<1>11. ASSUME time = Recover PROVE ~\E r \in ReadingsOf(w) : r.ago >= Recover
  BY <1>2, <1>4, <1>5, <1>8, <1>11, EarnestRecovers
<1>12. ASSUME hold = -1, time # -1
       PROVE  time < Recover /\ \E r \in ReadingsOf(w) : r.ago = time
  <2>1. E!MedianOf(w, Fast) <= E!Threshold(top0) /\ E!Threshold(top0) \in 5..60
    BY <1>5, <1>8, <1>12, ThresholdFacts DEF E!Converged
  <2>2. E!MedianOf(w, Fast) \in Nat /\ ~(E!MedianOf(w, Fast) > 500)
    BY <1>15, <2>1
  <2>3. PICK r \in ReadingsOf(w) : r.ago <= Fast /\ ~(r.power > 500)
    BY <1>15, <2>2
  <2>4. r.ago > time
    BY <1>4, <1>9, <1>12, <2>3 DEF EarnestIn
  <2>5. time # Recover
    BY <1>1, <1>9, <1>11, <2>4
  <2>6. time < Recover
    BY <1>1, <1>4, <1>12, <2>5 DEF EarnestIn
  <2> QED
    BY <1>4, <1>9, <1>12, <2>4, <2>6 DEF EarnestIn
<1>13. ASSUME hold # -1, time # -1
       PROVE  time < Recover /\ \E r \in ReadingsOf(w) : r.ago = time
  <2>1. ~(p <= 500)
    BY <1>13 DEF time, StrongNext
  <2>2. CASE strong = -1
    <3>1. time = 0
      BY <2>1, <2>2 DEF time, StrongNext
    <3> QED
      BY <1>1, <1>3, <3>1
  <2>3. CASE strong # -1
    <3>1. time = IF strong + gap <= Recover THEN strong + gap ELSE Recover
      BY <1>1, <1>6, <2>1, <2>3, MinOfTwo DEF time, StrongNext
    <3>2. PICK q \in ReadingsOf(window) : q.ago = strong
      BY <1>13, <2>3 DEF HoldIsCalm
    <3>3. PICK q0 \in ReadingsOf(window) : q0.ago = 0
      BY <1>13 DEF HoldIsCalm
    <3>4. strong < Recover /\ strong \in Nat
      BY <1>6, <1>13, <2>3 DEF HoldIsCalm
    <3>5. CASE strong + gap <= Assess
      <4>1. PICK r \in ReadingsOf(w) : r.ago = strong + gap
        BY <1>2, <3>2, <3>5
      <4>2. strong + gap < Recover
        BY <1>1, <1>11, <3>1, <3>4, <4>1
      <4> QED
        BY <1>1, <3>1, <3>4, <4>1, <4>2
    <3>6. CASE ~(strong + gap <= Assess) /\ gap <= Assess
      <4>1. PICK r \in ReadingsOf(w) : r.ago = gap
        BY <1>1, <1>2, <3>3, <3>6
      <4>2. gap >= Recover /\ time = Recover
        BY <1>1, <3>1, <3>4, <3>6
      <4> QED
        BY <1>11, <4>1, <4>2
    <3>7. CASE ~(gap <= Assess)
      <4>1. \A r \in ReadingsOf(w) : r.power > 500
        <5> SUFFICES ASSUME NEW r \in ReadingsOf(w) PROVE r.power > 500
          OBVIOUS
        <5>1. r.ago <= Assess
          BY <1>2, WindowNumbers
        <5>2. ~\E s \in ReadingsOf(window) : r.ago = s.ago + gap
          BY <1>1, <1>10, <3>7, <5>1
        <5> QED
          BY <1>1, <1>2, <2>1, <5>2
      <4>2. E!MedianOf(w, Fast) > 500 /\ E!MedianOf(w, Fast) \in Nat
        BY <1>15, <4>1
      <4>3. ~E!Converged(w, top0)
        BY <1>5, <4>2, ThresholdFacts DEF E!Converged
      <4>4. ~(eval + gap <= GraceTime)
        BY <1>1, <1>6, <3>7
      <4> QED
        BY <1>8, <4>3, <4>4
    <3> QED
      BY <3>5, <3>6, <3>7
  <2> QED
    BY <2>2, <2>3
<1>14. h <= HoldTime /\ h <= calm + gap
  <2>1. CASE hold = -1
    BY <1>1, <1>5, <1>6, <1>8, <2>1
  <2>2. CASE hold # -1
    <3>1. hold \in Nat /\ hold <= calm
      BY <1>6, <2>2 DEF HoldIsCalm
    <3>2. before \in Nat
      BY <1>1, <1>5, <2>2, <3>1
    <3> QED
      BY <1>1, <1>5, <1>6, <1>8, <2>2, <3>1, <3>2
  <2> QED
    BY <2>1, <2>2
<1> QED
  BY <1>12, <1>13, <1>14 DEF w, time, h

(* What the history keeps of drawing next to nothing. *)
TailNext(gap) == IF tail = -1 THEN 0 ELSE E!Min({tail + gap, E!FullBy})

LEMMA TailGoesOn ==
  ASSUME RuleTypes, TailIsHeld, NEW gap \in 1..MaxGap, NEW p \in Powers,
         p <= E!Threshold(PeakNow(gap, p)), NEW ready, ready,
         ~(HeldNow(gap, p, ready).hold >= HoldTime)
  PROVE  /\ TailNext(gap) \in Nat /\ TailNext(gap) < E!FullBy
         /\ \A r \in ReadingsOf(E!Fed(gap, p)) :
                r.ago <= TailNext(gap) => r.power <= E!Threshold(PeakNow(gap, p))
         /\ TailNext(gap) >= Slow =>
                /\ HeldNow(gap, p, ready).hold # -1
                /\ TailNext(gap) <= HeldNow(gap, p, ready).hold + Slow + MaxGap - 1
<1> DEFINE w == E!Fed(gap, p)
           time == TailNext(gap)
           h == HeldNow(gap, p, ready).hold
           top0 == PeakNow(gap, p)
           before == HoldBefore(gap)
           dt == eval + gap
<1>1. /\ gap \in Nat \ {0} /\ gap <= MaxGap /\ MaxGap \in Nat /\ p \in Nat
      /\ Recover \in Nat \ {0} /\ HoldTime \in Nat \ {0} /\ Fast \in Nat /\ Slow \in Nat \ {0}
      /\ Recent \in Nat /\ Fast <= Slow /\ Recent <= Slow
  BY RulesFacts
<1>2. /\ IsWindow(w)
      /\ \A r \in ReadingsOf(w) :
             \/ r.power = p /\ r.ago = 0
             \/ \E q \in ReadingsOf(window) : r.power = q.power /\ r.ago = q.ago + gap
  <2>1. FedRight(w, gap, p)
    BY <1>1, RulesFed
  <2> HIDE DEF w
  <2> QED
    BY <2>1, Zenon DEF FedRight
<1>3. /\ top0 \in Nat /\ peak \in Nat /\ peak <= top0
      /\ hold = -1 => before = -1
      /\ hold # -1 => before = IF hold + gap <= HoldTime THEN hold + gap ELSE HoldTime
  BY DetectorNumbers DEF RuleTypes
<1>4. hold \in Nat \cup {-1} /\ eval \in Nat /\ tail \in Nat \cup {-1}
  BY DEF RuleTypes
<1>5. before \in Nat \cup {-1} /\ dt \in Nat
  BY <1>1, <1>3, <1>4
<1>6. E!Threshold(top0) \in 5..60 /\ E!Threshold(peak) \in 5..60
      /\ E!Threshold(peak) <= E!Threshold(top0) /\ E!RecoverThreshold(top0) = 500
  BY <1>3, ThresholdFacts
<1> HIDE DEF before, w, top0, dt
<1>7. HoldsRight(w, top0, before, dt, ready)
  BY <1>5, HoldsFacts
<1>8. ~E!Recovered(w, top0) /\ E!Converged(w, top0) => h = IF before = -1 THEN 0 ELSE before
  BY <1>7 DEF HoldsRight, HeldNow, w, top0, before, dt
<1>9. E!FullBy = Slow + MaxGap - 1 + HoldTime
  BY DEF E!FullBy
<1>10. time = IF tail = -1 THEN 0 ELSE IF tail + gap <= E!FullBy THEN tail + gap ELSE E!FullBy
  BY <1>1, <1>4, <1>9, MinOfTwo DEF TailNext
<1>11. ~(h >= HoldTime) /\ p <= E!Threshold(top0)
  BY DEF top0
<1> HIDE DEF time, h
<1>12. \A r \in ReadingsOf(w) : r.ago \in Nat /\ r.power \in Nat
  BY <1>2, WindowNumbers
<1>13. \A q \in ReadingsOf(window) : q.ago \in Nat /\ q.power \in Nat
  BY WindowNumbers DEF RuleTypes
<1>14. ASSUME NEW r \in ReadingsOf(w), r.ago <= time PROVE r.power <= E!Threshold(top0)
  <2>1. CASE \E q \in ReadingsOf(window) : r.power = q.power /\ r.ago = q.ago + gap
    <3>1. PICK q \in ReadingsOf(window) : r.power = q.power /\ r.ago = q.ago + gap
      BY <2>1
    <3>2. tail # -1 /\ q.ago <= tail
      BY <1>1, <1>4, <1>9, <1>10, <1>13, <1>14, <3>1
    <3>3. q.power <= E!Threshold(peak)
      BY <3>2 DEF TailIsHeld
    <3> QED
      BY <1>6, <1>13, <3>1, <3>3
  <2> QED
    BY <1>2, <1>11, <2>1
<1>15. ASSUME time >= Slow PROVE h = IF before = -1 THEN 0 ELSE before
  <2>1. \A r \in ReadingsOf(w) : r.ago <= Slow => r.power <= E!Threshold(top0)
    BY <1>1, <1>4, <1>9, <1>10, <1>12, <1>14, <1>15
  <2>2. \A r \in ReadingsOf(w) : r.ago <= Recent => ~(r.power > 500)
    BY <1>1, <1>6, <1>12, <2>1
  <2>3. w \in Seq(Reading) /\ InOrder(w)
    BY <1>2 DEF IsWindow
  <2>4. E!RecoverySec(w, 500) = 0
    BY <2>2, <2>3, NoRecovery
  <2>5. ~E!Recovered(w, top0)
    BY <1>1, <1>6, <2>4 DEF E!Recovered
  <2>6. \A r \in ReadingsOf(w) : r.ago <= Fast => r.power <= E!Threshold(top0)
    BY <1>1, <1>12, <2>1
  <2>7. E!MedianOf(w, Fast) <= E!Threshold(top0)
    <3>1. \A high \in Nat : (\A r \in ReadingsOf(w) : r.ago <= Fast => r.power <= high)
                                => E!MedianOf(w, Fast) <= high
      BY <1>1, <2>3, MedianOfFacts
    <3> QED
      BY <1>6, <2>6, <3>1
  <2>8. E!MedianOf(w, Slow) <= E!Threshold(top0)
    <3>1. \A high \in Nat : (\A r \in ReadingsOf(w) : r.ago <= Slow => r.power <= high)
                                => E!MedianOf(w, Slow) <= high
      BY <1>1, <2>3, MedianOfFacts
    <3> QED
      BY <1>6, <2>1, <3>1
  <2> QED
    BY <1>8, <2>5, <2>7, <2>8 DEF E!Converged
<1>16. ASSUME time >= Slow
       PROVE  h \in Nat /\ time <= h + Slow + MaxGap - 1 /\ time < E!FullBy
  <2>1. h = IF before = -1 THEN 0 ELSE before
    BY <1>15, <1>16
  <2>2. h \in Nat /\ h < HoldTime
    BY <1>1, <1>5, <1>11, <2>1
  <2>3. tail # -1 /\ tail \in Nat
    BY <1>1, <1>4, <1>10, <1>16
  <2>4. CASE tail >= Slow
    <3>1. hold # -1 /\ tail <= hold + Slow + MaxGap - 1
      BY <2>3, <2>4 DEF TailIsHeld
    <3>2. h = hold + gap /\ hold \in Nat
      BY <1>1, <1>3, <1>4, <1>5, <2>1, <2>2, <3>1
    <3> QED
      BY <1>1, <1>9, <1>10, <2>2, <2>3, <3>1, <3>2
  <2>5. CASE ~(tail >= Slow)
    BY <1>1, <1>9, <1>10, <2>2, <2>3, <2>5
  <2> QED
    BY <2>4, <2>5
<1>17. time \in Nat /\ time < E!FullBy
  <2>1. time \in Nat
    BY <1>1, <1>4, <1>9, <1>10
  <2>2. ~(time >= Slow) => time < E!FullBy
    BY <1>1, <1>9, <2>1
  <2> QED
    BY <1>16, <2>1, <2>2
<1>18. time >= Slow => h # -1 /\ time <= h + Slow + MaxGap - 1
  BY <1>16
<1> QED
  BY <1>14, <1>17, <1>18 DEF w, time, h, top0

(* What the history notes, whatever becomes of the charge. *)
CalmNext(gap) == IF calm + gap <= HoldTime THEN calm + gap ELSE HoldTime

LEMMA HistoryStep ==
  ASSUME RulesInv, NEW gap \in 1..MaxGap, NEW p \in Powers, NEW up \in BOOLEAN,
         E!Note(gap, up, p), peak' \in Nat,
         p > 500 => KeepsNewest(window', E!Fed(gap, p))
  PROVE  /\ strong' = StrongNext(gap, p) /\ strong' \in Nat \cup {-1} /\ StrongIsSeen'
         /\ calm' \in Nat /\ (~(strong' >= Recover) => calm' = CalmNext(gap))
         /\ tail' \in Nat \cup {-1} /\ residual' \in BOOLEAN
         /\ tail' # -1 => /\ charging' /\ enough' /\ age' >= MinAge
                          /\ 0 < p /\ p <= E!Threshold(peak')
                          /\ tail' = TailNext(gap)
<1>1. /\ gap \in Nat \ {0} /\ p \in Nat /\ HoldTime \in Nat \ {0} /\ Recover \in Nat \ {0}
      /\ E!FullBy \in Nat /\ RuleTypes
  <2>1. Slow \in Nat /\ MaxGap \in Nat \ {0} /\ HoldTime \in Nat
    BY RulesFacts
  <2> QED
    BY <2>1, RulesFacts DEF E!FullBy, RulesInv
<1>2. strong' = StrongNext(gap, p)
  <2>1. E!RecoverThreshold(peak') = 500
    BY ThresholdFacts
  <2> QED
    BY <2>1 DEF E!Note, E!Never, StrongNext
<1>3. strong' \in Nat \cup {-1} /\ StrongIsSeen'
  <2>1. StrongNext(gap, p) \in Nat \cup {-1} /\ EarnestIn(E!Fed(gap, p), StrongNext(gap, p))
    BY EarnestNext DEF RulesInv
  <2>2. IsWindow(E!Fed(gap, p))
    <3>1. FedRight(E!Fed(gap, p), gap, p)
      BY <1>1, RulesFed
    <3> QED
      BY <3>1 DEF FedRight
  <2>3. CASE p > 500
    <3>1. EarnestIn(window', StrongNext(gap, p))
      BY <2>1, <2>2, <2>3, EarnestKept
    <3> QED
      BY <1>2, <2>1, <3>1 DEF StrongIsSeen
  <2>4. CASE ~(p > 500)
    <3>1. strong' = -1
      BY <1>1, <1>2, <2>4 DEF StrongNext
    <3> QED
      BY <3>1 DEF StrongIsSeen, EarnestIn
  <2> QED
    BY <2>3, <2>4
<1>4. calm' \in Nat /\ (~(strong' >= Recover) => calm' = CalmNext(gap))
  <2>1. calm \in Nat
    BY <1>1 DEF RuleTypes
  <2>2. calm' = IF strong' >= Recover THEN 0 ELSE E!Min({calm + gap, HoldTime})
    BY DEF E!Note
  <2> QED
    BY <1>1, <2>1, <2>2, MinOfTwo DEF CalmNext
<1>5. tail' = IF charging' /\ enough' /\ age' >= MinAge /\ 0 < p /\ p <= E!Threshold(peak')
                THEN TailNext(gap) ELSE -1
  BY DEF E!Note, E!Low, E!Never, TailNext
<1>6. TailNext(gap) \in Nat
  <2>1. tail \in Nat \cup {-1}
    BY <1>1 DEF RuleTypes
  <2> QED
    BY <1>1, <2>1, MinOfTwo DEF TailNext
<1>7. residual' \in BOOLEAN
  <2>1. residual' = IF charging /\ ~charging' THEN up
                    ELSE residual /\ up /\ p < E!Max({E!BaseThreshold, restart})
    BY DEF E!Note
  <2> QED
    BY <2>1
<1> QED
  BY <1>2, <1>3, <1>4, <1>5, <1>6, <1>7

(* A charge ends. *)
LEMMA ChargeEnds ==
  ASSUME RulesInv, NEW gap \in 1..MaxGap, NEW p \in Powers, NEW up \in BOOLEAN,
         charging, NEW reason, E!Close(reason), reason = "unplug" => ~up,
         judged' \in BOOLEAN, E!Note(gap, up, p),
         NEW ready, judged' => HeldNow(gap, p, ready).hold >= HoldTime
  PROVE  RulesInv'
<1>1. /\ ~charging' /\ charging' \in BOOLEAN
      /\ window' = <<>> /\ peak' = 0 /\ hold' = -1 /\ grace' = 0 /\ eval' = 0
      /\ idle' = -1 /\ age' = 0 /\ enough' = FALSE /\ top' = 0 /\ above' = -1
  BY DEF E!Close, E!NoLoad, E!SessionEnd, E!Never
<1>2. IsWindow(window') /\ ReadingsOf(window') = {} /\ KeepsNewest(window', E!Fed(gap, p))
  BY <1>1, NoneKept
<1>3. /\ strong' = StrongNext(gap, p) /\ strong' \in Nat \cup {-1} /\ StrongIsSeen'
      /\ calm' \in Nat /\ (~(strong' >= Recover) => calm' = CalmNext(gap))
      /\ tail' = -1 /\ residual' \in BOOLEAN
  <2>1. peak' \in Nat
    BY <1>1
  <2> QED
    BY <1>1, <1>2, <2>1, HistoryStep
<1>4. post' \in BOOLEAN /\ restart' \in Nat /\ (up => post')
  <2>1. CASE reason = "unplug"
    BY <2>1 DEF E!Close, E!NoLoad, RulesInv, RuleTypes
  <2>2. CASE reason # "unplug"
    <3>1. post' = TRUE /\ restart' = E!Max({40, 2 * E!Threshold(top)})
      BY <2>2 DEF E!Close, E!SessionEnd
    <3>2. E!Threshold(top) \in 5..60
      BY ThresholdFacts DEF RulesInv, RuleTypes
    <3> QED
      BY <3>1, <3>2, MaxOfTwo
  <2> QED
    BY <2>1, <2>2
<1>5. residual' => up
  BY <1>1 DEF E!Note
<1>6. RuleTypes'
  BY <1>1, <1>2, <1>3, <1>4 DEF RuleTypes
<1>7. ResidueIsLow'
  BY <1>1, <1>2, <1>4, <1>5 DEF ResidueIsLow
<1>8. E!ConvergedIsCalm'
  <2> SUFFICES ASSUME judged' PROVE calm' >= HoldTime
    BY DEF E!ConvergedIsCalm
  <2>1. HoldTime \in Nat \ {0} /\ Recover \in Nat /\ gap \in Nat
    BY RulesFacts
  <2>2. HeldNow(gap, p, ready).hold # -1
    BY <2>1
  <2>3. /\ HeldNow(gap, p, ready).hold <= calm + gap
        /\ StrongNext(gap, p) # -1 => StrongNext(gap, p) < Recover
    BY <2>2, HeldIsCalm DEF RulesInv
  <2>4. ~(strong' >= Recover)
    BY <1>3, <2>1, <2>3
  <2>5. HeldNow(gap, p, ready).hold \in Nat
    <3>1. HoldBefore(gap) \in Nat \cup {-1} /\ eval + gap \in Nat
      BY <2>1, DetectorNumbers DEF RulesInv, RuleTypes
    <3>2. HoldsRight(E!Fed(gap, p), PeakNow(gap, p), HoldBefore(gap), eval + gap, ready)
      BY <3>1, HoldsFacts DEF RulesInv
    <3> QED
      BY <2>2, <3>1, <3>2 DEF HoldsRight, HeldNow
  <2>6. calm \in Nat
    BY DEF RulesInv, RuleTypes
  <2> QED
    BY <1>3, <2>1, <2>3, <2>4, <2>5, <2>6 DEF CalmNext
<1> QED
  BY <1>1, <1>3, <1>6, <1>7, <1>8 DEF RulesInv, TailIsHeld, HoldIsCalm

(* There is no charge, and none begins. *)
LEMMA NoChargeYet ==
  ASSUME RulesInv, NEW gap \in 1..MaxGap, NEW p \in Powers, NEW up \in BOOLEAN,
         ~charging, ~charging', charging' \in BOOLEAN,
         IsWindow(window'), p > 500 \/ up => window' = E!Fed(gap, p),
         peak' = peak, hold' = hold, grace' = grace, eval' = eval, restart' = restart,
         age' = age, enough' = enough, top' = top, idle' = idle,
         above' \in Nat \cup {-1}, post' \in BOOLEAN, up => post' = post,
         judged' = FALSE, E!Note(gap, up, p)
  PROVE  RulesInv'
<1>1. RuleTypes /\ ResidueIsLow /\ gap \in Nat /\ p \in Nat
  BY RulesFacts DEF RulesInv
<1>2. KeepsNewest(E!Fed(gap, p), E!Fed(gap, p))
  BY DEF KeepsNewest
<1>3. /\ strong' \in Nat \cup {-1} /\ StrongIsSeen'
      /\ calm' \in Nat /\ tail' = -1 /\ residual' \in BOOLEAN
  <2>1. peak' \in Nat /\ (p > 500 => KeepsNewest(window', E!Fed(gap, p)))
    BY <1>1, <1>2 DEF RuleTypes
  <2> QED
    BY <2>1, HistoryStep
<1>4. RuleTypes'
  <2>1. /\ peak' \in Nat /\ grace' \in Nat /\ eval' \in Nat /\ restart' \in Nat
        /\ age' \in Nat /\ top' \in Nat /\ hold' \in Nat \cup {-1} /\ idle' \in Nat \cup {-1}
    BY <1>1 DEF RuleTypes
  <2>2. enough' \in BOOLEAN /\ judged' \in BOOLEAN
    BY <1>1, Zenon DEF RuleTypes
  <2> QED
    BY <1>3, <2>1, <2>2, Zenon DEF RuleTypes
<1>5. ResidueIsLow'
  <2> SUFFICES ASSUME residual'
               PROVE  post' /\ \A r \in ReadingsOf(window') : r.power < 50 \/ r.power < restart'
    BY DEF ResidueIsLow
  <2>1. residual /\ up /\ p < E!Max({E!BaseThreshold, restart})
    BY DEF E!Note
  <2>2. restart \in Nat
    BY <1>1 DEF RuleTypes
  <2>3. p < 50 \/ p < restart
    BY <1>1, <2>1, <2>2, MaxOfTwo DEF E!BaseThreshold
  <2>4. post'
    BY <1>1, <2>1 DEF ResidueIsLow
  <2>5. window' = E!Fed(gap, p) /\ IsWindow(window)
    BY <1>1, <2>1 DEF RuleTypes
  <2>6. \A r \in ReadingsOf(E!Fed(gap, p)) :
           \/ r.power = p
           \/ \E q \in ReadingsOf(window) : r.power = q.power
    <3>1. FedRight(E!Fed(gap, p), gap, p)
      BY <1>1, RulesFed
    <3> QED
      BY <3>1, Zenon DEF FedRight
  <2>7. \A q \in ReadingsOf(window) : q.power < 50 \/ q.power < restart
    BY <1>1, <2>1 DEF ResidueIsLow
  <2> QED
    BY <2>3, <2>4, <2>5, <2>6, <2>7
<1> QED
  BY <1>3, <1>4, <1>5 DEF RulesInv, TailIsHeld, HoldIsCalm, E!ConvergedIsCalm

(* A charge begins: the power has been above the threshold for a while. *)
LEMMA ChargeBegins ==
  ASSUME RulesInv, NEW gap \in 1..MaxGap, NEW p \in Powers, NEW up \in BOOLEAN,
         ~charging, NEW run \in Nat, E!Begin(E!Fed(gap, p), run),
         E!MedianOf(E!Fed(gap, p), Fast) >= E!ThresholdNow,
         above' = -1, post' = FALSE, restart' = restart,
         judged' = FALSE, E!Note(gap, up, p)
  PROVE  RulesInv' /\ ~residual'
<1> DEFINE w == E!Fed(gap, p)
           v == E!Within(w, run)
           n == Len(v)
           upTo(i) == [j \in 1..i |-> [v[j] EXCEPT !.ago = @ - v[i].ago]]
<1>1. RuleTypes /\ ResidueIsLow /\ gap \in Nat /\ p \in Nat /\ Fast \in Nat /\ MinAge \in Nat
  BY RulesFacts DEF RulesInv
<1>2. /\ IsWindow(w) /\ Len(w) > 0 /\ w[Len(w)].ago = 0
      /\ \A r \in ReadingsOf(w) :
             \/ r.power = p
             \/ \E q \in ReadingsOf(window) : r.power = q.power
  <2>1. FedRight(w, gap, p)
    BY <1>1, RulesFed
  <2> HIDE DEF w
  <2> QED
    BY <2>1, Zenon DEF FedRight
<1>3. w \in Seq(Reading) /\ InOrder(w) /\ \A r \in ReadingsOf(w) : r.ago \in Nat /\ r.power \in Nat
  BY <1>2, WindowNumbers DEF IsWindow
<1>4. /\ charging' = TRUE /\ enough' = FALSE /\ idle' = -1 /\ window' = v
      /\ hold' = -1 /\ grace' = 0 /\ eval' = 0 /\ age' = E!Min({run, MinAge})
      /\ top' = E!Max({v[i].power : i \in DOMAIN v})
      /\ peak' = E!Max({E!MedianOf(upTo(i), Fast) : i \in DOMAIN v})
  BY DEF E!Begin, E!Never
<1> HIDE DEF w
<1>5. IsWindow(v) /\ ReadingsOf(v) = {r \in ReadingsOf(w) : r.ago <= run} /\ n > 0
  <2>1. IsWindow(v)
    BY <1>2, WithinIsWindow
  <2>2. ReadingsOf(v) = {r \in ReadingsOf(w) : r.ago <= run}
    BY <1>3, WithinReadings
  <2>3. w[Len(w)].ago <= run
    BY <1>2
  <2>4. n > 0
    BY <1>2, <1>3, <2>3, WithinReadings
  <2> QED
    BY <2>1, <2>2, <2>4
<1> HIDE DEF v
<1>6. /\ n \in Nat \ {0} /\ DOMAIN v = 1..n
      /\ \A i \in 1..n : v[i] \in Reading /\ v[i].ago \in Nat /\ v[i].power \in Nat
      /\ \A i, j \in 1..n : i <= j => v[j].ago <= v[i].ago
  BY <1>5, ReadingFacts DEF IsWindow, InOrder
<1>7. KeepsNewest(v, w)
  BY <1>3, <1>5 DEF KeepsNewest
<1>8. top' \in Nat
  <2> DEFINE f == [i \in 1..n |-> v[i].power]
  <2>1. f \in [1..n -> Nat] /\ {v[i].power : i \in DOMAIN v} = {f[j] : j \in 1..n}
    BY <1>6
  <2> HIDE DEF f
  <2>2. E!Max({f[j] : j \in 1..n}) \in Nat
    BY <1>6, <2>1, MaxOfMany
  <2> QED
    BY <1>4, <2>1, <2>2
<1>9. ASSUME NEW i \in 1..n PROVE E!MedianOf(upTo(i), Fast) \in Nat
  <2> DEFINE u == upTo(i)
  <2>1. ASSUME NEW j \in 1..i
        PROVE  u[j] \in Reading /\ u[j].ago = v[j].ago - v[i].ago
    <3>1. j \in 1..n /\ v[i].ago <= v[j].ago
      BY <1>6
    <3>2. v[j] \in [power : Powers, ago : Nat] /\ v[j].ago - v[i].ago \in Nat
      BY <1>6, <3>1 DEF Reading
    <3>3. u[j] = [v[j] EXCEPT !.ago = v[j].ago - v[i].ago]
      OBVIOUS
    <3> QED
      BY <3>2, <3>3 DEF Reading
  <2>2. u = [j \in 1..i |-> u[j]]
    OBVIOUS
  <2> HIDE DEF u
  <2>3. u \in [1..i -> Reading] /\ i \in Nat
    BY <2>1, <2>2
  <2>4. u \in Seq(Reading)
    BY <2>3, SeqDef
  <2>5. Len(u) = i
    BY <2>3, <2>4, LenProperties
  <2>6. InOrder(u)
    <3> SUFFICES ASSUME NEW j \in 1..i, NEW k \in 1..i, j <= k PROVE u[k].ago <= u[j].ago
      BY <2>5 DEF InOrder
    <3>1. v[k].ago <= v[j].ago /\ v[k].ago \in Nat /\ v[j].ago \in Nat /\ v[i].ago \in Nat
      BY <1>6
    <3>2. v[k].ago - v[i].ago <= v[j].ago - v[i].ago
      BY <3>1
    <3>3. u[j].ago = v[j].ago - v[i].ago /\ u[k].ago = v[k].ago - v[i].ago
      BY <2>1
    <3> QED
      BY <3>2, <3>3
  <2>7. E!MedianOf(u, Fast) \in Nat
    BY <1>1, <2>4, <2>6, MedianOfFacts
  <2> QED
    BY <2>7 DEF u
<1>10. peak' \in Nat
  <2> DEFINE f == [i \in 1..n |-> E!MedianOf(upTo(i), Fast)]
  <2>1. f \in [1..n -> Nat]
    BY <1>9
  <2>2. {E!MedianOf(upTo(i), Fast) : i \in DOMAIN v} = {f[j] : j \in 1..n}
    BY <1>6
  <2> HIDE DEF f
  <2>3. E!Max({f[j] : j \in 1..n}) \in Nat
    BY <1>6, <2>1, MaxOfMany
  <2> QED
    BY <1>4, <2>2, <2>3
<1> HIDE DEF n, upTo
<1>11. /\ strong' \in Nat \cup {-1} /\ StrongIsSeen'
       /\ calm' \in Nat /\ tail' = -1 /\ residual' \in BOOLEAN
  <2>1. peak' \in Nat /\ KeepsNewest(window', E!Fed(gap, p)) /\ enough' = FALSE
    BY <1>4, <1>7, <1>10 DEF w
  <2> QED
    BY <2>1, HistoryStep
<1>12. ~residual'
  <2> SUFFICES ASSUME residual' PROVE FALSE
    OBVIOUS
  <2>1. residual /\ p < E!Max({E!BaseThreshold, restart})
    BY DEF E!Note
  <2> DEFINE bar == E!Max({50, restart})
  <2>2. restart \in Nat
    BY <1>1 DEF RuleTypes
  <2>3. bar = IF 50 >= restart THEN 50 ELSE restart
    BY <2>2, MaxOfTwo
  <2>4. post /\ \A q \in ReadingsOf(window) : q.power < 50 \/ q.power < restart
    BY <1>1, <2>1 DEF ResidueIsLow
  <2>5. E!ThresholdNow = bar
    BY <2>4 DEF E!ThresholdNow, E!BaseThreshold
  <2>6. p < bar
    BY <2>1 DEF E!BaseThreshold
  <2> HIDE DEF bar
  <2>7. \A r \in ReadingsOf(window) : r.power \in Nat
    BY <1>1, WindowNumbers DEF RuleTypes
  <2>8. bar - 1 \in Nat /\ bar \in Nat
    BY <2>2, <2>3
  <2>9. \A r \in ReadingsOf(w) : r.ago <= Fast => r.power <= bar - 1
    BY <1>1, <1>2, <2>2, <2>3, <2>4, <2>6, <2>7
  <2>10. \A high \in Nat : (\A r \in ReadingsOf(w) : r.ago <= Fast => r.power <= high)
                              => E!MedianOf(w, Fast) <= high
    BY <1>1, <1>3, MedianOfFacts
  <2>11. E!MedianOf(w, Fast) <= bar - 1 /\ E!MedianOf(w, Fast) \in Nat
    BY <1>1, <1>3, <2>8, <2>9, <2>10, MedianOfFacts
  <2> QED
    BY <2>5, <2>8, <2>11 DEF w
<1>13. RuleTypes'
  <2>1. age' \in Nat
    BY <1>1, <1>4, MinOfTwo
  <2>2. restart' \in Nat /\ IsWindow(window')
    BY <1>1, <1>4, <1>5 DEF RuleTypes
  <2> QED
    BY <1>4, <1>8, <1>10, <1>11, <2>1, <2>2 DEF RuleTypes
<1> QED
  BY <1>4, <1>11, <1>12, <1>13
     DEF RulesInv, TailIsHeld, HoldIsCalm, ResidueIsLow, E!ConvergedIsCalm

(* A charge goes on. *)
LEMMA ChargeGoesOn ==
  ASSUME RulesInv, NEW gap \in 1..MaxGap, NEW p \in Powers, NEW up \in BOOLEAN,
         charging, charging', charging' \in BOOLEAN, window' = E!Fed(gap, p),
         peak' = PeakNow(gap, p), grace' \in Nat, eval' \in Nat, restart' \in Nat,
         age' \in Nat, top' \in Nat, idle' \in Nat \cup {-1}, above' \in Nat \cup {-1},
         post' \in BOOLEAN, enough' \in BOOLEAN, judged' = FALSE, E!Note(gap, up, p),
         hold' \in Nat \cup {-1},
         hold' # -1 =>
            /\ hold' <= HoldTime /\ hold' <= calm + gap
            /\ StrongNext(gap, p) # -1 =>
                   /\ StrongNext(gap, p) < Recover
                   /\ \E r \in ReadingsOf(E!Fed(gap, p)) : r.ago = StrongNext(gap, p),
         NEW ready, p > 0 /\ enough' /\ age' >= MinAge => ready,
         p > 0 => hold' = HeldNow(gap, p, ready).hold /\ ~(hold' >= HoldTime)
  PROVE  RulesInv'
<1> DEFINE w == E!Fed(gap, p)
<1>1. /\ RuleTypes /\ TailIsHeld /\ ResidueIsLow /\ calm \in Nat
      /\ gap \in Nat /\ p \in Nat /\ HoldTime \in Nat /\ Recover \in Nat \ {0}
  BY RulesFacts DEF RulesInv, RuleTypes
<1>2. IsWindow(w) /\ \E r \in ReadingsOf(w) : r.ago = 0
  <2>1. FedRight(w, gap, p)
    BY <1>1, RulesFed
  <2> HIDE DEF w
  <2>2. IsWindow(w) /\ Len(w) > 0 /\ w[Len(w)].ago = 0
    BY <2>1 DEF FedRight
  <2> QED
    BY <2>2, NewestReading
<1>3. peak' \in Nat
  BY <1>1, DetectorNumbers
<1>4. /\ strong' = StrongNext(gap, p) /\ strong' \in Nat \cup {-1} /\ StrongIsSeen'
      /\ calm' \in Nat /\ (~(strong' >= Recover) => calm' = CalmNext(gap))
      /\ tail' \in Nat \cup {-1} /\ residual' \in BOOLEAN
      /\ tail' # -1 => /\ enough' /\ age' >= MinAge
                       /\ 0 < p /\ p <= E!Threshold(peak')
                       /\ tail' = TailNext(gap)
  <2>1. KeepsNewest(window', E!Fed(gap, p))
    BY DEF KeepsNewest
  <2> QED
    BY <1>3, <2>1, HistoryStep
<1>5. RuleTypes'
  BY <1>2, <1>3, <1>4, Zenon DEF RuleTypes
<1>6. HoldIsCalm'
  <2> SUFFICES ASSUME hold' # -1
               PROVE  /\ hold' <= HoldTime /\ hold' <= calm'
                      /\ \E r \in ReadingsOf(window') : r.ago = 0
                      /\ strong' # -1 =>
                             strong' < Recover /\ \E r \in ReadingsOf(window') : r.ago = strong'
    BY DEF HoldIsCalm
  <2>1. strong' # -1 =>
           strong' < Recover /\ \E r \in ReadingsOf(window') : r.ago = strong'
    BY <1>4
  <2>2. ~(strong' >= Recover)
    BY <1>1, <1>4, <2>1
  <2>3. hold' <= calm'
    BY <1>1, <1>4, <2>2 DEF CalmNext
  <2> QED
    BY <1>2, <2>1, <2>3
<1>7. TailIsHeld'
  <2> SUFFICES ASSUME tail' # -1
               PROVE  /\ tail' < E!FullBy
                      /\ \A r \in ReadingsOf(window') : r.ago <= tail' => r.power <= E!Threshold(peak')
                      /\ tail' >= Slow => hold' # -1 /\ tail' <= hold' + Slow + MaxGap - 1
    BY <1>4 DEF TailIsHeld, E!FullBy
  <2>1. /\ p <= E!Threshold(PeakNow(gap, p)) /\ ready
        /\ hold' = HeldNow(gap, p, ready).hold /\ ~(HeldNow(gap, p, ready).hold >= HoldTime)
    BY <1>4
  <2>2. /\ TailNext(gap) < E!FullBy
        /\ \A r \in ReadingsOf(E!Fed(gap, p)) :
                r.ago <= TailNext(gap) => r.power <= E!Threshold(PeakNow(gap, p))
        /\ TailNext(gap) >= Slow =>
                /\ HeldNow(gap, p, ready).hold # -1
                /\ TailNext(gap) <= HeldNow(gap, p, ready).hold + Slow + MaxGap - 1
    BY <1>1, <2>1, TailGoesOn
  <2> QED
    BY <1>4, <2>1, <2>2
<1>8. ~residual'
  BY <1>1 DEF E!Note, ResidueIsLow
<1> QED
  BY <1>4, <1>5, <1>6, <1>7, <1>8 DEF RulesInv, ResidueIsLow, E!ConvergedIsCalm

(* A reading during a charge. *)
LEMMA ChargingStep ==
  ASSUME RulesInv, NEW gap \in 1..MaxGap, NEW p \in Powers, NEW up \in BOOLEAN, p > 0 => up,
         charging, E!Charging(E!Fed(gap, p), p, gap, up),
         judged' = (~charging' /\ p > 0), E!Note(gap, up, p)
  PROVE  RulesInv'
<1>1. /\ RuleTypes /\ StrongIsSeen /\ HoldIsCalm
      /\ gap \in Nat \ {0} /\ p \in Nat /\ HoldTime \in Nat /\ MinAge \in Nat /\ GraceTime \in Nat
  BY RulesFacts DEF RulesInv
<1>2. /\ calm \in Nat /\ age \in Nat /\ eval \in Nat /\ grace \in Nat /\ restart \in Nat
      /\ top \in Nat /\ hold \in Nat \cup {-1} /\ above \in Nat \cup {-1} /\ idle \in Nat \cup {-1}
  BY <1>1 DEF RuleTypes
<1>3. post \in BOOLEAN /\ enough \in BOOLEAN
  BY <1>1 DEF RuleTypes
<1> DEFINE old == E!Min({age + gap, MinAge})
           before == IF up THEN HoldBefore(gap) ELSE -1
<1>4. old \in Nat
  BY <1>1, <1>2, MinOfTwo
<1>5. CASE p = 0 /\ idle # -1 /\ idle + gap >= Debounce /\ E!Close(IF up THEN "no_load" ELSE "unplug")
  <2> DEFINE reason == IF up THEN "no_load" ELSE "unplug"
  <2>1. reason = "unplug" => ~up
    OBVIOUS
  <2>2. E!Close(reason)
    BY <1>5
  <2> HIDE DEF reason
  <2>3. judged' = FALSE
    <3>1. ~(p > 0)
      BY <1>5
    <3> QED
      BY <3>1, Zenon
  <2>4. judged' \in BOOLEAN /\ (judged' => HeldNow(gap, p, TRUE).hold >= HoldTime)
    BY <2>3
  <2> QED
    BY <2>1, <2>2, <2>4, ChargeEnds
<1>6. CASE /\ p = 0
           /\ idle' = (IF idle = -1 THEN 0 ELSE idle + gap)
           /\ window' = E!Fed(gap, p) /\ peak' = PeakNow(gap, p) /\ hold' = before
           /\ eval' = E!Min({eval + gap, GraceTime + 1})
           /\ age' = old /\ E!NoLoad
           /\ UNCHANGED <<grace, charging, enough, top>>
  <2>1. /\ charging' = charging /\ grace' = grace /\ enough' = enough /\ top' = top
        /\ post' = FALSE /\ above' = -1 /\ restart' = restart /\ judged' = FALSE
    BY <1>6, Zenon DEF E!NoLoad, E!Never
  <2>2. charging' /\ charging' \in BOOLEAN
    BY <2>1, Zenon
  <2>3. idle' \in Nat \cup {-1} /\ age' \in Nat
    BY <1>1, <1>2, <1>4, <1>6
  <2>4. eval' \in Nat
    BY <1>1, <1>2, <1>6, MinOfTwo
  <2>5. /\ hold' \in Nat \cup {-1}
        /\ hold' # -1 => hold' <= HoldTime /\ hold' <= calm + gap
    <3>1. /\ hold = -1 => HoldBefore(gap) = -1
          /\ hold # -1 => HoldBefore(gap) = IF hold + gap <= HoldTime THEN hold + gap ELSE HoldTime
      BY <1>1, DetectorNumbers
    <3>2. hold # -1 => hold <= calm
      BY <1>1 DEF HoldIsCalm
    <3>3. hold' = -1 \/ hold' = HoldBefore(gap)
      BY <1>6
    <3> HIDE DEF before, old
    <3> QED
      BY <1>1, <1>2, <3>1, <3>2, <3>3
  <2>6. StrongNext(gap, p) = -1
    BY <1>6 DEF StrongNext
  <2>7. grace' \in Nat /\ top' \in Nat /\ restart' \in Nat /\ above' \in Nat \cup {-1}
    BY <1>2, <2>1
  <2>8. post' \in BOOLEAN /\ enough' \in BOOLEAN
    BY <1>3, <2>1, Zenon
  <2>9. window' = E!Fed(gap, p) /\ peak' = PeakNow(gap, p) /\ ~(p > 0)
    BY <1>6
  <2> QED
    BY <2>1, <2>2, <2>3, <2>4, <2>5, <2>6, <2>7, <2>8, <2>9, ChargeGoesOn
<1>7. ASSUME p # 0, NEW e \in {enough, TRUE},
             LET ready == e /\ old >= MinAge
                 held == HeldNow(gap, p, ready)
             IN IF held.hold >= HoldTime
                THEN E!Close("low_power")
                ELSE /\ window' = E!Fed(gap, p) /\ peak' = PeakNow(gap, p)
                     /\ hold' = held.hold /\ grace' = held.grace
                     /\ eval' = 0
                     /\ age' = old /\ enough' = e /\ top' = E!Max({top, p})
                     /\ idle' = -1
                     /\ UNCHANGED <<charging, E!gate>>
      PROVE  RulesInv'
  <2> DEFINE ready == e /\ old >= MinAge
             held == HeldNow(gap, p, ready)
  <2>1. CASE held.hold >= HoldTime
    <3>1. E!Close("low_power")
      BY <1>7, <2>1
    <3>2. judged' \in BOOLEAN /\ (judged' => HeldNow(gap, p, ready).hold >= HoldTime)
      BY <2>1
    <3> DEFINE reason == "low_power"
    <3>3. E!Close(reason) /\ (reason = "unplug" => ~up)
      BY <3>1
    <3> HIDE DEF reason, ready
    <3> QED
      BY <3>2, <3>3, ChargeEnds
  <2>2. CASE ~(held.hold >= HoldTime)
    <3>1. /\ window' = E!Fed(gap, p) /\ peak' = PeakNow(gap, p)
          /\ hold' = held.hold /\ grace' = held.grace
          /\ eval' = 0
          /\ age' = old /\ enough' = e /\ top' = E!Max({top, p})
          /\ idle' = -1
          /\ UNCHANGED <<charging, E!gate>>
      BY <1>7, <2>2
    <3>2. charging' = charging /\ post' = post /\ above' = above /\ restart' = restart
      BY <3>1, Zenon DEF E!gate
    <3>3. charging' /\ charging' \in BOOLEAN
      BY <3>2, Zenon
    <3>4. judged' = FALSE
      BY <3>3
    <3>5. HoldBefore(gap) \in Nat \cup {-1} /\ eval + gap \in Nat
      BY <1>1, <1>2, DetectorNumbers
    <3>6. enough' \in BOOLEAN /\ post' \in BOOLEAN
      BY <1>3, <3>1, <3>2, Zenon
    <3>7. top' \in Nat /\ above' \in Nat \cup {-1} /\ restart' \in Nat /\ age' \in Nat
          /\ eval' \in Nat /\ idle' \in Nat \cup {-1}
      <4>1. E!Max({top, p}) \in Nat
        BY <1>1, <1>2, MaxOfTwo
      <4> HIDE DEF old
      <4> QED
        BY <1>2, <1>4, <3>1, <3>2, <4>1
    <3>8. enough' /\ age' >= MinAge => ready
      BY <3>1
    <3> HIDE DEF ready
    <3>9. HoldsRight(E!Fed(gap, p), PeakNow(gap, p), HoldBefore(gap), eval + gap, ready)
      BY <1>1, <3>5, HoldsFacts
    <3>10. held.hold \in {-1, 0, HoldBefore(gap)} /\ held.grace \in Nat
      BY <3>9 DEF HoldsRight, HeldNow
    <3>11. hold' \in Nat \cup {-1} /\ grace' \in Nat
      BY <3>1, <3>5, <3>10
    <3>12. hold' # -1 =>
            /\ hold' <= HoldTime /\ hold' <= calm + gap
            /\ StrongNext(gap, p) # -1 =>
                   /\ StrongNext(gap, p) < Recover
                   /\ \E r \in ReadingsOf(E!Fed(gap, p)) : r.ago = StrongNext(gap, p)
      BY <1>1, <3>1, HeldIsCalm
    <3>13. hold' = HeldNow(gap, p, ready).hold /\ ~(hold' >= HoldTime)
           /\ window' = E!Fed(gap, p) /\ peak' = PeakNow(gap, p)
      BY <2>2, <3>1
    <3> QED
      BY <3>3, <3>4, <3>6, <3>7, <3>8, <3>11, <3>12, <3>13, ChargeGoesOn
  <2> QED
    BY <2>1, <2>2
<1>8. CASE p = 0
  BY <1>5, <1>6, <1>8, Zenon DEF E!Charging, E!Never, PeakNow, HoldBefore
<1>9. CASE p # 0
  <2>1. before = HoldBefore(gap)
    <3>1. up
      BY <1>1, <1>9
    <3> QED
      BY <3>1
  <2>2. PICK e \in {enough, TRUE} :
             LET ready == e /\ old >= MinAge
                 held == E!Holds(E!Fed(gap, p), PeakNow(gap, p), before, eval + gap, ready)
             IN IF held.hold >= HoldTime
                THEN E!Close("low_power")
                ELSE /\ window' = E!Fed(gap, p) /\ peak' = PeakNow(gap, p)
                     /\ hold' = held.hold /\ grace' = held.grace
                     /\ eval' = 0
                     /\ age' = old /\ enough' = e /\ top' = E!Max({top, p})
                     /\ idle' = -1
                     /\ UNCHANGED <<charging, E!gate>>
    BY <1>9, Zenon DEF E!Charging, E!Never, PeakNow, HoldBefore
  <2> HIDE DEF before, old
  <2>3. LET ready == e /\ old >= MinAge
            held == HeldNow(gap, p, ready)
        IN IF held.hold >= HoldTime
           THEN E!Close("low_power")
           ELSE /\ window' = E!Fed(gap, p) /\ peak' = PeakNow(gap, p)
                /\ hold' = held.hold /\ grace' = held.grace
                /\ eval' = 0
                /\ age' = old /\ enough' = e /\ top' = E!Max({top, p})
                /\ idle' = -1
                /\ UNCHANGED <<charging, E!gate>>
    BY <2>1, <2>2, Zenon DEF HeldNow
  <2> QED
    BY <1>7, <1>9, <2>3 DEF old
<1> QED
  BY <1>8, <1>9

(* A reading while there is no charge. *)
LEMMA MayBeginStep ==
  ASSUME RulesInv, NEW gap \in 1..MaxGap, NEW p \in Powers, NEW up \in BOOLEAN,
         ~charging, E!MayBegin(E!Fed(gap, p), gap), judged' = FALSE, E!Note(gap, up, p)
  PROVE  RulesInv' /\ (charging' => ~residual')
<1> DEFINE run == IF above = -1 THEN 0 ELSE above + gap
           high == E!MedianOf(E!Fed(gap, p), Fast) >= E!ThresholdNow
<1>1. /\ RuleTypes /\ gap \in Nat /\ StartHold \in Nat \ {0} /\ above \in Nat \cup {-1}
      /\ IsWindow(window)
  BY RulesFacts DEF RulesInv, RuleTypes
<1>2. run \in Nat
  BY <1>1
<1>3. CASE /\ high /\ E!Begin(E!Fed(gap, p), run)
           /\ above' = -1 /\ post' = FALSE /\ UNCHANGED restart
  <2> HIDE DEF run
  <2> QED
    BY <1>2, <1>3, ChargeBegins
<1>4. CASE /\ window' = E!Fed(gap, p)
           /\ above' = (IF high THEN run ELSE -1)
           /\ UNCHANGED <<peak, hold, grace, eval, post, restart, E!energy>>
  <2>1. /\ peak' = peak /\ hold' = hold /\ grace' = grace /\ eval' = eval /\ restart' = restart
        /\ age' = age /\ enough' = enough /\ top' = top /\ idle' = idle /\ post' = post
        /\ charging' = charging
    BY <1>4, Zenon DEF E!energy
  <2>2. charging' \in BOOLEAN /\ ~charging' /\ post' \in BOOLEAN
    BY <1>1, <2>1, Zenon DEF RuleTypes
  <2>3. above' \in Nat \cup {-1}
    <3> HIDE DEF run, high
    <3> QED
      BY <1>2, <1>4
  <2>4. IsWindow(window')
    <3>1. FedRight(E!Fed(gap, p), gap, p)
      BY <1>1, RulesFed
    <3> QED
      BY <1>4, <3>1 DEF FedRight
  <2> QED
    BY <1>4, <2>1, <2>2, <2>3, <2>4, NoChargeYet
<1> QED
  BY <1>3, <1>4, Zenon DEF E!MayBegin, E!Never

LEMMA RulesStep ==
  ASSUME RulesInv, E!Next
  PROVE  RulesInv' /\ (~charging /\ charging' => ~residual')
<1>1. PICK gap \in 1..MaxGap, p \in Powers, up \in BOOLEAN :
         (p > 0 => up) /\ E!Sample(gap, up, p) /\ E!Note(gap, up, p)
  BY Zenon DEF E!Next
<1>2. RuleTypes /\ gap \in Nat /\ p \in Nat /\ StartHold \in Nat /\ IsWindow(window)
  BY RulesFacts DEF RulesInv, RuleTypes
<1>3. CASE charging /\ E!Charging(E!Fed(gap, p), p, gap, up) /\ judged' = (~charging' /\ p > 0)
  BY <1>1, <1>3, ChargingStep
<1>4. CASE charging /\ E!Close("user_off") /\ judged' = FALSE
  <2> DEFINE reason == "user_off"
  <2>1. E!Close(reason) /\ (reason = "unplug" => ~up)
    BY <1>4
  <2>2. judged' \in BOOLEAN /\ (judged' => HeldNow(gap, p, TRUE).hold >= HoldTime)
    BY <1>4
  <2> HIDE DEF reason
  <2> QED
    BY <1>1, <1>4, <2>1, <2>2, ChargeEnds
<1>5. CASE ~charging /\ E!MayBegin(E!Fed(gap, p), gap) /\ judged' = FALSE
  BY <1>1, <1>5, MayBeginStep
<1>6. CASE ~charging /\ E!NotAsked(E!Fed(gap, p), gap) /\ judged' = FALSE
  <2>1. /\ peak' = peak /\ hold' = hold /\ grace' = grace /\ eval' = eval /\ restart' = restart
        /\ age' = age /\ enough' = enough /\ top' = top /\ idle' = idle /\ post' = post
        /\ charging' = charging /\ window' = E!Fed(gap, p)
        /\ above' = E!Later(above, gap, StartHold)
    BY <1>6, Zenon DEF E!NotAsked, E!energy
  <2>2. charging' \in BOOLEAN /\ ~charging' /\ post' \in BOOLEAN
    BY <1>2, <1>6, <2>1, Zenon DEF RuleTypes
  <2>3. above' \in Nat \cup {-1}
    <3>1. above \in Nat \cup {-1}
      BY <1>2 DEF RuleTypes
    <3> QED
      BY <1>2, <2>1, <3>1, MinOfTwo DEF E!Later, E!Never
  <2>4. IsWindow(window')
    <3>1. FedRight(E!Fed(gap, p), gap, p)
      BY <1>2, RulesFed
    <3> QED
      BY <2>1, <3>1 DEF FedRight
  <2> QED
    BY <1>1, <1>6, <2>1, <2>2, <2>3, <2>4, NoChargeYet
<1>7. CASE ~charging /\ ~up /\ E!Skipped(gap) /\ judged' = FALSE
  <2>1. /\ peak' = peak /\ hold' = hold /\ grace' = grace /\ eval' = eval /\ restart' = restart
        /\ age' = age /\ enough' = enough /\ top' = top /\ idle' = idle /\ post' = FALSE
        /\ charging' = charging /\ window' = E!Aged(gap) /\ above' = -1
    BY <1>7, Zenon DEF E!Skipped, E!NoLoad, E!Never, E!energy
  <2>2. charging' \in BOOLEAN /\ ~charging' /\ post' \in BOOLEAN
    BY <1>2, <1>7, <2>1, Zenon DEF RuleTypes
  <2>3. IsWindow(window')
    BY <1>2, <2>1, AgedFacts
  <2>4. ~(p > 500) /\ ~up
    BY <1>1, <1>2, <1>7
  <2> QED
    BY <1>1, <1>7, <2>1, <2>2, <2>3, <2>4, NoChargeYet
<1> QED
  BY <1>1, <1>3, <1>4, <1>5, <1>6, <1>7, Zenon DEF E!Sample

LEMMA RulesUnchanged ==
  ASSUME RulesInv, UNCHANGED eVars
  PROVE  RulesInv' /\ UNCHANGED E!vars
<1>1. /\ window' = window /\ peak' = peak /\ hold' = hold /\ grace' = grace /\ eval' = eval
      /\ post' = post /\ restart' = restart /\ above' = above /\ charging' = charging
      /\ age' = age /\ enough' = enough /\ top' = top /\ idle' = idle /\ tail' = tail
      /\ strong' = strong /\ calm' = calm /\ residual' = residual /\ judged' = judged
  BY Zenon DEF eVars
<1>2. RuleTypes'
  <2>1. RuleTypes
    BY DEF RulesInv
  <2>2. IsWindow(window')
    BY <1>1, <2>1, Zenon DEF RuleTypes
  <2>3. /\ peak' \in Nat /\ grace' \in Nat /\ eval' \in Nat /\ restart' \in Nat
        /\ age' \in Nat /\ top' \in Nat /\ calm' \in Nat
    BY <1>1, <2>1 DEF RuleTypes
  <2>4. /\ hold' \in Nat \cup {-1} /\ above' \in Nat \cup {-1} /\ idle' \in Nat \cup {-1}
        /\ tail' \in Nat \cup {-1} /\ strong' \in Nat \cup {-1}
    BY <1>1, <2>1 DEF RuleTypes
  <2>5. /\ post' \in BOOLEAN /\ charging' \in BOOLEAN /\ enough' \in BOOLEAN
        /\ residual' \in BOOLEAN /\ judged' \in BOOLEAN
    BY <1>1, <2>1, Zenon DEF RuleTypes
  <2> QED
    BY <2>2, <2>3, <2>4, <2>5, Zenon DEF RuleTypes
<1>3. TailIsHeld' /\ StrongIsSeen'
  BY <1>1 DEF RulesInv, TailIsHeld, StrongIsSeen, EarnestIn, E!FullBy
<1>4. HoldIsCalm' /\ ResidueIsLow'
  BY <1>1, Zenon DEF RulesInv, HoldIsCalm, ResidueIsLow
<1>5. E!ConvergedIsCalm'
  BY <1>1, Zenon DEF RulesInv, E!ConvergedIsCalm
<1>6. UNCHANGED E!vars
  BY <1>1, Zenon DEF E!vars, E!detector, E!gate, E!energy, E!history
<1> QED
  BY <1>2, <1>3, <1>4, <1>5, <1>6 DEF RulesInv

LEMMA RulesAlways ==
  ASSUME RulesInv, [Next]_vars
  PROVE  RulesInv' /\ [~charging /\ charging' => ~residual']_E!vars
<1>1. CASE Charge
  BY <1>1, RulesStep DEF Charge
<1>2. CASE ~Charge
  <2>1. UNCHANGED eVars
    BY <1>2, Zenon DEF Next, Settings, History, Protocols, vars
  <2> QED
    BY <2>1, RulesUnchanged
<1> QED
  BY <1>1, <1>2

(* What the invariant is for. *)
LEMMA RulesTypeOK ==
  ASSUME RulesInv
  PROVE  E!TypeOK /\ E!FullIsNoticed /\ E!ConvergedIsCalm
<1>1. RuleTypes
  BY DEF RulesInv
<1>2. E!ConvergedIsCalm
  BY DEF RulesInv
<1>3. E!FullIsNoticed
  <2>1. CASE tail = -1
    <3>1. Slow \in Nat /\ MaxGap \in Nat \ {0} /\ HoldTime \in Nat \ {0}
      BY RulesFacts
    <3> QED
      BY <2>1, <3>1 DEF E!FullIsNoticed, E!FullBy
  <2>2. CASE tail # -1
    BY <2>2 DEF RulesInv, TailIsHeld, E!FullIsNoticed
  <2> QED
    BY <2>1, <2>2
<1>4. window \in Seq([power : Powers, ago : 0..Assess])
  <2>1. window \in Seq(Reading) /\ \A r \in ReadingsOf(window) : r.ago <= Assess
    BY <1>1 DEF RuleTypes, IsWindow
  <2>2. /\ Len(window) \in Nat /\ DOMAIN window = 1..Len(window)
        /\ \A i \in 1..Len(window) : window[i] \in Reading /\ window[i].ago \in Nat
    BY <2>1, ReadingFacts
  <2>3. ASSUME NEW i \in 1..Len(window)
        PROVE  window[i] \in [power : Powers, ago : 0..Assess]
    <3>1. window[i].ago <= Assess
      BY <2>1 DEF ReadingsOf
    <3>2. window[i] \in [power : Powers, ago : Nat] /\ window[i].ago \in 0..Assess
      BY <2>2, <3>1, RulesFacts DEF Reading
    <3> QED
      BY <3>2
  <2>4. window = [i \in 1..Len(window) |-> window[i]]
    BY <2>1, <2>2, SeqDef
  <2> DEFINE Young == [power : Powers, ago : 0..Assess]
  <2>5. \A i \in 1..Len(window) : window[i] \in Young
    BY <2>3
  <2> HIDE DEF Young
  <2>6. window \in [1..Len(window) -> Young]
    BY <2>4, <2>5
  <2>7. window \in Seq(Young)
    BY <2>2, <2>6, SeqDef
  <2> QED
    BY <2>7 DEF Young
<1>5. {peak, grace, eval, restart, age, top, calm} \subseteq Nat
  BY <1>1 DEF RuleTypes
<1>6. {hold, above, idle, tail, strong} \subseteq Nat \cup {-1}
  BY <1>1 DEF RuleTypes
<1>7. {post, charging, enough, residual, judged} \subseteq BOOLEAN
  BY <1>1, Zenon DEF RuleTypes
<1> QED
  BY <1>2, <1>3, <1>4, <1>5, <1>6, <1>7, Zenon DEF E!TypeOK, E!Never

LEMMA RulesHoldAlways == Spec => []RulesInv
<1>1. RulesInv /\ [Next]_vars => RulesInv'
  BY RulesAlways
<1> QED
  BY RulesInit, <1>1, PTL DEF Spec

(* A full device is noticed in time, a charge in earnest is never ended as
   converged, and a residue begins no new charge: for any readings, at any
   pace, however long the windows and the holds are (should_end, should_start). *)
THEOREM RulesAlwaysHold == Spec => RulesHold
<1>1. Init => RulesInv
  BY RulesInit
<1>2. RulesInv /\ [Next]_vars => RulesInv'
  BY RulesAlways
<1>3. RulesInv /\ [Next]_vars => [~charging /\ charging' => ~residual']_E!vars
  BY RulesAlways
<1>4. RulesInv => E!FullIsNoticed /\ E!ConvergedIsCalm
  BY RulesTypeOK
<1> QED
  BY <1>1, <1>2, <1>3, <1>4, PTL DEF Spec, RulesHold, E!ResidueOpensNothing

-----------------------------------------------------------------------------
(* The settings, the history, the switches and the rules keep their types. *)
THEOREM StoresTypes == Spec => []TypesOK
<1>1. StoreInv => S!TypeOK
  <2> SUFFICES ASSUME StoreInv PROVE S!TypeOK
    OBVIOUS
  <2>1. /\ limit \in Settled /\ fullOff \in Settled /\ permanent \in SUBSET Ports
        /\ table \in [limit : Settled, fullOff : Settled, permanent : SUBSET Ports]
        /\ unsaved \in SUBSET Keys /\ faults \in 0..MaxFaults
        /\ writes \in Seq([op : {"limit", "fullOff"}, set : Settled])
    BY DEF StoreInv, StoreTypes, TableSet
  <2>2. ASSUME NEW r \in Requests
        PROVE  /\ req[r].limit \in Settled /\ req[r].fullOff \in Settled
               /\ req[r].permanent \in SUBSET Ports
    BY AtWork DEF RequestSet
  <2>3. unsaved \subseteq DOMAIN S!Missing
    BY <2>1 DEF S!Missing, Keys
  <2>4. \A r \in Requests : {req[r].limit, req[r].fullOff} \subseteq Settled
    BY <2>2
  <2> QED
    BY <2>1, <2>2, <2>3, <2>4, Zenon DEF S!TypeOK, Settled
<1>2. BufferInv => D!TypeOK
  BY DEF BufferInv, BufferTypes, LockIsHeld, Inside, D!TypeOK
<1>3. SwitchInv => P!TypeOK
  <2> SUFFICES ASSUME SwitchInv PROVE P!TypeOK
    OBVIOUS
  <2>1. /\ charger \in SUBSET P!Bits /\ copy \in SUBSET P!Bits
        /\ Len(commands) <= MaxCommands
    BY DEF SwitchInv, SwitchTypes
  <2>2. ASSUME NEW i \in DOMAIN commands
        PROVE  commands[i].by \in Clients \union {P!NoOne} /\ commands[i].val \subseteq P!Bits
    <3>1. commands[i] \in CommandSet
      <4>1. commands \in Seq(CommandSet)
        BY DEF SwitchInv, SwitchTypes
      <4> QED
        BY <4>1, ElementOfSeq
    <3> QED
      BY <3>1 DEF CommandSet
  <2>3. Cardinality(resuming) <= 1
    <3>1. CASE resuming = {}
      BY <3>1, FS_EmptySet
    <3>2. CASE \E r : resuming = {r}
      <4>1. PICK r : resuming = {r}
        BY <3>2
      <4>2. Cardinality({r}) = 1
        BY FS_Singleton
      <4> QED
        BY <4>1, <4>2
    <3> QED
      BY <3>1, <3>2 DEF SwitchInv, SwitchTypes
  <2> QED
    BY <2>1, <2>2, <2>3, SwitchSets DEF P!TypeOK
<1>4. RulesInv => E!TypeOK
  BY RulesTypeOK
<1> QED
  BY <1>1, <1>2, <1>3, <1>4, StoreAlways, BufferAlways, SwitchAlways, RulesHoldAlways, PTL
     DEF TypesOK
=============================================================================
