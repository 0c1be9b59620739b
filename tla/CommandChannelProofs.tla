------------------------ MODULE CommandChannelProofs ------------------------
(***************************************************************************)
(* Proofs about CommandChannel for any ports, calls, queue size and bounds: *)
(* its types, that a port command writes a mask that is fresh, and that    *)
(* it implements CommandService, step by step.                             *)
(***************************************************************************)
EXTENDS CommandChannel, SequenceTheorems, WellFoundedInduction, TLAPS

Ops == {"get", "set"}
Requested == [op : Ops, call : Calls, set : Masks, base : Masks, sure : BOOLEAN]
Frames == {f \in [op : Ops, mask : Masks \union {Unknown}] :
              f.op = "get" => f.mask \in Masks}
Runs == [step : Ops \union {"idle"}, call : Calls \union {NoCall},
         base : Masks, sure : BOOLEAN]

Typed ==
    /\ link \in BOOLEAN
    /\ mask \in Masks
    /\ cache \in Masks \union {Unknown}
    /\ want \in [Calls -> Requests]
    /\ place \in [Calls -> {"new", "putting", "queue", "loop", "gone"}]
    /\ queue \in Seq(Calls) /\ queued \in Seq(Calls) /\ executed \in Seq(Calls)
    /\ run \in Runs
    /\ wire \in Seq(Requested)
    /\ inbox \in Seq(Frames)
    /\ answer \in [Calls -> {"none", "ok", "failed"}]

(* Of the calls that got into the queue, in their order, so many have left it
   for the command loop; the others are in it still, and only they. *)
Taken == Len(queued) - Len(queue)
Position == 1..Len(queued)

QueueIsRest ==
    /\ Len(queue) <= QueueSize
    /\ Len(queue) <= Len(queued)
    /\ \A i \in 1..Len(queue) : queue[i] = queued[Taken + i]
    /\ \A m, n \in Position : queued[m] = queued[n] => m = n
    /\ \A n \in Position : /\ n > Taken => place[queued[n]] = "queue"
                           /\ n <= Taken => place[queued[n]] \in {"loop", "gone"}

(* One command at a time is under way: the one that was taken last. *)
OneUnderWay ==
    /\ run.step = "idle" => run.call = NoCall
    /\ run.step # "idle" => /\ Taken >= 1
                            /\ run.call = queued[Taken]
                            /\ place[run.call] = "loop"
    /\ \A c \in Calls : place[c] = "loop" => run.step # "idle" /\ run.call = c

(* What the charger has not answered was sent in the order of the queue, a
   command's SET behind its GET and once, and all of it behind what the
   charger has carried out. *)
WireInOrder ==
    /\ \A i \in 1..Len(wire) : \E n \in 1..Taken : queued[n] = wire[i].call
    /\ \A i, j \in 1..Len(wire), m, n \in 1..Taken :
          i < j /\ queued[m] = wire[i].call /\ queued[n] = wire[j].call
             => m <= n /\ (wire[i].op = "set" => m < n)
    /\ run.step = "get" =>
          \A i \in 1..Len(wire) : wire[i].op = "set" => wire[i].call # run.call

ExecutedFirst ==
    /\ \A e \in 1..Len(executed) : \E n \in 1..Taken : queued[n] = executed[e]
    /\ \A e \in 1..Len(executed), i \in 1..Len(wire), m, n \in 1..Taken :
          queued[m] = executed[e] /\ queued[n] = wire[i].call => m < n
    /\ run.step = "get" => \A e \in 1..Len(executed) : executed[e] # run.call

(* A command that was sent when nothing else was outstanding is alone: what is
   on the wire and in the inbox is its own, and what it hears is true. *)
Own(i) == wire[i].op = run.step /\ wire[i].call = run.call
Heard(f) ==
    /\ f.op = run.step
    /\ \/ run.call \in met
       \/ f.op = "get" /\ Modify(run.call, f.mask) # f.mask
UndoubtedIsAlone ==
    run.step # "idle" /\ run.call \notin doubtful
       => /\ Len(wire) <= 1
          /\ \A i \in 1..Len(wire) : Own(i)
          /\ \A i \in 1..Len(inbox) : Heard(inbox[i])

(* A mask that was read when nothing else was outstanding is the charger's
   until it is written back, or a switch from outside says otherwise. *)
SureIsFresh ==
    /\ run.sure => /\ run.step = "get"
                   /\ Len(wire) <= 1
                   /\ \A i \in 1..Len(wire) : wire[i].op = "get"
                   /\ \A i \in 1..Len(inbox) :
                         inbox[i].op = "get" => inbox[i].mask = mask
    /\ \A i \in 1..Len(wire) : wire[i].sure =>
          i = 1 /\ wire[i].op = "set" /\ wire[i].base = mask

ChannelInv ==
    /\ Typed /\ QueueIsRest /\ OneUnderWay /\ WireInOrder /\ ExecutedFirst
    /\ UndoubtedIsAlone /\ SureIsFresh

-----------------------------------------------------------------------------
(* The operators. *)

LEMMA Least ==
  ASSUME NEW T, T \subseteq Nat, T # {}
  PROVE  \E x \in T : \A y \in T : x <= y
<1> DEFINE R == {ss \in Nat \X Nat : ss[1] < ss[2]}
<1>1. IsWellFoundedOn(R, Nat)
  BY NatLessThanWellFounded DEF OpToRel
<1>2. ASSUME NEW a \in Nat, NEW b \in Nat, a < b
      PROVE  <<a, b>> \in R
  BY <1>2
<1> HIDE DEF R
<1>3. PICK x \in T : \A y \in T : <<y, x>> \notin R
  BY <1>1, WFMin
<1>4. ASSUME NEW y \in T PROVE x <= y
  <2>1. x \in Nat /\ y \in Nat
    OBVIOUS
  <2>2. ~(y < x)
    BY <1>2, <1>3, <2>1
  <2> QED
    BY <2>1, <2>2
<1> QED
  BY <1>4

(* _recv_get_response and _recv_set_response return a frame of the inbox of
   the kind they wait for. *)
LEMMA FirstFacts ==
  ASSUME inbox \in Seq(Frames), NEW op, Arrived(op) # {}
  PROVE  \E i \in 1..Len(inbox) : inbox[i].op = op /\ First(op) = inbox[i]
<1>1. Arrived(op) \subseteq Nat /\ Arrived(op) \subseteq 1..Len(inbox)
  BY DEF Arrived
<1>2. \E i \in Arrived(op) : \A j \in Arrived(op) : i <= j
  BY <1>1, Least
<1> DEFINE i == CHOOSE i \in Arrived(op) : \A j \in Arrived(op) : i <= j
<1>3. i \in Arrived(op)
  BY <1>2
<1>4. First(op) = inbox[i]
  BY DEF First
<1> QED
  BY <1>1, <1>3, <1>4 DEF Arrived

(* Whatever a call asks for, it makes a mask of a mask. *)
LEMMA ModifyType ==
  ASSUME Typed, NEW c \in Calls, NEW base \in Masks
  PROVE  Modify(c, base) \in Masks
<1>1. want[c].ports \in SUBSET Ports
  BY DEF Typed, Requests
<1> QED
  BY <1>1 DEF Modify, Masks

LEMMA ReplyType ==
  ASSUME Typed, NEW c \in Calls, NEW a \in {"ok", "failed"}
  PROVE  Reply(c, a) \in [Calls -> {"none", "ok", "failed"}]
  BY DEF Typed, Reply

LEMMA SetType ==
  ASSUME Typed, NEW c \in Calls, NEW base \in Masks, NEW sure \in BOOLEAN
  PROVE  Set(c, base, sure) \in Requested
  BY ModifyType DEF Set, Requested, Ops

LEMMA GetType ==
  ASSUME NEW c \in Calls
  PROVE  Get(c) \in Requested
  BY DEF Get, Requested, Ops, Masks

LEMMA TailFacts ==
  ASSUME NEW S, NEW s \in Seq(S), s # <<>>
  PROVE  /\ Tail(s) \in Seq(S)
         /\ Len(s) \in Nat /\ Len(s) >= 1
         /\ Len(Tail(s)) = Len(s) - 1
         /\ Head(s) = s[1] /\ Head(s) \in S
         /\ \A i \in 1..Len(Tail(s)) : Tail(s)[i] = s[i + 1]
  BY HeadTailProperties, LenProperties, EmptySeq

LEMMA TakenFacts ==
  ASSUME Typed, QueueIsRest
  PROVE  /\ Taken \in Nat /\ Len(queue) \in Nat /\ Len(queued) \in Nat
         /\ Taken <= Len(queued)
         /\ \A n \in 1..Taken : n \in Position /\ queued[n] \in Calls
         /\ \A n \in Position : queued[n] \in Calls
  BY DEF Typed, QueueIsRest, Taken, Position

(* Steps that leave the queue, the loop and the charger alone. *)
LEMMA OrderFrame ==
  ASSUME WireInOrder, ExecutedFirst, UNCHANGED <<queue, queued, run, wire, executed>>
  PROVE  WireInOrder' /\ ExecutedFirst'
<1>1. Taken' = Taken
  BY DEF Taken
<1>2. WireInOrder'
  BY <1>1 DEF WireInOrder
<1>3. ExecutedFirst'
  BY <1>1 DEF ExecutedFirst
<1> QED
  BY <1>2, <1>3

-----------------------------------------------------------------------------
(* A step that only appends to the queue's history. *)
LEMMA OrderGrows ==
  ASSUME WireInOrder, ExecutedFirst, UNCHANGED <<run, wire, executed>>,
         Taken' = Taken, \A n \in 1..Taken : queued'[n] = queued[n]
  PROVE  WireInOrder' /\ ExecutedFirst'
<1>1. WireInOrder'
  <2>1. \A i \in 1..Len(wire) : \E n \in 1..Taken : queued'[n] = wire[i].call
    BY DEF WireInOrder
  <2>2. \A i, j \in 1..Len(wire), m, n \in 1..Taken :
           i < j /\ queued'[m] = wire[i].call /\ queued'[n] = wire[j].call
              => m <= n /\ (wire[i].op = "set" => m < n)
    BY DEF WireInOrder
  <2> QED
    BY <2>1, <2>2 DEF WireInOrder
<1>2. ExecutedFirst'
  <2>1. \A e \in 1..Len(executed) : \E n \in 1..Taken : queued'[n] = executed[e]
    BY DEF ExecutedFirst
  <2>2. \A e \in 1..Len(executed), i \in 1..Len(wire), m, n \in 1..Taken :
           queued'[m] = executed[e] /\ queued'[n] = wire[i].call => m < n
    BY DEF ExecutedFirst
  <2> QED
    BY <2>1, <2>2 DEF ExecutedFirst
<1> QED
  BY <1>1, <1>2

LEMMA ChannelInit == Init => ChannelInv
  <1> SUFFICES ASSUME Init PROVE ChannelInv
    OBVIOUS
  <1>1. want \in [Calls -> Requests]
    BY ChannelAssumption DEF Init
  <1>2. Typed
    BY <1>1 DEF Init, Typed, Masks, Runs, Resting, Ops
  <1>3. QueueIsRest
    BY ChannelAssumption DEF Init, QueueIsRest, Taken, Position
  <1>4. OneUnderWay /\ WireInOrder /\ ExecutedFirst /\ UndoubtedIsAlone /\ SureIsFresh
    BY DEF Init, OneUnderWay, WireInOrder, ExecutedFirst, UndoubtedIsAlone,
           SureIsFresh, Resting
  <1> QED
    BY <1>2, <1>3, <1>4 DEF ChannelInv

(* send_command, at the caller. *)
LEMMA AskKeeps ==
  ASSUME ChannelInv, NEW c \in Calls, Ask(c)
  PROVE  ChannelInv'
<1> USE DEF ChannelInv
<1>1. UNCHANGED <<link, cache, want, queue, queued, run, mask, wire, executed>>
      /\ UNCHANGED <<met, inbox, doubtful>>
  BY DEF Ask, charger
<1>2. place[c] = "new" /\ place'[c] \in {"putting", "gone"}
      /\ \A d \in Calls \ {c} : place'[d] = place[d]
      /\ place' \in [Calls -> {"new", "putting", "queue", "loop", "gone"}]
  BY DEF Ask, Typed
<1>3. Typed'
  BY <1>1, <1>2, ReplyType DEF Typed, Ask
<1>4. QueueIsRest'
  BY <1>1, <1>2, TakenFacts DEF QueueIsRest, Taken, Position
<1>5. OneUnderWay'
  BY <1>1, <1>2 DEF OneUnderWay, Taken, Typed
<1>6. WireInOrder' /\ ExecutedFirst'
  BY <1>1, OrderFrame
<1>7. UndoubtedIsAlone' /\ SureIsFresh'
  BY <1>1 DEF UndoubtedIsAlone, SureIsFresh, Own, Heard, Modify
<1> QED
  BY <1>3, <1>4, <1>5, <1>6, <1>7

LEMMA PutKeeps ==
  ASSUME ChannelInv, NEW c \in Calls, Put(c)
  PROVE  ChannelInv'
<1> USE DEF ChannelInv
<1>1. UNCHANGED <<link, cache, want, run, mask, wire, executed, met, inbox>>
      /\ UNCHANGED <<doubtful, answer>>
  BY DEF Put, charger
<1>2. /\ place[c] = "putting" /\ place'[c] = "queue"
      /\ \A d \in Calls \ {c} : place'[d] = place[d]
      /\ place' \in [Calls -> {"new", "putting", "queue", "loop", "gone"}]
  BY DEF Put, Typed
<1>3. /\ queue' \in Seq(Calls) /\ Len(queue') = Len(queue) + 1
      /\ \A i \in 1..Len(queue) : queue'[i] = queue[i]
      /\ queue'[Len(queue) + 1] = c
  BY AppendProperties DEF Put, Typed
<1>4. /\ queued' \in Seq(Calls) /\ Len(queued') = Len(queued) + 1
      /\ \A i \in 1..Len(queued) : queued'[i] = queued[i]
      /\ queued'[Len(queued) + 1] = c
  BY AppendProperties DEF Put, Typed
<1>5. Taken' = Taken /\ Taken \in Nat /\ Taken <= Len(queued)
      /\ Len(queue) \in Nat /\ Len(queued) \in Nat
  BY <1>3, <1>4, TakenFacts DEF Taken
<1>6. Typed'
  BY <1>1, <1>2, <1>3, <1>4 DEF Typed
<1>7. QueueIsRest'
  <2>1. Len(queue') <= QueueSize
    BY <1>3, <1>5, ChannelAssumption DEF Put, Room
  <2>2. \A i \in 1..Len(queue') : queue'[i] = queued'[Taken' + i]
    <3> SUFFICES ASSUME NEW i \in 1..Len(queue') PROVE queue'[i] = queued'[Taken + i]
      BY <1>5
    <3>1. CASE i = Len(queue) + 1
      BY <1>3, <1>4, <1>5, <3>1 DEF Taken
    <3>2. CASE i \in 1..Len(queue)
      <4>1. queue[i] = queued[Taken + i] /\ Taken + i \in 1..Len(queued)
        BY <1>5, <3>2 DEF QueueIsRest, Taken
      <4> QED
        BY <1>3, <1>4, <3>2, <4>1
    <3> QED
      BY <1>3, <1>5, <3>1, <3>2
  <2>3. ASSUME NEW n \in Position PROVE queued[n] # c
    <3>1. n > Taken \/ n <= Taken
      BY <1>5 DEF Position
    <3>2. place[queued[n]] \in {"queue", "loop", "gone"}
      BY <3>1 DEF QueueIsRest
    <3> QED
      BY <1>2, <3>2
  <2>4. \A m, n \in Position' : queued'[m] = queued'[n] => m = n
    BY <1>4, <1>5, <2>3 DEF QueueIsRest, Position
  <2>5. \A n \in Position' : /\ n > Taken' => place'[queued'[n]] = "queue"
                             /\ n <= Taken' => place'[queued'[n]] \in {"loop", "gone"}
    BY <1>2, <1>4, <1>5, <2>3, TakenFacts DEF QueueIsRest, Position
  <2>6. Len(queue') <= Len(queued')
    BY <1>3, <1>4, <1>5 DEF QueueIsRest
  <2> QED
    BY <2>1, <2>2, <2>4, <2>5, <2>6 DEF QueueIsRest
<1>8. \A n \in 1..Taken' : queued'[n] = queued[n]
  BY <1>4, <1>5
<1>9. OneUnderWay'
  <2>1. ASSUME run.step # "idle"
        PROVE  Taken >= 1 /\ run.call = queued'[Taken] /\ place'[run.call] = "loop"
    <3>1. /\ Taken >= 1 /\ run.call = queued[Taken] /\ place[run.call] = "loop"
          /\ run.call \in Calls
      BY <2>1, TakenFacts DEF OneUnderWay
    <3> QED
      BY <1>2, <1>5, <1>8, <3>1
  <2>2. ASSUME NEW d \in Calls, place'[d] = "loop"
        PROVE  run.step # "idle" /\ run.call = d
    BY <1>2, <2>2 DEF OneUnderWay
  <2>3. run.step = "idle" => run.call = NoCall
    BY DEF OneUnderWay
  <2> QED
    BY <1>1, <1>5, <2>1, <2>2, <2>3 DEF OneUnderWay
<1>10. WireInOrder' /\ ExecutedFirst'
  BY <1>1, <1>5, <1>8, OrderGrows
<1>11. UndoubtedIsAlone' /\ SureIsFresh'
  BY <1>1 DEF UndoubtedIsAlone, SureIsFresh, Own, Heard, Modify
<1> QED
  BY <1>6, <1>7, <1>9, <1>10, <1>11

LEMMA GiveUpKeeps ==
  ASSUME ChannelInv, NEW c \in Calls, GiveUp(c)
  PROVE  ChannelInv'
<1> USE DEF ChannelInv
<1>1. UNCHANGED <<link, cache, want, place, queue, queued, run, mask, wire>>
      /\ UNCHANGED <<executed, met, inbox, doubtful>>
  BY DEF GiveUp, charger, callers
<1>2. Typed'
  BY <1>1, ReplyType DEF Typed, GiveUp
<1>3. QueueIsRest' /\ OneUnderWay'
  BY <1>1 DEF QueueIsRest, Position, OneUnderWay, Taken
<1>4. WireInOrder' /\ ExecutedFirst'
  BY <1>1, OrderFrame
<1>5. UndoubtedIsAlone' /\ SureIsFresh'
  BY <1>1 DEF UndoubtedIsAlone, SureIsFresh, Own, Heard, Modify
<1> QED
  BY <1>2, <1>3, <1>4, <1>5

-----------------------------------------------------------------------------
(* The command loop. *)

(* A command ends, with whatever answer; the wire and the inbox are as they
   were or empty. *)
LEMMA FinishKeeps ==
  ASSUME ChannelInv, run.step # "idle", NEW a \in {"ok", "failed"},
         Finish(run.call, a),
         UNCHANGED <<want, queue, queued, mask, executed>>,
         wire' \in {wire, <<>>}, inbox' \in {inbox, <<>>},
         link' \in BOOLEAN, cache' \in Masks \union {Unknown}
  PROVE  ChannelInv'
<1> USE DEF ChannelInv
<1>1. run.call \in Calls /\ place[run.call] = "loop"
  BY TakenFacts DEF OneUnderWay
<1>2. run' = Resting /\ Resting \in Runs
  BY DEF Finish, Resting, Runs, Ops, Masks
<1>3. Taken' = Taken
  BY DEF Taken
<1>4. /\ place'[run.call] = "gone"
      /\ \A d \in Calls \ {run.call} : place'[d] = place[d]
      /\ place' \in [Calls -> {"new", "putting", "queue", "loop", "gone"}]
  BY <1>1 DEF Finish, Typed
<1>5. Typed'
  <2>1. wire' \in Seq(Requested)
    BY EmptySeq DEF Typed
  <2>2. inbox' \in Seq(Frames)
    BY EmptySeq DEF Typed
  <2> QED
    BY <1>1, <1>2, <1>4, <2>1, <2>2, ReplyType DEF Typed, Finish
<1>6. QueueIsRest'
  <2>1. ASSUME NEW n \in Position, n > Taken PROVE place'[queued[n]] = "queue"
    BY <1>1, <1>4, <2>1, TakenFacts DEF QueueIsRest
  <2>2. ASSUME NEW n \in Position, n <= Taken
        PROVE  place'[queued[n]] \in {"loop", "gone"}
    BY <1>4, <2>2, TakenFacts DEF QueueIsRest
  <2> QED
    BY <1>3, <2>1, <2>2 DEF QueueIsRest, Position
<1>7. OneUnderWay'
  BY <1>1, <1>2, <1>4 DEF OneUnderWay, Resting
<1>8. run'.step = "idle" /\ ~run'.sure
  BY <1>2 DEF Resting
<1>9. WireInOrder' /\ ExecutedFirst' /\ SureIsFresh'
  <2>1. CASE wire' = wire
    BY <1>3, <1>8, <2>1 DEF WireInOrder, ExecutedFirst, SureIsFresh
  <2>2. CASE wire' = <<>>
    <3>1. 1..Len(wire') = {}
      BY <2>2
    <3> QED
      BY <1>3, <1>8, <3>1 DEF WireInOrder, ExecutedFirst, SureIsFresh
  <2> QED
    BY <2>1, <2>2
<1>10. UndoubtedIsAlone'
  BY <1>8 DEF UndoubtedIsAlone
<1> QED
  BY <1>5, <1>6, <1>7, <1>9, <1>10

(* A request goes out behind those that are on the wire. *)
LEMMA SendOrder ==
  ASSUME ChannelInv, NEW r \in Requested, wire' = Append(wire, r),
         UNCHANGED <<queued, executed>>,
         Taken' \in {Taken, Taken + 1}, Taken' \in 1..Len(queued),
         r.call = queued[Taken'],
         \A i \in 1..Len(wire) : wire[i].op = "set" => wire[i].call # r.call,
         \A e \in 1..Len(executed) : executed[e] # r.call,
         run'.step = r.op, run'.call = r.call
  PROVE  WireInOrder' /\ ExecutedFirst'
<1> USE DEF ChannelInv
<1>1. /\ Len(wire) \in Nat /\ Len(wire') = Len(wire) + 1
      /\ \A i \in 1..Len(wire) : wire'[i] = wire[i]
      /\ wire'[Len(wire) + 1] = r
  BY AppendProperties, LenProperties DEF Typed
<1>2. Taken \in Nat /\ Len(queued) \in Nat /\ Taken <= Len(queued)
  BY TakenFacts
<1>3. \A m, n \in 1..Taken' : queued[m] = queued[n] => m = n
  BY <1>2 DEF QueueIsRest, Position
<1>4. \A i \in 1..Len(wire), m \in 1..Taken' : queued[m] = wire[i].call => m \in 1..Taken
  <2> SUFFICES ASSUME NEW i \in 1..Len(wire), NEW m \in 1..Taken',
                      queued[m] = wire[i].call
               PROVE  m \in 1..Taken
    OBVIOUS
  <2>1. PICK n \in 1..Taken : queued[n] = wire[i].call
    BY DEF WireInOrder
  <2>2. n \in 1..Taken'
    BY <1>2
  <2>3. m = n
    BY <1>3, <2>1, <2>2
  <2> QED
    BY <2>3
<1>5. \A e \in 1..Len(executed), m \in 1..Taken' : queued[m] = executed[e] => m \in 1..Taken
  <2> SUFFICES ASSUME NEW e \in 1..Len(executed), NEW m \in 1..Taken',
                      queued[m] = executed[e]
               PROVE  m \in 1..Taken
    OBVIOUS
  <2>1. PICK n \in 1..Taken : queued[n] = executed[e]
    BY DEF ExecutedFirst
  <2>2. n \in 1..Taken'
    BY <1>2
  <2>3. m = n
    BY <1>3, <2>1, <2>2
  <2> QED
    BY <2>3
<1>6. \A i \in 1..Len(wire') : i \in 1..Len(wire) \/ i = Len(wire) + 1
  BY <1>1
<1>7. \A i \in 1..Len(wire') : \E n \in 1..Taken' : queued[n] = wire'[i].call
  <2>1. ASSUME NEW i \in 1..Len(wire)
        PROVE  \E n \in 1..Taken' : queued[n] = wire'[i].call
    <3>1. PICK n \in 1..Taken : queued[n] = wire[i].call
      BY DEF WireInOrder
    <3> QED
      BY <1>1, <1>2, <3>1
  <2>2. \E n \in 1..Taken' : queued[n] = wire'[Len(wire) + 1].call
    BY <1>1
  <2> QED
    BY <1>6, <2>1, <2>2
<1>8. ASSUME NEW i \in 1..Len(wire'), NEW j \in 1..Len(wire'),
             NEW m \in 1..Taken', NEW n \in 1..Taken',
             i < j, queued[m] = wire'[i].call, queued[n] = wire'[j].call
      PROVE  m <= n /\ (wire'[i].op = "set" => m < n)
  <2>1. i \in 1..Len(wire) /\ wire'[i] = wire[i]
    BY <1>1, <1>6, <1>8
  <2>2. m \in 1..Taken
    BY <1>4, <1>8, <2>1
  <2>3. CASE j \in 1..Len(wire)
    <3>1. n \in 1..Taken /\ wire'[j] = wire[j]
      BY <1>1, <1>4, <1>8, <2>3
    <3>2. queued[m] = wire[i].call /\ queued[n] = wire[j].call
      BY <1>8, <2>1, <3>1
    <3>3. m <= n /\ (wire[i].op = "set" => m < n)
      BY <1>8, <2>1, <2>2, <2>3, <3>1, <3>2 DEF WireInOrder
    <3> QED
      BY <2>1, <3>3
  <2>4. CASE j = Len(wire) + 1
    <3>1. n = Taken'
      BY <1>1, <1>3, <1>8, <2>4
    <3>2. wire[i].op = "set" => m # n
      BY <1>1, <1>8, <2>1, <2>4
    <3> QED
      BY <1>2, <2>1, <2>2, <3>1, <3>2
  <2>5. j \in 1..Len(wire) \/ j = Len(wire) + 1
    BY <1>6
  <2> QED
    BY <2>3, <2>4, <2>5, Zenon
<1>9. run'.step = "get" =>
         \A i \in 1..Len(wire') : wire'[i].op = "set" => wire'[i].call # run'.call
  BY <1>1, <1>6
<1>10. WireInOrder'
  <2>1. \A i, j \in 1..Len(wire'), m, n \in 1..Taken' :
           i < j /\ queued[m] = wire'[i].call /\ queued[n] = wire'[j].call
              => m <= n /\ (wire'[i].op = "set" => m < n)
    BY <1>8
  <2>2. queued' = queued
    OBVIOUS
  <2> QED
    BY <1>7, <1>9, <2>1, <2>2, SMTT(30) DEF WireInOrder
<1>11. \A e \in 1..Len(executed) : \E n \in 1..Taken' : queued[n] = executed[e]
  <2> SUFFICES ASSUME NEW e \in 1..Len(executed)
               PROVE  \E n \in 1..Taken' : queued[n] = executed[e]
    OBVIOUS
  <2>1. PICK n \in 1..Taken : queued[n] = executed[e]
    BY DEF ExecutedFirst
  <2> QED
    BY <1>2, <2>1
<1>12. ASSUME NEW e \in 1..Len(executed), NEW i \in 1..Len(wire'),
              NEW m \in 1..Taken', NEW n \in 1..Taken',
              queued[m] = executed[e], queued[n] = wire'[i].call
       PROVE  m < n
  <2>1. m \in 1..Taken
    BY <1>5, <1>12
  <2>2. CASE i \in 1..Len(wire)
    <3>1. n \in 1..Taken /\ wire'[i] = wire[i]
      BY <1>1, <1>4, <1>12, <2>2
    <3> QED
      BY <1>12, <2>1, <2>2, <3>1 DEF ExecutedFirst
  <2>3. CASE i = Len(wire) + 1
    <3>1. n = Taken' /\ m # n
      BY <1>1, <1>3, <1>12, <2>3
    <3> QED
      BY <1>2, <2>1, <3>1
  <2> QED
    BY <1>6, <2>2, <2>3
<1>13. ExecutedFirst'
  BY <1>11, <1>12 DEF ExecutedFirst
<1> QED
  BY <1>10, <1>13

(* What is true of the inbox and the wire once a request has been sent. *)
LEMMA SendAlone ==
  ASSUME ChannelInv, NEW r \in Requested, Send(r.call, r),
         run'.step = r.op, run'.call = r.call
  PROVE  UndoubtedIsAlone'
<1>1. inbox' = <<>> /\ wire' = Append(wire, r)
  BY DEF Send, Drained
<1>2. CASE wire = <<>>
  <2>1. Len(wire') = 1 /\ wire'[1] = r
    BY <1>1, <1>2
  <2> QED
    BY <1>1, <2>1 DEF UndoubtedIsAlone, Own
<1>3. CASE wire # <<>>
  BY <1>3 DEF Send, UndoubtedIsAlone
<1> QED
  BY <1>2, <1>3

(* A SET is sent with a mask that was read while nothing was outstanding, or
   with one that nobody vouches for. *)
LEMMA SendSetSure ==
  ASSUME ChannelInv, NEW c \in Calls, NEW base \in Masks, NEW sure \in BOOLEAN,
         SendSet(c, base, sure), sure => base = mask, mask' = mask
  PROVE  SureIsFresh'
<1> USE DEF ChannelInv
<1> DEFINE r == Set(c, base, sure /\ wire = <<>>)
<1>1. wire' = Append(wire, r) /\ run'.sure = FALSE /\ r \in Requested
  BY SetType DEF SendSet, Send
<1>2. /\ Len(wire) \in Nat /\ Len(wire') = Len(wire) + 1
      /\ \A i \in 1..Len(wire) : wire'[i] = wire[i]
      /\ wire'[Len(wire) + 1] = r
  BY <1>1, AppendProperties, LenProperties DEF Typed
<1>3. r.sure => Len(wire) = 0 /\ r.op = "set" /\ r.base = mask
  <2>1. r.op = "set" /\ r.base = base
    BY DEF Set
  <2>2. r.sure = (sure /\ wire = <<>>)
    BY Zenon DEF Set
  <2>3. wire = <<>> => Len(wire) = 0
    OBVIOUS
  <2> QED
    BY <2>1, <2>2, <2>3
<1>4. ASSUME NEW i \in 1..Len(wire'), wire'[i].sure
      PROVE  i = 1 /\ wire'[i].op = "set" /\ wire'[i].base = mask
  <2>1. CASE i \in 1..Len(wire)
    BY <1>2, <1>4, <2>1 DEF SureIsFresh
  <2>2. CASE i = Len(wire) + 1
    BY <1>2, <1>3, <1>4, <2>2
  <2> QED
    BY <1>2, <2>1, <2>2
<1> HIDE DEF r
<1> QED
  BY <1>1, <1>4 DEF SureIsFresh

(* The SET of a port command follows its GET. *)
LEMMA SendSetKeeps ==
  ASSUME ChannelInv, run.step = "get", NEW base \in Masks, NEW sure \in BOOLEAN,
         SendSet(run.call, base, sure), sure => base = mask,
         UNCHANGED <<link, cache, want, place, queue, queued, mask, executed, met>>,
         UNCHANGED answer
  PROVE  ChannelInv'
<1> USE DEF ChannelInv
<1> DEFINE r == Set(run.call, base, sure /\ wire = <<>>)
<1>1. run.call \in Calls /\ Taken' = Taken /\ Taken \in 1..Len(queued)
      /\ run.call = queued[Taken]
  BY TakenFacts DEF OneUnderWay, Taken
<1>2. /\ r \in Requested /\ r.op = "set" /\ r.call = run.call
      /\ Send(r.call, r) /\ wire' = Append(wire, r) /\ inbox' = <<>>
  BY <1>1, SetType DEF SendSet, Send, Set, Drained
<1>3. /\ run' = [step |-> "set", call |-> run.call, base |-> base, sure |-> FALSE]
      /\ run' \in Runs
  BY <1>1 DEF SendSet, Runs, Ops
<1> HIDE DEF r
<1>4. Typed'
  <2>1. wire' \in Seq(Requested) /\ inbox' \in Seq(Frames)
    BY <1>2, AppendProperties, EmptySeq DEF Typed
  <2> QED
    BY <1>3, <2>1 DEF Typed
<1>5. QueueIsRest' /\ OneUnderWay'
  <2>1. QueueIsRest'
    BY <1>1 DEF QueueIsRest, Position
  <2>2. OneUnderWay'
    BY <1>1, <1>3 DEF OneUnderWay
  <2> QED
    BY <2>1, <2>2
<1>6. WireInOrder' /\ ExecutedFirst'
  <2>1. \A i \in 1..Len(wire) : wire[i].op = "set" => wire[i].call # r.call
    BY <1>2 DEF WireInOrder
  <2>2. \A e \in 1..Len(executed) : executed[e] # r.call
    BY <1>2 DEF ExecutedFirst
  <2>3. run'.step = r.op /\ run'.call = r.call
    BY <1>2, <1>3
  <2> QED
    BY <1>1, <1>2, <2>1, <2>2, <2>3, SendOrder
<1>7. UndoubtedIsAlone'
  BY <1>2, <1>3, SendAlone
<1>8. SureIsFresh'
  BY <1>1, SendSetSure
<1> QED
  BY <1>4, <1>5, <1>6, <1>7, <1>8

LEMMA TakeCommandKeeps ==
  ASSUME ChannelInv, TakeCommand
  PROVE  ChannelInv'
<1> USE DEF ChannelInv
<1> DEFINE c == Head(queue)
           r == IF ForAll(c) THEN Set(c, {}, FALSE /\ wire = <<>>) ELSE Get(c)
<1>1. UNCHANGED <<link, cache, want, queued, mask, executed, met, answer>>
  BY DEF TakeCommand
<1>2. /\ queue' \in Seq(Calls)
      /\ Len(queue) \in Nat /\ Len(queue) >= 1
      /\ Len(queue') = Len(queue) - 1
      /\ c = queue[1] /\ c \in Calls
      /\ \A i \in 1..Len(queue') : queue'[i] = queue[i + 1]
  BY TailFacts DEF TakeCommand, Typed
<1>3. /\ Taken' = Taken + 1 /\ Taken \in Nat /\ Len(queued) \in Nat
      /\ Len(queue) <= Len(queued)
      /\ Taken' \in 1..Len(queued)
  BY <1>1, <1>2, TakenFacts DEF Taken
<1>4. c = queued[Taken']
  BY <1>2, <1>3 DEF QueueIsRest
<1>5. /\ r \in Requested /\ r.call = c /\ r.op \in Ops
      /\ Send(c, r) /\ wire' = Append(wire, r) /\ inbox' = <<>>
      /\ run'.step = r.op /\ run'.call = c /\ run' \in Runs
  <2>1. CASE ForAll(c)
    <3>1. r = Set(c, {}, FALSE /\ wire = <<>>)
      BY <2>1
    <3>2. r \in Requested
      <4>1. {} \in Masks /\ (FALSE /\ wire = <<>>) \in BOOLEAN
        BY DEF Masks
      <4> QED
        BY <1>2, <3>1, <4>1, SetType
    <3>3. r.call = c /\ r.op = "set"
      BY <3>1 DEF Set
    <3>4. Send(c, r) /\ run' = [step |-> "set", call |-> c, base |-> {}, sure |-> FALSE]
      BY <2>1, <3>1 DEF TakeCommand, SendSet
    <3> HIDE DEF r
    <3> QED
      BY <1>2, <3>2, <3>3, <3>4 DEF Send, Drained, Runs, Ops, Masks
  <2>2. CASE ~ForAll(c)
    <3>1. r = Get(c)
      BY <2>2
    <3>2. r \in Requested /\ r.call = c /\ r.op = "get"
      BY <1>2, <3>1, GetType DEF Get
    <3>3. /\ Send(c, r)
          /\ run' = [step |-> "get", call |-> c, base |-> {}, sure |-> wire = <<>>]
      BY <2>2, <3>1 DEF TakeCommand
    <3> HIDE DEF r
    <3> QED
      BY <1>2, <3>2, <3>3 DEF Send, Drained, Runs, Ops, Masks
  <2> QED
    BY <2>1, <2>2
<1>6. /\ place[c] = "queue" /\ place'[c] = "loop"
      /\ \A d \in Calls \ {c} : place'[d] = place[d]
      /\ place' \in [Calls -> {"new", "putting", "queue", "loop", "gone"}]
  BY <1>2, <1>3, <1>4 DEF TakeCommand, QueueIsRest, Position, Typed
<1>7. SureIsFresh'
  <2>1. CASE ForAll(c)
    <3>1. SendSet(c, {}, FALSE) /\ {} \in Masks
      BY <2>1 DEF TakeCommand, Masks
    <3> QED
      BY <1>1, <1>2, <3>1, SendSetSure
  <2>2. CASE ~ForAll(c)
    <3>1. /\ run' = [step |-> "get", call |-> c, base |-> {}, sure |-> wire = <<>>]
          /\ wire' = Append(wire, Get(c)) /\ Get(c) \in Requested
      BY <1>2, <2>2, GetType DEF TakeCommand, Send
    <3>2. /\ Len(wire) \in Nat /\ Len(wire') = Len(wire) + 1
          /\ \A i \in 1..Len(wire) : wire'[i] = wire[i]
          /\ wire'[Len(wire) + 1] = Get(c)
      BY <3>1, AppendProperties, LenProperties DEF Typed
    <3>3. Get(c).op = "get" /\ Get(c).sure = FALSE
      BY DEF Get
    <3>4. run'.sure => Len(wire') <= 1 /\ \A i \in 1..Len(wire') : wire'[i].op = "get"
      <4>1. run'.sure => wire = <<>>
        BY <3>1, Zenon
      <4>2. wire = <<>> => Len(wire) = 0
        OBVIOUS
      <4> QED
        BY <3>2, <3>3, <4>1, <4>2
    <3>5. \A i \in 1..Len(wire') : wire'[i].sure =>
             i = 1 /\ wire'[i].op = "set" /\ wire'[i].base = mask
      <4> SUFFICES ASSUME NEW i \in 1..Len(wire'), wire'[i].sure
                   PROVE  i = 1 /\ wire'[i].op = "set" /\ wire'[i].base = mask
        OBVIOUS
      <4>1. i \in 1..Len(wire)
        BY <3>2, <3>3
      <4> QED
        BY <3>2, <4>1 DEF SureIsFresh
    <3> QED
      BY <1>1, <1>5, <3>1, <3>4, <3>5 DEF SureIsFresh
  <2> QED
    BY <2>1, <2>2
<1> HIDE DEF r, c
<1>8. Typed'
  <2>1. wire' \in Seq(Requested) /\ inbox' \in Seq(Frames)
    BY <1>5, AppendProperties, EmptySeq DEF Typed
  <2> QED
    BY <1>1, <1>2, <1>5, <1>6, <2>1 DEF Typed
<1>9. QueueIsRest'
  <2>1. Len(queue') <= QueueSize /\ Len(queue') <= Len(queued')
    BY <1>1, <1>2, <1>3, ChannelAssumption DEF QueueIsRest
  <2>2. \A i \in 1..Len(queue') : queue'[i] = queued'[Taken' + i]
    <3> SUFFICES ASSUME NEW i \in 1..Len(queue') PROVE queue'[i] = queued[Taken' + i]
      BY <1>1
    <3>1. queue[i + 1] = queued[Taken + (i + 1)]
      BY <1>2 DEF QueueIsRest
    <3>2. Taken + (i + 1) = Taken' + i
      BY <1>2, <1>3
    <3> QED
      BY <1>2, <3>1, <3>2
  <2>3. ASSUME NEW n \in Position, n > Taken' PROVE place'[queued[n]] = "queue"
    <3>1. queued[n] # c /\ n > Taken
      BY <1>3, <1>4, <2>3 DEF QueueIsRest, Position
    <3> QED
      BY <1>6, <3>1, TakenFacts DEF QueueIsRest
  <2>4. ASSUME NEW n \in Position, n <= Taken'
        PROVE  place'[queued[n]] \in {"loop", "gone"}
    <3>1. CASE n = Taken'
      BY <1>4, <1>6, <3>1
    <3>2. CASE n <= Taken
      <4>1. queued[n] # c
        BY <1>3, <1>4, <3>2 DEF QueueIsRest, Position
      <4> QED
        BY <1>6, <3>2, <4>1, TakenFacts DEF QueueIsRest
    <3> QED
      BY <1>3, <2>4, <3>1, <3>2 DEF Position
  <2> QED
    BY <1>1, <2>1, <2>2, <2>3, <2>4 DEF QueueIsRest, Position
<1>10. run.step = "idle" /\ \A d \in Calls : place[d] # "loop"
  BY DEF TakeCommand, OneUnderWay
<1>11. OneUnderWay'
  BY <1>1, <1>3, <1>4, <1>5, <1>6, <1>10 DEF OneUnderWay, Ops
<1>12. WireInOrder' /\ ExecutedFirst'
  <2>1. ASSUME NEW n \in 1..Taken PROVE queued[n] # r.call
    BY <1>3, <1>4, <1>5 DEF QueueIsRest, Position
  <2>2. \A i \in 1..Len(wire) : wire[i].op = "set" => wire[i].call # r.call
    BY <2>1 DEF WireInOrder
  <2>3. \A e \in 1..Len(executed) : executed[e] # r.call
    BY <2>1 DEF ExecutedFirst
  <2> QED
    BY <1>1, <1>3, <1>4, <1>5, <2>2, <2>3, SendOrder
<1>13. UndoubtedIsAlone'
  BY <1>5, SendAlone
<1> QED
  BY <1>7, <1>8, <1>9, <1>11, <1>12, <1>13

(* The answer of the GET, or none. *)
LEMMA GetStepKeeps ==
  ASSUME ChannelInv, GotGet \/ NoGet
  PROVE  ChannelInv'
<1> USE DEF ChannelInv
<1>1. run.step = "get" /\ run.call \in Calls
  <2>1. run.step = "get"
    BY Zenon DEF GotGet, NoGet
  <2> QED
    BY <2>1, TakenFacts DEF OneUnderWay
<1>2. UNCHANGED <<link, cache, want, queue, queued, mask, executed>>
  <2>1. CASE GotGet
    BY <2>1, Zenon DEF GotGet
  <2>2. CASE NoGet
    BY <2>2, Zenon DEF NoGet
  <2> QED
    BY <2>1, <2>2
<1>3. link' \in BOOLEAN /\ cache' \in Masks \union {Unknown}
  BY <1>2 DEF Typed
<1>4. CASE GotGet
  <2> DEFINE base == First("get").mask
  <2>1. PICK i \in 1..Len(inbox) : inbox[i].op = "get" /\ First("get") = inbox[i]
    BY <1>4, FirstFacts DEF GotGet, Typed
  <2>2. base \in Masks /\ (run.sure => base = mask)
    <3>1. inbox[i] \in Frames
      BY ElementOfSeq DEF Typed
    <3> QED
      BY <2>1, <3>1 DEF Frames, SureIsFresh
  <2>3. CASE Modify(run.call, base) = base
    <3>1. Finish(run.call, "ok") /\ inbox' = <<>> /\ wire' = wire
      BY <1>4, <2>3 DEF GotGet
    <3> QED
      BY <1>1, <1>2, <1>3, <3>1, FinishKeeps
  <2>4. CASE Modify(run.call, base) # base
    <3>1. SendSet(run.call, base, run.sure)
          /\ UNCHANGED <<place, answer, link, cache, want, queue, queued, mask>>
          /\ UNCHANGED <<executed, met>>
      BY <1>4, <2>4 DEF GotGet
    <3>2. run.sure \in BOOLEAN
      BY DEF Typed, Runs
    <3> QED
      BY <1>1, <2>2, <3>1, <3>2, SendSetKeeps
  <2> QED
    BY <2>3, <2>4
<1>5. CASE NoGet
  <2>1. CASE cache = Unknown
    <3>1. Finish(run.call, "failed") /\ UNCHANGED <<wire, inbox>>
      BY <1>5, <2>1 DEF NoGet
    <3> QED
      BY <1>1, <1>2, <1>3, <3>1, FinishKeeps
  <2>2. CASE cache # Unknown
    <3>1. cache \in Masks
      BY <2>2 DEF Typed
    <3>2. SendSet(run.call, cache, FALSE)
          /\ UNCHANGED <<place, answer, link, cache, want, queue, queued, mask>>
          /\ UNCHANGED <<executed, met>>
      BY <1>5, <2>2 DEF NoGet
    <3> QED
      BY <1>1, <3>1, <3>2, SendSetKeeps
  <2> QED
    BY <2>1, <2>2
<1> QED
  BY <1>4, <1>5

(* The answer of the SET, or none. *)
LEMMA SetStepKeeps ==
  ASSUME ChannelInv, GotSet \/ NoSet
  PROVE  ChannelInv'
<1> USE DEF ChannelInv
<1>1. run.step = "set" /\ run.call \in Calls
  BY TakenFacts DEF GotSet, NoSet, OneUnderWay
<1>2. UNCHANGED <<link, want, queue, queued, mask, wire, executed>>
  BY DEF GotSet, NoSet, charger
<1>3. link' \in BOOLEAN
  BY <1>2 DEF Typed
<1>4. CASE GotSet
  <2>1. PICK i \in 1..Len(inbox) : First("set") = inbox[i]
    BY <1>4, FirstFacts DEF GotSet, Typed
  <2>2. First("set").mask \in Masks \union {Unknown}
    <3>1. inbox[i] \in Frames
      BY ElementOfSeq DEF Typed
    <3> QED
      BY <2>1, <3>1 DEF Frames
  <2>3. Modify(run.call, run.base) \in Masks
    BY <1>1, ModifyType DEF Typed, Runs
  <2>4. cache' \in Masks \union {Unknown}
    BY <1>4, <2>2, <2>3 DEF GotSet, Effective
  <2>5. Finish(run.call, "ok") /\ inbox' = <<>>
    BY <1>4 DEF GotSet
  <2> QED
    BY <1>1, <1>2, <1>3, <2>4, <2>5, FinishKeeps
<1>5. CASE NoSet
  <2>1. Finish(run.call, "failed") /\ inbox' = inbox /\ cache' \in Masks \union {Unknown}
    BY <1>5 DEF NoSet, Typed
  <2> QED
    BY <1>1, <1>2, <1>3, <2>1, FinishKeeps
<1> QED
  BY <1>4, <1>5

(* Steps that change nothing but the link and the cached mask. *)
LEMMA CacheKeeps ==
  ASSUME ChannelInv, Refresh \/ Connect
  PROVE  ChannelInv'
<1> USE DEF ChannelInv
<1>1. UNCHANGED <<want, place, queue, queued, run, mask, wire, executed, met>>
      /\ UNCHANGED <<inbox, doubtful, answer>>
  BY DEF Refresh, Connect, callers, charger
<1>2. link' \in BOOLEAN /\ cache' \in Masks \union {Unknown}
  BY DEF Refresh, Connect, Typed
<1>3. Typed'
  BY <1>1, <1>2 DEF Typed
<1>4. QueueIsRest' /\ OneUnderWay'
  BY <1>1 DEF QueueIsRest, Position, OneUnderWay, Taken
<1>5. WireInOrder' /\ ExecutedFirst'
  BY <1>1, OrderFrame
<1>6. UndoubtedIsAlone' /\ SureIsFresh'
  BY <1>1 DEF UndoubtedIsAlone, SureIsFresh, Own, Heard, Modify
<1> QED
  BY <1>3, <1>4, <1>5, <1>6

LEMMA LoseLinkKeeps ==
  ASSUME ChannelInv, LoseLink
  PROVE  ChannelInv'
<1> USE DEF ChannelInv
<1>1. UNCHANGED <<cache, want, queue, queued, mask, executed, met, doubtful>>
      /\ wire' = <<>> /\ inbox' = <<>> /\ link' = FALSE
  BY DEF LoseLink
<1>2. CASE run.step = "idle"
  <2>1. UNCHANGED <<run, place, answer>>
    BY <1>2 DEF LoseLink
  <2>2. Typed'
    BY <1>1, <2>1, EmptySeq DEF Typed
  <2>3. QueueIsRest' /\ OneUnderWay'
    BY <1>1, <2>1 DEF QueueIsRest, Position, OneUnderWay, Taken
  <2>4. Taken' = Taken /\ 1..Len(wire') = {}
    BY <1>1 DEF Taken
  <2>5. WireInOrder' /\ ExecutedFirst'
    BY <1>1, <1>2, <2>1, <2>4 DEF WireInOrder, ExecutedFirst
  <2>6. ~run.sure
    BY <1>2 DEF SureIsFresh
  <2>7. UndoubtedIsAlone' /\ SureIsFresh'
    BY <1>2, <2>1, <2>4, <2>6 DEF UndoubtedIsAlone, SureIsFresh
  <2> QED
    BY <2>2, <2>3, <2>5, <2>7
<1>3. CASE run.step # "idle"
  <2>1. Finish(run.call, "failed")
    BY <1>3 DEF LoseLink
  <2>2. cache' \in Masks \union {Unknown} /\ link' \in BOOLEAN
    BY <1>1 DEF Typed
  <2> QED
    BY <1>1, <1>3, <2>1, <2>2, FinishKeeps
<1> QED
  BY <1>2, <1>3

-----------------------------------------------------------------------------
(* The charger. *)

(* It takes the first request off the wire. *)
LEMMA WireTail ==
  ASSUME Typed, wire # <<>>, wire' = Tail(wire)
  PROVE  /\ wire' \in Seq(Requested)
         /\ Len(wire) \in Nat /\ Len(wire) >= 1 /\ Len(wire') = Len(wire) - 1
         /\ Head(wire) = wire[1] /\ wire[1] \in Requested
         /\ \A i \in 1..Len(wire') : wire'[i] = wire[i + 1]
  BY TailFacts DEF Typed

LEMMA ServedOrder ==
  ASSUME ChannelInv, wire # <<>>, wire' = Tail(wire),
         UNCHANGED <<queue, queued, run>>,
         \/ executed' = executed
         \/ executed' = Append(executed, wire[1].call) /\ wire[1].op = "set"
  PROVE  WireInOrder' /\ ExecutedFirst'
<1> USE DEF ChannelInv
<1>1. Taken' = Taken
  BY DEF Taken
<1>2. /\ Len(wire) \in Nat /\ Len(wire) >= 1 /\ Len(wire') = Len(wire) - 1
      /\ \A i \in 1..Len(wire') : i + 1 \in 1..Len(wire) /\ wire'[i] = wire[i + 1]
      /\ wire[1].call \in Calls
  BY WireTail DEF Requested
<1>3. WireInOrder'
  <2>1. \A i \in 1..Len(wire') : \E n \in 1..Taken : queued[n] = wire'[i].call
    BY <1>2 DEF WireInOrder
  <2>2. ASSUME NEW i \in 1..Len(wire'), NEW j \in 1..Len(wire'),
               NEW m \in 1..Taken, NEW n \in 1..Taken,
               i < j, queued[m] = wire'[i].call, queued[n] = wire'[j].call
        PROVE  m <= n /\ (wire'[i].op = "set" => m < n)
    <3>1. /\ i + 1 \in 1..Len(wire) /\ j + 1 \in 1..Len(wire) /\ i + 1 < j + 1
          /\ queued[m] = wire[i + 1].call /\ queued[n] = wire[j + 1].call
      BY <1>2, <2>2
    <3>2. m <= n /\ (wire[i + 1].op = "set" => m < n)
      BY <3>1 DEF WireInOrder
    <3> QED
      BY <1>2, <3>2
  <2>3. run.step = "get" =>
           \A i \in 1..Len(wire') : wire'[i].op = "set" => wire'[i].call # run.call
    BY <1>2 DEF WireInOrder
  <2> QED
    BY <1>1, <2>1, <2>2, <2>3 DEF WireInOrder
<1>4. CASE executed' = executed
  <2>1. ASSUME NEW e \in 1..Len(executed), NEW i \in 1..Len(wire'),
               NEW m \in 1..Taken, NEW n \in 1..Taken,
               queued[m] = executed[e], queued[n] = wire'[i].call
        PROVE  m < n
    <3>1. i + 1 \in 1..Len(wire) /\ queued[n] = wire[i + 1].call
      BY <1>2, <2>1
    <3> QED
      BY <2>1, <3>1 DEF ExecutedFirst
  <2> QED
    BY <1>1, <1>3, <1>4, <2>1 DEF ExecutedFirst
<1>5. CASE executed' = Append(executed, wire[1].call) /\ wire[1].op = "set"
  <2>1. /\ Len(executed) \in Nat /\ Len(executed') = Len(executed) + 1
        /\ \A e \in 1..Len(executed) : executed'[e] = executed[e]
        /\ executed'[Len(executed) + 1] = wire[1].call
    BY <1>2, <1>5, AppendProperties, LenProperties DEF Typed
  <2>2. \A e \in 1..Len(executed') : e \in 1..Len(executed) \/ e = Len(executed) + 1
    BY <2>1
  <2>3. 1 \in 1..Len(wire)
    BY <1>2
  <2>4. ASSUME NEW e \in 1..Len(executed')
        PROVE  \E n \in 1..Taken : queued[n] = executed'[e]
    <3>1. CASE e \in 1..Len(executed)
      BY <2>1, <3>1 DEF ExecutedFirst
    <3>2. CASE e = Len(executed) + 1
      BY <2>1, <2>3, <3>2 DEF WireInOrder
    <3> QED
      BY <2>2, <3>1, <3>2
  <2>5. ASSUME NEW e \in 1..Len(executed'), NEW i \in 1..Len(wire'),
               NEW m \in 1..Taken, NEW n \in 1..Taken,
               queued[m] = executed'[e], queued[n] = wire'[i].call
        PROVE  m < n
    <3>1. i + 1 \in 1..Len(wire) /\ queued[n] = wire[i + 1].call /\ 1 < i + 1
      BY <1>2, <2>5
    <3>2. CASE e \in 1..Len(executed)
      BY <2>1, <2>5, <3>1, <3>2 DEF ExecutedFirst
    <3>3. CASE e = Len(executed) + 1
      <4>1. queued[m] = wire[1].call
        BY <2>1, <2>5, <3>3
      <4> QED
        BY <1>5, <2>3, <3>1, <4>1 DEF WireInOrder
    <3> QED
      BY <2>2, <3>2, <3>3
  <2>6. run.step = "get" => \A e \in 1..Len(executed') : executed'[e] # run.call
    BY <1>5, <2>1, <2>2, <2>3 DEF WireInOrder, ExecutedFirst
  <2> QED
    BY <1>1, <1>3, <2>4, <2>5, <2>6 DEF ExecutedFirst
<1> QED
  BY <1>4, <1>5

(* What is known of an inbox is known of it with one more frame, if it is
   known of the frame. *)
LEMMA ReplyFacts ==
  ASSUME Typed, NEW f \in Frames, inbox' \in {inbox \o <<>>, inbox \o <<f>>}
  PROVE  /\ inbox' \in Seq(Frames)
         /\ \A i \in 1..Len(inbox') :
               (\E j \in 1..Len(inbox) : inbox'[i] = inbox[j]) \/ inbox'[i] = f
<1>1. CASE inbox' = inbox \o <<>>
  BY <1>1, ConcatEmptySeq DEF Typed
<1>2. CASE inbox' = inbox \o <<f>>
  <2>1. inbox' = Append(inbox, f)
    BY <1>2, AppendIsConcat DEF Typed
  <2>2. /\ inbox' \in Seq(Frames) /\ Len(inbox) \in Nat
        /\ Len(inbox') = Len(inbox) + 1
        /\ \A i \in 1..Len(inbox) : inbox'[i] = inbox[i]
        /\ inbox'[Len(inbox) + 1] = f
    BY <2>1, AppendProperties, LenProperties DEF Typed
  <2>3. ASSUME NEW i \in 1..Len(inbox')
        PROVE  (\E j \in 1..Len(inbox) : inbox'[i] = inbox[j]) \/ inbox'[i] = f
    BY <2>2
  <2> QED
    BY <2>2, <2>3
<1> QED
  BY <1>1, <1>2

LEMMA ServeGetKeeps ==
  ASSUME ChannelInv, ServeGet
  PROVE  ChannelInv'
<1> USE DEF ChannelInv
<1> DEFINE f == [op |-> "get", mask |-> mask]
<1>1. /\ wire # <<>> /\ wire' = Tail(wire) /\ wire[1].op = "get"
      /\ UNCHANGED <<link, cache, want, place, queue, queued, run, mask, executed>>
      /\ UNCHANGED <<doubtful, answer>>
      /\ met' = IF Modify(wire[1].call, mask) = mask THEN met \union {wire[1].call}
                ELSE met
      /\ inbox' \in {inbox \o <<>>, inbox \o <<f>>}
  BY WireTail DEF ServeGet, callers
<1>2. f \in Frames
  BY DEF Frames, Ops, Typed
<1>3. /\ inbox' \in Seq(Frames)
      /\ \A i \in 1..Len(inbox') :
            (\E j \in 1..Len(inbox) : inbox'[i] = inbox[j]) \/ inbox'[i] = f
  BY <1>1, <1>2, ReplyFacts
<1>4. f.op = "get" /\ f.mask = mask
  OBVIOUS
<1> HIDE DEF f
<1>5. /\ Len(wire) \in Nat /\ Len(wire) >= 1 /\ Len(wire') = Len(wire) - 1
      /\ \A i \in 1..Len(wire') : i + 1 \in 1..Len(wire) /\ wire'[i] = wire[i + 1]
  BY <1>1, WireTail
<1>6. Typed'
  BY <1>1, <1>3, WireTail DEF Typed
<1>7. QueueIsRest' /\ OneUnderWay'
  BY <1>1 DEF QueueIsRest, Position, OneUnderWay, Taken
<1>8. WireInOrder' /\ ExecutedFirst'
  BY <1>1, ServedOrder
<1>9. UndoubtedIsAlone'
  <2> SUFFICES ASSUME run.step # "idle", run.call \notin doubtful
               PROVE  /\ Len(wire') <= 1
                      /\ \A i \in 1..Len(wire') : Own(i)'
                      /\ \A i \in 1..Len(inbox') : Heard(inbox[i])'
    BY <1>1 DEF UndoubtedIsAlone
  <2>1. Len(wire) = 1 /\ Own(1) /\ \A i \in 1..Len(inbox) : Heard(inbox[i])
    BY <1>5 DEF UndoubtedIsAlone
  <2>2. 1..Len(wire') = {} /\ Len(wire') <= 1
    BY <1>5, <2>1
  <2>3. ASSUME NEW i \in 1..Len(inbox') PROVE Heard(inbox[i])'
    <3>1. run.step = "get" /\ run.call = wire[1].call
      BY <1>1, <2>1 DEF Own
    <3>2. met \subseteq met' /\ (Modify(run.call, mask) = mask => run.call \in met')
      BY <1>1, <3>1
    <3>3. CASE \E j \in 1..Len(inbox) : inbox'[i] = inbox[j]
      BY <1>1, <2>1, <3>2, <3>3 DEF Heard, Modify
    <3>4. CASE inbox'[i] = f
      BY <1>1, <1>4, <3>1, <3>2, <3>4 DEF Heard, Modify
    <3> QED
      BY <1>3, <3>3, <3>4
  <2> QED
    BY <2>2, <2>3
<1>10. SureIsFresh'
  <2>1. ASSUME run.sure
        PROVE  /\ run.step = "get" /\ Len(wire') <= 1 /\ 1..Len(wire') = {}
               /\ \A i \in 1..Len(inbox') : inbox'[i].op = "get" => inbox'[i].mask = mask
    BY <1>3, <1>4, <1>5, <2>1 DEF SureIsFresh
  <2>2. \A i \in 1..Len(wire') : ~wire'[i].sure
    BY <1>5 DEF SureIsFresh
  <2> QED
    BY <1>1, <2>1, <2>2 DEF SureIsFresh
<1> QED
  BY <1>6, <1>7, <1>8, <1>9, <1>10

LEMMA ServeSetKeeps ==
  ASSUME ChannelInv, ServeSet
  PROVE  ChannelInv'
<1> USE DEF ChannelInv
<1>1. /\ wire # <<>> /\ wire' = Tail(wire) /\ wire[1].op = "set"
      /\ UNCHANGED <<link, cache, want, place, queue, queued, run, doubtful, answer>>
      /\ mask' = wire[1].set
      /\ executed' = Append(executed, wire[1].call)
      /\ met' = met \union {wire[1].call}
  BY WireTail DEF ServeSet, callers
<1>2. wire[1] \in Requested /\ wire[1].set \in Masks /\ wire[1].call \in Calls
  BY <1>1, WireTail DEF Requested
<1>3. PICK f \in Frames : f.op = "set" /\ inbox' \in {inbox \o <<>>, inbox \o <<f>>}
  <2>1. PICK reply \in {<<>>} \union {<<[op |-> "set", mask |-> m]>> :
                                         m \in {Unknown, wire[1].set}} :
           inbox' = inbox \o reply
    BY <1>1, WireTail DEF ServeSet
  <2>2. CASE reply = <<>>
    <3> DEFINE g == [op |-> "set", mask |-> Unknown]
    <3>1. g \in Frames /\ g.op = "set"
      BY DEF Frames, Ops
    <3> QED
      BY <2>1, <2>2, <3>1
  <2>3. ASSUME NEW m \in {Unknown, wire[1].set},
               reply = <<[op |-> "set", mask |-> m]>>
        PROVE  \E f \in Frames : f.op = "set" /\ inbox' \in {inbox \o <<>>, inbox \o <<f>>}
    <3> DEFINE g == [op |-> "set", mask |-> m]
    <3>1. g \in Frames /\ g.op = "set"
      BY <1>2 DEF Frames, Ops
    <3> QED
      BY <2>1, <2>3, <3>1
  <2> QED
    BY <2>1, <2>2, <2>3
<1>4. /\ inbox' \in Seq(Frames)
      /\ \A i \in 1..Len(inbox') :
            (\E j \in 1..Len(inbox) : inbox'[i] = inbox[j]) \/ inbox'[i] = f
  BY <1>3, ReplyFacts
<1>5. /\ Len(wire) \in Nat /\ Len(wire) >= 1 /\ Len(wire') = Len(wire) - 1
      /\ \A i \in 1..Len(wire') : i + 1 \in 1..Len(wire) /\ wire'[i] = wire[i + 1]
  BY <1>1, WireTail
<1>6. Typed'
  <2>1. executed' \in Seq(Calls)
    BY <1>1, <1>2, AppendProperties DEF Typed
  <2> QED
    BY <1>1, <1>2, <1>4, <2>1, WireTail DEF Typed
<1>7. QueueIsRest' /\ OneUnderWay'
  BY <1>1 DEF QueueIsRest, Position, OneUnderWay, Taken
<1>8. WireInOrder' /\ ExecutedFirst'
  BY <1>1, ServedOrder
<1>9. UndoubtedIsAlone'
  <2> SUFFICES ASSUME run.step # "idle", run.call \notin doubtful
               PROVE  /\ Len(wire') <= 1
                      /\ \A i \in 1..Len(wire') : Own(i)'
                      /\ \A i \in 1..Len(inbox') : Heard(inbox[i])'
    BY <1>1 DEF UndoubtedIsAlone
  <2>1. Len(wire) = 1 /\ Own(1) /\ \A i \in 1..Len(inbox) : Heard(inbox[i])
    BY <1>5 DEF UndoubtedIsAlone
  <2>2. 1..Len(wire') = {} /\ Len(wire') <= 1
    BY <1>5, <2>1
  <2>3. run.step = "set" /\ run.call \in met'
    BY <1>1, <2>1 DEF Own
  <2>4. \A i \in 1..Len(inbox') : inbox'[i].op = "set"
    BY <1>3, <1>4, <2>1, <2>3 DEF Heard
  <2> QED
    BY <1>1, <2>2, <2>3, <2>4 DEF Heard
<1>10. SureIsFresh'
  <2>1. ~run.sure
    BY <1>1, <1>5 DEF SureIsFresh
  <2>2. \A i \in 1..Len(wire') : ~wire'[i].sure
    BY <1>5 DEF SureIsFresh
  <2> QED
    BY <1>1, <2>1, <2>2 DEF SureIsFresh
<1> QED
  BY <1>6, <1>7, <1>8, <1>9, <1>10

LEMMA IgnoreKeeps ==
  ASSUME ChannelInv, Ignore
  PROVE  ChannelInv'
<1> USE DEF ChannelInv
<1>1. /\ wire # <<>> /\ wire' = Tail(wire)
      /\ UNCHANGED <<link, cache, want, place, queue, queued, run, mask, executed>>
      /\ UNCHANGED <<met, inbox, doubtful, answer>>
  BY DEF Ignore, callers
<1>2. /\ Len(wire) \in Nat /\ Len(wire) >= 1 /\ Len(wire') = Len(wire) - 1
      /\ \A i \in 1..Len(wire') : i + 1 \in 1..Len(wire) /\ wire'[i] = wire[i + 1]
  BY <1>1, WireTail
<1>3. Typed'
  BY <1>1, WireTail DEF Typed
<1>4. QueueIsRest' /\ OneUnderWay'
  BY <1>1 DEF QueueIsRest, Position, OneUnderWay, Taken
<1>5. WireInOrder' /\ ExecutedFirst'
  BY <1>1, ServedOrder
<1>6. \A i \in 1..Len(wire') : ~wire'[i].sure
  BY <1>2 DEF SureIsFresh
<1>7. Len(wire) <= 1 => 1..Len(wire') = {} /\ Len(wire') <= 1
  BY <1>2
<1>8. UndoubtedIsAlone' /\ SureIsFresh'
  BY <1>1, <1>6, <1>7 DEF UndoubtedIsAlone, SureIsFresh, Heard, Modify
<1> QED
  BY <1>3, <1>4, <1>5, <1>8

(* A switch from outside takes back what was vouched for. *)
LEMMA SwitchOutsideKeeps ==
  ASSUME ChannelInv, NEW p \in Ports, SwitchOutside(p)
  PROVE  ChannelInv'
<1> USE DEF ChannelInv
<1>1. /\ wire' = [i \in DOMAIN wire |-> [wire[i] EXCEPT !.sure = FALSE]]
      /\ run' = [run EXCEPT !.sure = FALSE]
      /\ mask' \in Masks
      /\ UNCHANGED <<link, cache, want, place, queue, queued, executed, met, inbox>>
      /\ UNCHANGED <<doubtful, answer>>
  BY DEF SwitchOutside, callers, Typed, Masks
<1>2. /\ run' \in Runs /\ run'.sure = FALSE
      /\ run'.step = run.step /\ run'.call = run.call
  BY <1>1 DEF Typed, Runs
<1>3. DOMAIN wire = 1..Len(wire) /\ Len(wire) \in Nat
      /\ \A i \in 1..Len(wire) : wire[i] \in Requested
  BY LenProperties, ElementOfSeq DEF Typed
<1>4. /\ wire' \in Seq(Requested) /\ Len(wire') = Len(wire)
      /\ \A i \in 1..Len(wire) : /\ wire'[i].sure = FALSE
                                 /\ wire'[i].op = wire[i].op
                                 /\ wire'[i].call = wire[i].call
  <2>1. ASSUME NEW i \in 1..Len(wire)
        PROVE  /\ wire'[i] \in Requested /\ wire'[i].sure = FALSE
               /\ wire'[i].op = wire[i].op /\ wire'[i].call = wire[i].call
    BY <1>1, <1>3 DEF Requested
  <2>2. wire' = [i \in 1..Len(wire) |-> wire'[i]]
    BY <1>1, <1>3
  <2>3. wire' \in [1..Len(wire) -> Requested]
    BY <2>1, <2>2
  <2>4. wire' \in Seq(Requested)
    BY <1>3, <2>3, SeqDef
  <2>5. Len(wire') = Len(wire)
    BY <1>1, <1>3
  <2> QED
    BY <2>1, <2>4, <2>5
<1>5. Typed'
  BY <1>1, <1>2, <1>4 DEF Typed
<1>6. QueueIsRest' /\ OneUnderWay'
  BY <1>1, <1>2 DEF QueueIsRest, Position, OneUnderWay, Taken
<1>7. WireInOrder' /\ ExecutedFirst'
  <2>1. Taken' = Taken
    BY <1>1 DEF Taken
  <2>2. WireInOrder'
    <3>1. \A i \in 1..Len(wire) : \E n \in 1..Taken : queued[n] = wire'[i].call
      BY <1>4 DEF WireInOrder
    <3>2. ASSUME NEW i \in 1..Len(wire), NEW j \in 1..Len(wire),
                 NEW m \in 1..Taken, NEW n \in 1..Taken,
                 i < j, queued[m] = wire'[i].call, queued[n] = wire'[j].call
          PROVE  m <= n /\ (wire'[i].op = "set" => m < n)
      <4>1. queued[m] = wire[i].call /\ queued[n] = wire[j].call
        BY <1>4, <3>2
      <4>2. m <= n /\ (wire[i].op = "set" => m < n)
        BY <3>2, <4>1 DEF WireInOrder
      <4> QED
        BY <1>4, <4>2
    <3>3. run'.step = "get" =>
             \A i \in 1..Len(wire) : wire'[i].op = "set" => wire'[i].call # run'.call
      BY <1>2, <1>4 DEF WireInOrder
    <3>4. Len(wire') = Len(wire) /\ queued' = queued
      BY <1>1, <1>4
    <3> QED
      BY <2>1, <3>1, <3>2, <3>3, <3>4 DEF WireInOrder
  <2>3. ExecutedFirst'
    BY <1>1, <1>2, <1>4, <2>1 DEF ExecutedFirst
  <2> QED
    BY <2>2, <2>3
<1>8. UndoubtedIsAlone'
  <2>1. \A i \in 1..Len(wire) : Own(i) => Own(i)'
    BY <1>2, <1>4 DEF Own
  <2>2. \A i \in 1..Len(inbox) : Heard(inbox[i]) => Heard(inbox[i])'
    BY <1>1, <1>2 DEF Heard, Modify
  <2> QED
    BY <1>1, <1>2, <1>4, <2>1, <2>2 DEF UndoubtedIsAlone
<1>9. SureIsFresh'
  BY <1>2, <1>4 DEF SureIsFresh
<1> QED
  BY <1>5, <1>6, <1>7, <1>8, <1>9

-----------------------------------------------------------------------------
LEMMA ChannelNext == ChannelInv /\ [Next]_vars => ChannelInv'
  <1> SUFFICES ASSUME ChannelInv, [Next]_vars PROVE ChannelInv'
    OBVIOUS
  <1>1. CASE UNCHANGED vars
    <2>1. UNCHANGED <<link, cache, want, place, queue, queued, run, mask, wire>>
          /\ UNCHANGED <<executed, met, inbox, doubtful, answer>>
      BY <1>1 DEF vars, callers, charger
    <2>2. Typed' /\ QueueIsRest' /\ OneUnderWay'
      BY <2>1 DEF ChannelInv, Typed, QueueIsRest, Position, OneUnderWay, Taken
    <2>3. WireInOrder' /\ ExecutedFirst'
      BY <2>1, OrderFrame DEF ChannelInv
    <2>4. UndoubtedIsAlone' /\ SureIsFresh'
      BY <2>1 DEF ChannelInv, UndoubtedIsAlone, SureIsFresh, Own, Heard, Modify
    <2> QED
      BY <2>2, <2>3, <2>4 DEF ChannelInv
  <1>2. ASSUME NEW c \in Calls, Ask(c) \/ Put(c) \/ GiveUp(c) PROVE ChannelInv'
    BY <1>2, AskKeeps, PutKeeps, GiveUpKeeps
  <1>3. CASE Loop
    BY <1>3, TakeCommandKeeps, GetStepKeeps, SetStepKeeps DEF Loop
  <1>4. CASE Refresh \/ Connect
    BY <1>4, CacheKeeps
  <1>5. CASE ServeGet \/ ServeSet \/ Ignore
    BY <1>5, ServeGetKeeps, ServeSetKeeps, IgnoreKeeps
  <1>6. ASSUME NEW p \in Ports, SwitchOutside(p) PROVE ChannelInv'
    BY <1>6, SwitchOutsideKeeps
  <1>7. CASE LoseLink
    BY <1>7, LoseLinkKeeps
  <1> QED
    BY <1>1, <1>2, <1>3, <1>4, <1>5, <1>6, <1>7 DEF Next

LEMMA ChannelAlways == Spec => []ChannelInv
  BY ChannelInit, ChannelNext, PTL DEF Spec

(* The queue keeps to its size and one exchange is under way at a time. *)
THEOREM ChannelTypes == Spec => []TypeOK
<1>1. ChannelInv => TypeOK
  <2> SUFFICES ASSUME ChannelInv PROVE TypeOK
    OBVIOUS
  <2>1. run.step \in {"idle", "get", "set"}
    BY DEF ChannelInv, Typed, Runs, Ops
  <2>2. {c \in Calls : place[c] = "loop"} = IF run.step = "idle" THEN {} ELSE {run.call}
    <3>1. CASE run.step = "idle"
      BY <3>1 DEF ChannelInv, OneUnderWay
    <3>2. CASE run.step # "idle"
      <4>1. run.call \in Calls /\ place[run.call] = "loop"
        BY <3>2, TakenFacts DEF ChannelInv, OneUnderWay
      <4> QED
        BY <3>2, <4>1 DEF ChannelInv, OneUnderWay
    <3> QED
      BY <3>1, <3>2
  <2> QED
    BY <2>1, <2>2 DEF ChannelInv, Typed, QueueIsRest, TypeOK
<1> QED
  BY <1>1, ChannelAlways, PTL

(* A port command writes a mask that was read after the charger's last
   change, with the exceptions that the property names. *)
THEOREM FreshMaskIsWritten == Spec => []WritesFreshMask
<1>1. ChannelInv => WritesFreshMask
  BY LenProperties DEF ChannelInv, Typed, SureIsFresh, WritesFreshMask
<1> QED
  BY <1>1, ChannelAlways, PTL

-----------------------------------------------------------------------------
(* The channel implements CommandService: the variables of the service are
   the channel's own, and every step of the channel is one of the service's
   or changes none of them. *)

(* The steps of the service, as the channel takes them. *)
LEMMA ServiceAnswers ==
  ASSUME NEW c \in Calls, NEW a \in {"ok", "failed"},
         answer \in [Calls -> {"none", "ok", "failed"}],
         answer' = Reply(c, a),
         a = "ok" => c \in met \union doubtful,
         UNCHANGED <<queued, executed, met, doubtful>>
  PROVE  [Service!Next]_Service!vars
<1>1. CASE answer[c] = "none"
  <2>1. Service!AnswerCall(c, a)
    BY <1>1 DEF Reply, Service!AnswerCall
  <2> QED
    BY <2>1 DEF Service!Next
<1>2. CASE answer[c] # "none"
  <2>1. answer' = answer
    BY <1>2 DEF Reply
  <2> QED
    BY <2>1 DEF Service!vars
<1> QED
  BY <1>1, <1>2

LEMMA ServiceQueues ==
  ASSUME ChannelInv, NEW c \in Calls, Put(c)
  PROVE  [Service!Next]_Service!vars
<1>1. \A n \in 1..Len(queued) : queued[n] # c
  <2> SUFFICES ASSUME NEW n \in 1..Len(queued) PROVE queued[n] # c
    OBVIOUS
  <2>1. n > Taken \/ n <= Taken
    BY TakenFacts DEF ChannelInv
  <2>2. place[queued[n]] \in {"queue", "loop", "gone"}
    BY <2>1 DEF ChannelInv, QueueIsRest, Position
  <2> QED
    BY <2>2 DEF Put
<1>2. Service!Queue(c)
  BY <1>1 DEF Put, charger, Service!Queue, Service!Contains
<1> QED
  BY <1>2 DEF Service!Next

(* A request that goes out behind another is in doubt. *)
LEMMA ServiceDoubts ==
  ASSUME ChannelInv, NEW n \in 1..Len(queued), NEW r, Send(queued[n], r),
         UNCHANGED <<queued, executed, met, answer>>
  PROVE  [Service!Next]_Service!vars
<1>1. CASE wire = <<>>
  BY <1>1 DEF Send, Service!vars
<1>2. CASE wire # <<>>
  <2>1. Service!Doubt(n)
    BY <1>2 DEF Send, Service!Doubt
  <2>2. n \in DOMAIN queued
    BY LenProperties DEF ChannelInv, Typed
  <2> QED
    BY <2>1, <2>2 DEF Service!Next
<1> QED
  BY <1>1, <1>2

(* A command that ends is answered, "ok" with good reason. *)
LEMMA ServiceFinishes ==
  ASSUME ChannelInv, run.step # "idle", NEW a \in {"ok", "failed"},
         Finish(run.call, a),
         a = "ok" => run.call \in met \union doubtful,
         UNCHANGED <<queued, executed, met, doubtful>>
  PROVE  [Service!Next]_Service!vars
<1>1. run.call \in Calls
  BY TakenFacts DEF ChannelInv, OneUnderWay
<1>2. answer' = Reply(run.call, a) /\ answer \in [Calls -> {"none", "ok", "failed"}]
  BY DEF Finish, ChannelInv, Typed
<1> QED
  BY <1>1, <1>2, ServiceAnswers

LEMMA TakeServes ==
  ASSUME ChannelInv, TakeCommand
  PROVE  [Service!Next]_Service!vars
<1>1. /\ Len(queue) \in Nat /\ Len(queue) >= 1 /\ Head(queue) = queue[1]
  BY TailFacts DEF TakeCommand, ChannelInv, Typed
<1>2. Taken + 1 \in 1..Len(queued) /\ Head(queue) = queued[Taken + 1]
  BY <1>1, TakenFacts DEF ChannelInv, QueueIsRest, Taken
<1>3. \E r : Send(Head(queue), r)
  <2>1. CASE ForAll(Head(queue))
    BY <2>1 DEF TakeCommand, SendSet
  <2>2. CASE ~ForAll(Head(queue))
    BY <2>2 DEF TakeCommand
  <2> QED
    BY <2>1, <2>2
<1>4. UNCHANGED <<queued, executed, met, answer>>
  BY DEF TakeCommand
<1> QED
  BY <1>2, <1>3, <1>4, ServiceDoubts

LEMMA GetServes ==
  ASSUME ChannelInv, GotGet \/ NoGet
  PROVE  [Service!Next]_Service!vars
<1>1. run.step = "get"
  BY Zenon DEF GotGet, NoGet
<1>2. Taken \in 1..Len(queued) /\ run.call = queued[Taken]
  BY <1>1, TakenFacts DEF ChannelInv, OneUnderWay
<1>3. UNCHANGED <<queued, executed, met>>
  <2>1. CASE GotGet
    BY <2>1, Zenon DEF GotGet
  <2>2. CASE NoGet
    BY <2>2, Zenon DEF NoGet
  <2> QED
    BY <2>1, <2>2
<1>4. ASSUME NEW base, NEW sure, SendSet(run.call, base, sure), answer' = answer
      PROVE  [Service!Next]_Service!vars
  BY <1>2, <1>3, <1>4, ServiceDoubts DEF SendSet
<1>5. CASE GotGet
  <2> DEFINE base == First("get").mask
  <2>1. CASE Modify(run.call, base) = base
    <3>1. Finish(run.call, "ok") /\ doubtful' = doubtful
      BY <1>5, <2>1 DEF GotGet
    <3>2. PICK i \in 1..Len(inbox) : inbox[i].op = "get" /\ First("get") = inbox[i]
      BY <1>5, FirstFacts DEF GotGet, ChannelInv, Typed
    <3>3. run.call \notin doubtful => run.call \in met
      BY <1>1, <2>1, <3>2 DEF ChannelInv, UndoubtedIsAlone, Heard
    <3> QED
      BY <1>1, <1>3, <3>1, <3>3, ServiceFinishes
  <2>2. CASE Modify(run.call, base) # base
    BY <1>4, <1>5, <2>2 DEF GotGet
  <2> QED
    BY <2>1, <2>2
<1>6. CASE NoGet
  <2>1. CASE cache = Unknown
    <3>1. Finish(run.call, "failed") /\ doubtful' = doubtful
      BY <1>6, <2>1 DEF NoGet
    <3> QED
      BY <1>1, <1>3, <3>1, ServiceFinishes
  <2>2. CASE cache # Unknown
    BY <1>4, <1>6, <2>2 DEF NoGet
  <2> QED
    BY <2>1, <2>2
<1> QED
  BY <1>5, <1>6

LEMMA SetServes ==
  ASSUME ChannelInv, GotSet \/ NoSet
  PROVE  [Service!Next]_Service!vars
<1>1. run.step = "set" /\ UNCHANGED <<queued, executed, met, doubtful>>
  BY DEF GotSet, NoSet, charger
<1>2. CASE GotSet
  <2>1. PICK i \in 1..Len(inbox) : inbox[i].op = "set"
    BY <1>2, FirstFacts DEF GotSet, ChannelInv, Typed
  <2>2. run.call \notin doubtful => run.call \in met
    BY <1>1, <2>1 DEF ChannelInv, UndoubtedIsAlone, Heard
  <2>3. Finish(run.call, "ok")
    BY <1>2 DEF GotSet
  <2> QED
    BY <1>1, <2>2, <2>3, ServiceFinishes
<1>3. CASE NoSet
  <2>1. Finish(run.call, "failed")
    BY <1>3 DEF NoSet
  <2> QED
    BY <1>1, <2>1, ServiceFinishes
<1> QED
  BY <1>2, <1>3

(* What the charger is asked next is of a call in the queue's order that no
   carried out call was behind. *)
LEMMA ServeServes ==
  ASSUME ChannelInv, ServeGet \/ ServeSet
  PROVE  [Service!Next]_Service!vars
<1> USE DEF ChannelInv
<1>1. /\ Head(wire) = wire[1] /\ 1 \in 1..Len(wire)
      /\ UNCHANGED <<queued, doubtful, answer>>
  BY WireTail DEF ServeGet, ServeSet, callers
<1>2. PICK n \in 1..Taken : queued[n] = wire[1].call
  BY <1>1 DEF WireInOrder
<1>3. /\ n \in DOMAIN queued /\ n \in 1..Len(queued) /\ Len(queued) \in Nat
      /\ Taken \in Nat /\ Taken <= Len(queued)
  BY TakenFacts, LenProperties DEF Typed
<1>4. CASE ServeGet
  <2>1. executed' = executed
    BY <1>4 DEF ServeGet
  <2>2. CASE Modify(wire[1].call, mask) = mask
    <3>1. Service!FindMet(n)
      BY <1>1, <1>2, <1>4, <2>1, <2>2 DEF ServeGet, Service!FindMet
    <3> QED
      BY <1>3, <3>1 DEF Service!Next
  <2>3. CASE Modify(wire[1].call, mask) # mask
    BY <1>1, <1>4, <2>1, <2>3 DEF ServeGet, Service!vars
  <2> QED
    BY <2>2, <2>3
<1>5. CASE ServeSet
  <2>1. ASSUME NEW j \in n..Len(queued), NEW e \in 1..Len(executed),
               executed[e] = queued[j]
        PROVE  FALSE
    <3>1. PICK m \in 1..Taken : queued[m] = executed[e]
      BY DEF ExecutedFirst
    <3>2. m \in Position /\ j \in Position
      BY <1>3 DEF Position
    <3>3. m = j
      BY <2>1, <3>1, <3>2 DEF QueueIsRest
    <3>4. m < n
      BY <1>1, <1>2, <3>1 DEF ExecutedFirst
    <3> QED
      BY <1>3, <3>3, <3>4
  <2>2. \A j \in n..Len(queued) : ~Service!Contains(executed, queued[j])
    BY <2>1 DEF Service!Contains
  <2>3. /\ executed' = Append(executed, queued[n])
        /\ met' = met \union {queued[n]}
    BY <1>1, <1>2, <1>5 DEF ServeSet
  <2>4. Service!Execute(n)
    BY <1>1, <2>2, <2>3 DEF Service!Execute
  <2> QED
    BY <1>3, <2>4 DEF Service!Next
<1> QED
  BY <1>4, <1>5

LEMMA LoseLinkServes ==
  ASSUME ChannelInv, LoseLink
  PROVE  [Service!Next]_Service!vars
<1>1. UNCHANGED <<queued, executed, met, doubtful>>
  BY DEF LoseLink
<1>2. CASE run.step = "idle"
  BY <1>1, <1>2 DEF LoseLink, Service!vars
<1>3. CASE run.step # "idle"
  BY <1>1, <1>3, ServiceFinishes DEF LoseLink
<1> QED
  BY <1>2, <1>3

LEMMA CallerServes ==
  ASSUME ChannelInv, NEW c \in Calls, Ask(c) \/ Put(c) \/ GiveUp(c)
  PROVE  [Service!Next]_Service!vars
<1>1. answer \in [Calls -> {"none", "ok", "failed"}]
  BY DEF ChannelInv, Typed
<1>2. CASE Ask(c)
  <2>1. UNCHANGED <<queued, executed, met, doubtful>>
    BY <1>2 DEF Ask, charger
  <2>2. answer' = answer \/ answer' = Reply(c, "failed")
    BY <1>2 DEF Ask
  <2> QED
    BY <1>1, <2>1, <2>2, ServiceAnswers DEF Service!vars
<1>3. CASE Put(c)
  BY <1>3, ServiceQueues
<1>4. CASE GiveUp(c)
  BY <1>1, <1>4, ServiceAnswers DEF GiveUp, charger, callers
<1> QED
  BY <1>2, <1>3, <1>4

LEMMA ServiceInit == Init => Service!Init
  BY DEF Init, Service!Init

LEMMA ServiceNext == ChannelInv /\ [Next]_vars => [Service!Next]_Service!vars
  <1> SUFFICES ASSUME ChannelInv, [Next]_vars PROVE [Service!Next]_Service!vars
    OBVIOUS
  <1>1. CASE UNCHANGED vars
    BY <1>1 DEF vars, callers, charger, Service!vars
  <1>2. ASSUME NEW c \in Calls, Ask(c) \/ Put(c) \/ GiveUp(c)
        PROVE  [Service!Next]_Service!vars
    BY <1>2, CallerServes
  <1>3. CASE Loop
    BY <1>3, TakeServes, GetServes, SetServes DEF Loop
  <1>4. CASE Refresh \/ Connect
    BY <1>4 DEF Refresh, Connect, callers, charger, Service!vars
  <1>5. CASE ServeGet \/ ServeSet
    BY <1>5, ServeServes
  <1>6. CASE Ignore
    BY <1>6 DEF Ignore, callers, Service!vars
  <1>7. ASSUME NEW p \in Ports, SwitchOutside(p)
        PROVE  [Service!Next]_Service!vars
    BY <1>7 DEF SwitchOutside, callers, Service!vars
  <1>8. CASE LoseLink
    BY <1>8, LoseLinkServes
  <1> QED
    BY <1>1, <1>2, <1>3, <1>4, <1>5, <1>6, <1>7, <1>8 DEF Next

(* Commands are carried out at most once and in the order of the queue, each
   call gets one answer, and "ok" is only told of a command that was met or
   was in doubt: the channel implements CommandService. *)
THEOREM ChannelImplementsService == Spec => ServiceSpec
  BY ServiceInit, ServiceNext, ChannelAlways, PTL
     DEF Spec, ServiceSpec, Service!Spec
==============================================================================
