------------------------------ MODULE LinkProofs ------------------------------
(***************************************************************************)
(* Proofs about the parts that MCServices checks of the link itself: the   *)
(* merged scan, the login, and the charger's frame counter as the host     *)
(* reconstructs it.                                                        *)
(***************************************************************************)
EXTENDS MCServices, SequenceTheorems, TLAPS

-----------------------------------------------------------------------------
(* ScanMerge. *)

ScanTypes ==
    /\ caller \in [Callers -> {"out", "follows", "queued", "scans"}]
    /\ leader \in [Callers -> Callers \cup {C!None}]
    /\ future \in [Callers -> {C!None, "open", "done", "cancelled"}]
    /\ board \in [Devices -> Callers \cup {C!None}]
    /\ stopped \subseteq Callers

(* Who leads has a future, and who follows waits for one that is still open and
   for the same device.  An open future is on the board, where the next scan to
   end finds it, and one is cancelled only together with a follower's call. *)
LeadersHaveFutures == \A c \in Callers : future[c] # C!None <=> C!Leads(c)
FollowersWait ==
    \A f \in Callers : caller[f] = "follows" =>
        /\ leader[f] \in Callers /\ future[leader[f]] = "open"
        /\ SearchedBy(leader[f]) = SearchedBy(f)
OpenOnesArePending ==
    \A c \in Callers : future[c] = "open" => board[SearchedBy(c)] = c
BoardIsRight == \A a \in Devices : board[a] # C!None => SearchedBy(board[a]) = a
CancelledIsStopped == \A c \in Callers : future[c] = "cancelled" => c \in stopped

ScanInv ==
    /\ ScanTypes /\ LeadersHaveFutures /\ FollowersWait /\ OpenOnesArePending
    /\ BoardIsRight /\ CancelledIsStopped /\ C!AnsweredUnlessStopped

LEMMA CallersLook ==
  /\ C!None \notin Callers
  /\ \A c \in Callers : SearchedBy(c) \in Devices
BY ServicesAssumption DEF C!ScanConstants

LEMMA ScanInit == Init => ScanInv
<1> SUFFICES ASSUME Init PROVE ScanInv
  OBVIOUS
<1>1. /\ caller = [c \in Callers |-> "out"] /\ leader = [c \in Callers |-> C!None]
      /\ future = [c \in Callers |-> C!None] /\ board = [a \in Devices |-> C!None]
      /\ stopped = {} /\ bare = {}
  BY DEF Init, C!Init
<1> QED
  BY <1>1 DEF ScanInv, ScanTypes, LeadersHaveFutures, FollowersWait, OpenOnesArePending,
     BoardIsRight, CancelledIsStopped, C!AnsweredUnlessStopped, C!Leads, C!None

LEMMA ScanStays ==
  ASSUME ScanInv, UNCHANGED <<caller, leader, future, board, stopped, bare>>
  PROVE  ScanInv'
BY DEF ScanInv, ScanTypes, LeadersHaveFutures, FollowersWait, OpenOnesArePending,
   BoardIsRight, CancelledIsStopped, C!AnsweredUnlessStopped, C!Leads

LEMMA CallStep ==
  ASSUME ScanInv, NEW c \in Callers, C!Call(c) PROVE ScanInv'
<1> DEFINE a == SearchedBy(c)
<1>0. /\ ScanTypes /\ LeadersHaveFutures /\ FollowersWait /\ OpenOnesArePending
      /\ BoardIsRight /\ CancelledIsStopped /\ bare = {}
      /\ caller[c] = "out" /\ a \in Devices
  BY CallersLook DEF ScanInv, C!AnsweredUnlessStopped, C!Call
<1>1. stopped' = stopped /\ bare' = bare
  BY DEF C!Call
<1>2. CASE C!Joinable(a)
  <2>1. /\ caller' = [caller EXCEPT ![c] = "follows"]
        /\ leader' = [leader EXCEPT ![c] = board[a]]
        /\ future' = future /\ board' = board
    BY <1>2 DEF C!Call
  <2>2. /\ board[a] \in Callers /\ future[board[a]] = "open"
        /\ SearchedBy(board[a]) = a /\ board[a] # c
    BY <1>0, <1>2 DEF C!Joinable, ScanTypes, BoardIsRight, LeadersHaveFutures, C!Leads,
                      C!None
  <2>3. ScanTypes'
    BY <1>0, <1>1, <2>1, <2>2 DEF ScanTypes
  <2>4. LeadersHaveFutures' /\ OpenOnesArePending' /\ BoardIsRight' /\ CancelledIsStopped'
    BY <1>0, <1>1, <2>1 DEF ScanTypes, LeadersHaveFutures, OpenOnesArePending,
                            BoardIsRight, CancelledIsStopped, C!Leads
  <2>5. FollowersWait'
    BY <1>0, <2>1, <2>2 DEF ScanTypes, FollowersWait
  <2> QED
    BY <1>0, <1>1, <2>3, <2>4, <2>5 DEF ScanInv, C!AnsweredUnlessStopped
<1>3. CASE ~C!Joinable(a)
  <2>1. /\ caller' = [caller EXCEPT ![c] = "queued"]
        /\ leader' = [leader EXCEPT ![c] = c]
        /\ future' = [future EXCEPT ![c] = "open"]
        /\ board' = [board EXCEPT ![a] = c]
    BY <1>3 DEF C!Call
  <2>2. ScanTypes'
    BY <1>0, <1>1, <2>1 DEF ScanTypes
  <2>3. LeadersHaveFutures' /\ CancelledIsStopped' /\ BoardIsRight'
    BY <1>0, <1>1, <2>1, CallersLook
       DEF ScanTypes, LeadersHaveFutures, CancelledIsStopped, BoardIsRight, C!Leads, C!None
  <2>4. FollowersWait'
    BY <1>0, <2>1 DEF ScanTypes, FollowersWait
  <2>5. ASSUME NEW d \in Callers, future'[d] = "open" PROVE board'[SearchedBy(d)] = d
    <3>1. CASE d = c
      BY <1>0, <2>1, <3>1 DEF ScanTypes
    <3>2. CASE d # c
      <4>1. future[d] = "open" /\ board[SearchedBy(d)] = d
        BY <1>0, <2>1, <2>5, <3>2 DEF ScanTypes, OpenOnesArePending
      <4>2. SearchedBy(d) # a
        BY <1>3, <4>1, CallersLook DEF C!Joinable
      <4> QED
        BY <1>0, <2>1, <4>1, <4>2, CallersLook DEF ScanTypes
    <3> QED
      BY <3>1, <3>2
  <2>6. OpenOnesArePending'
    BY <2>5 DEF OpenOnesArePending
  <2> QED
    BY <1>0, <1>1, <2>2, <2>3, <2>4, <2>6 DEF ScanInv, C!AnsweredUnlessStopped
<1> QED
  BY <1>2, <1>3

(* The calls in R come back, and the leaders among them take their futures off
   the board.  Of those that were waiting none is left without its leader. *)
LEMMA ReturnStep ==
  ASSUME ScanInv, NEW R0 \in SUBSET Callers, NEW excused \in SUBSET Callers,
         caller' = [c \in Callers |-> IF c \in R0 THEN "out" ELSE caller[c]],
         leader' = [c \in Callers |-> IF c \in R0 THEN C!None ELSE leader[c]],
         stopped' = (stopped \cup excused) \ R0,
         bare' = {},
         future' \in [Callers -> {C!None, "open", "done", "cancelled"}],
         \A c \in Callers : future'[c] # C!None <=> future[c] # C!None /\ c \notin R0,
         \A c \in Callers : future'[c] = "open" => future[c] = "open",
         \A c \in Callers :
            future'[c] = "cancelled" => future[c] = "cancelled" \/ c \in excused,
         \A f \in Callers \ R0 : caller[f] = "follows" => future'[leader[f]] = "open",
         board' \in [Devices -> Callers \cup {C!None}],
         \A d \in Devices : board'[d] \in {board[d], C!None},
         \A d \in Devices : board'[d] = board[d] \/ board[d] \in R0
  PROVE  ScanInv'
<1>0. /\ ScanTypes /\ LeadersHaveFutures /\ FollowersWait /\ OpenOnesArePending
      /\ BoardIsRight /\ CancelledIsStopped
  BY DEF ScanInv
<1>1. ScanTypes'
  BY <1>0, Zenon DEF ScanTypes
<1>2. LeadersHaveFutures'
  BY <1>0 DEF ScanTypes, LeadersHaveFutures, C!Leads
<1>3. FollowersWait'
  BY <1>0 DEF ScanTypes, FollowersWait
<1>4. OpenOnesArePending'
  <2> SUFFICES ASSUME NEW d \in Callers, future'[d] = "open" PROVE board'[SearchedBy(d)] = d
    BY DEF OpenOnesArePending
  <2>1. board[SearchedBy(d)] = d /\ d \notin R0 /\ SearchedBy(d) \in Devices
    BY <1>0, CallersLook DEF OpenOnesArePending, C!None
  <2> QED
    BY <2>1
<1>5. BoardIsRight'
  BY <1>0 DEF BoardIsRight
<1>6. CancelledIsStopped'
  BY <1>0 DEF CancelledIsStopped, C!None
<1> QED
  BY <1>1, <1>2, <1>3, <1>4, <1>5, <1>6 DEF ScanInv, C!AnsweredUnlessStopped

LEMMA BoardAfterLeave ==
  ASSUME ScanInv, NEW c \in Callers, C!Leave(c)
  PROVE  /\ board' \in [Devices -> Callers \cup {C!None}]
         /\ \A d \in Devices : board'[d] \in {board[d], C!None}
         /\ \A d \in Devices : board'[d] = board[d] \/ board[d] = c
BY CallersLook DEF ScanInv, ScanTypes, C!Leave

LEMMA EnterStep ==
  ASSUME ScanInv, NEW c \in Callers, C!Enter(c) PROVE ScanInv'
<1>0. /\ ScanTypes /\ LeadersHaveFutures /\ FollowersWait /\ OpenOnesArePending
      /\ BoardIsRight /\ CancelledIsStopped /\ bare = {} /\ caller[c] = "queued"
  BY DEF ScanInv, C!AnsweredUnlessStopped, C!Enter
<1>1. CASE future[c] # "open"
  <2>1. /\ C!Return({c}, C!Bare(c), {}) /\ C!Leave(c)
        /\ future' = [future EXCEPT ![c] = C!None]
    BY <1>1 DEF C!Enter
  <2>2. C!Bare(c) \subseteq stopped
    BY <1>0 DEF C!Bare, CancelledIsStopped
  <2>3. \A f \in Callers : caller[f] = "follows" => leader[f] # c
    BY <1>0, <1>1 DEF FollowersWait
  <2>4. /\ future' \in [Callers -> {C!None, "open", "done", "cancelled"}]
        /\ \A d \in Callers : future'[d] # C!None <=> future[d] # C!None /\ d \notin {c}
        /\ \A d \in Callers : future'[d] = "open" => future[d] = "open"
        /\ \A d \in Callers : future'[d] = "cancelled" => future[d] = "cancelled"
        /\ \A f \in Callers \ {c} : caller[f] = "follows" => future'[leader[f]] = "open"
    BY <1>0, <2>1, <2>3 DEF ScanTypes, FollowersWait, C!None
  <2>5. /\ caller' = [d \in Callers |-> IF d \in {c} THEN "out" ELSE caller[d]]
        /\ leader' = [d \in Callers |-> IF d \in {c} THEN C!None ELSE leader[d]]
        /\ stopped' = (stopped \cup {}) \ {c}
        /\ bare' = {}
    BY <1>0, <2>1, <2>2 DEF C!Return
  <2> QED
    BY <2>1, <2>4, <2>5, ReturnStep, BoardAfterLeave, SMTT(30)
<1>2. CASE future[c] = "open"
  <2>1. /\ caller' = [caller EXCEPT ![c] = "scans"]
        /\ UNCHANGED <<leader, future, board, stopped, bare>>
    BY <1>2 DEF C!Enter
  <2>2. ScanTypes' /\ LeadersHaveFutures' /\ FollowersWait'
    BY <1>0, <2>1 DEF ScanTypes, LeadersHaveFutures, FollowersWait, C!Leads
  <2> QED
    BY <1>0, <2>1, <2>2 DEF ScanInv, OpenOnesArePending, BoardIsRight, CancelledIsStopped,
       C!AnsweredUnlessStopped
<1> QED
  BY <1>1, <1>2

(* Every future that somebody waits for is on the board, so the scan's end sets
   it: nobody is left waiting. *)
LEMMA ScannedStep ==
  ASSUME ScanInv, NEW c \in Callers, C!Scanned(c) PROVE ScanInv'
<1> DEFINE back == (UNION {C!Followers(d) : d \in C!Served(c)}) \cup {c}
<1>0. /\ ScanTypes /\ LeadersHaveFutures /\ FollowersWait /\ OpenOnesArePending
      /\ BoardIsRight /\ CancelledIsStopped /\ bare = {} /\ caller[c] = "scans"
  BY DEF ScanInv, C!AnsweredUnlessStopped, C!Scanned
<1>1. /\ C!Return(back, C!Bare(c), {}) /\ C!Leave(c)
      /\ future' = [d \in Callers |-> IF d = c THEN C!None
                       ELSE IF d \in C!Served(c) THEN "done" ELSE future[d]]
  BY DEF C!Scanned
<1>2. C!Bare(c) \subseteq stopped
  BY <1>0 DEF C!Bare, CancelledIsStopped
<1>3. \A d \in Callers : future[d] = "open" => d \in C!Served(c)
  BY <1>0, CallersLook DEF C!Served, OpenOnesArePending
<1>4. \A d \in C!Served(c) : d \in Callers /\ future[d] = "open"
  BY DEF C!Served
<1>5. \A f \in Callers : caller[f] = "follows" => f \in back
  BY <1>0, <1>3 DEF FollowersWait, C!Followers
<1>6. back \subseteq Callers /\ c \in back
  BY DEF C!Followers
<1>7. \A f \in back : f = c \/ caller[f] = "follows"
  BY DEF C!Followers
<1> HIDE DEF back
<1>8. \A d \in Callers : future'[d] # C!None <=> future[d] # C!None /\ d \notin back
  <2> SUFFICES ASSUME NEW d \in Callers
               PROVE  future'[d] # C!None <=> future[d] # C!None /\ d \notin back
    OBVIOUS
  <2>1. CASE d = c
    BY <1>1, <1>6, <2>1
  <2>2. CASE d # c
    <3>1. future'[d] # C!None <=> future[d] # C!None
      BY <1>1, <1>4, <2>2 DEF C!None
    <3>2. future[d] # C!None => d \notin back
      BY <1>0, <1>7, <2>2 DEF LeadersHaveFutures, C!Leads
    <3> QED
      BY <3>1, <3>2
  <2> QED
    BY <2>1, <2>2
<1>9. /\ future' \in [Callers -> {C!None, "open", "done", "cancelled"}]
      /\ \A d \in Callers : future'[d] = "open" => future[d] = "open"
      /\ \A d \in Callers : future'[d] = "cancelled" => future[d] = "cancelled"
  BY <1>0, <1>1 DEF ScanTypes, C!None
<1>10. /\ caller' = [d \in Callers |-> IF d \in back THEN "out" ELSE caller[d]]
       /\ leader' = [d \in Callers |-> IF d \in back THEN C!None ELSE leader[d]]
       /\ stopped' = (stopped \cup {}) \ back
       /\ bare' = {}
  BY <1>0, <1>1, <1>2 DEF C!Return
<1>11. \A f \in Callers \ back : caller[f] = "follows" => future'[leader[f]] = "open"
  BY <1>5
<1>12. /\ board' \in [Devices -> Callers \cup {C!None}]
       /\ \A d \in Devices : board'[d] \in {board[d], C!None}
       /\ \A d \in Devices : board'[d] = board[d] \/ board[d] \in back
  BY <1>1, <1>6, BoardAfterLeave
<1> QED
  BY <1>6, <1>8, <1>9, <1>10, <1>11, <1>12, ReturnStep

LEMMA CancelFollowerStep ==
  ASSUME ScanInv, NEW c \in Callers, C!CancelFollower(c) PROVE ScanInv'
<1> DEFINE l == leader[c]
           back == C!Followers(l)
<1>0. /\ ScanTypes /\ LeadersHaveFutures /\ FollowersWait /\ OpenOnesArePending
      /\ BoardIsRight /\ CancelledIsStopped /\ bare = {} /\ caller[c] = "follows"
  BY DEF ScanInv, C!AnsweredUnlessStopped, C!CancelFollower
<1>1. /\ C!Return(back, back, C!Same(c)) /\ board' = board
      /\ future' = [future EXCEPT ![l] = "cancelled"]
  BY DEF C!CancelFollower
<1>2. /\ l \in Callers /\ future[l] = "open" /\ SearchedBy(l) = SearchedBy(c)
      /\ C!Leads(l)
  BY <1>0 DEF FollowersWait, LeadersHaveFutures, C!None
<1>3. back \subseteq C!Same(c) /\ C!Same(c) \subseteq Callers /\ back \subseteq Callers
  BY <1>0, <1>2 DEF C!Followers, C!Same, FollowersWait
<1>4. l \in C!Same(c)
  BY <1>2 DEF C!Same, C!Leads
<1>5. \A f \in back : caller[f] = "follows"
  BY DEF C!Followers
<1>6. \A f \in Callers \ back : caller[f] = "follows" => leader[f] # l
  BY DEF C!Followers
<1> HIDE DEF l, back
<1>7. /\ caller' = [d \in Callers |-> IF d \in back THEN "out" ELSE caller[d]]
      /\ leader' = [d \in Callers |-> IF d \in back THEN C!None ELSE leader[d]]
      /\ stopped' = (stopped \cup C!Same(c)) \ back
      /\ bare' = {}
  BY <1>0, <1>1, <1>3 DEF C!Return
<1>8. \A d \in Callers : future'[d] # C!None <=> future[d] # C!None /\ d \notin back
  BY <1>0, <1>1, <1>2, <1>5 DEF ScanTypes, LeadersHaveFutures, C!Leads, C!None
<1>9. /\ future' \in [Callers -> {C!None, "open", "done", "cancelled"}]
      /\ \A d \in Callers : future'[d] = "open" => future[d] = "open"
      /\ \A d \in Callers : future'[d] = "cancelled" =>
            future[d] = "cancelled" \/ d \in C!Same(c)
      /\ \A f \in Callers \ back : caller[f] = "follows" => future'[leader[f]] = "open"
  BY <1>0, <1>1, <1>2, <1>4, <1>6 DEF ScanTypes, FollowersWait
<1>10. board' \in [Devices -> Callers \cup {C!None}]
  BY <1>0, <1>1 DEF ScanTypes
<1> QED
  BY <1>1, <1>3, <1>7, <1>8, <1>9, <1>10, ReturnStep

LEMMA CancelLeaderStep ==
  ASSUME ScanInv, NEW c \in Callers, C!CancelLeader(c) PROVE ScanInv'
<1> DEFINE back == C!Released(c)
<1>0. /\ ScanTypes /\ LeadersHaveFutures /\ FollowersWait /\ OpenOnesArePending
      /\ BoardIsRight /\ CancelledIsStopped /\ bare = {} /\ C!Leads(c)
  BY DEF ScanInv, C!AnsweredUnlessStopped, C!CancelLeader
<1>1. /\ C!Return(back, back, C!Same(c)) /\ C!Leave(c)
      /\ future' = [future EXCEPT ![c] = C!None]
  BY DEF C!CancelLeader
<1>2. back \subseteq C!Same(c) /\ C!Same(c) \subseteq Callers /\ back \subseteq Callers
  BY <1>0 DEF C!Released, C!Followers, C!Same, C!Leads, FollowersWait
<1>3. c \in back /\ \A f \in back : f = c \/ caller[f] = "follows"
  BY DEF C!Released, C!Followers
<1>4. \A f \in Callers \ back : caller[f] = "follows" => leader[f] # c
  BY DEF C!Released, C!Followers
<1> HIDE DEF back
<1>5. /\ caller' = [d \in Callers |-> IF d \in back THEN "out" ELSE caller[d]]
      /\ leader' = [d \in Callers |-> IF d \in back THEN C!None ELSE leader[d]]
      /\ stopped' = (stopped \cup C!Same(c)) \ back
      /\ bare' = {}
  BY <1>0, <1>1, <1>2 DEF C!Return
<1>6. \A d \in Callers : future'[d] # C!None <=> future[d] # C!None /\ d \notin back
  BY <1>0, <1>1, <1>3 DEF ScanTypes, LeadersHaveFutures, C!Leads, C!None
<1>7. /\ future' \in [Callers -> {C!None, "open", "done", "cancelled"}]
      /\ \A d \in Callers : future'[d] = "open" => future[d] = "open"
      /\ \A d \in Callers : future'[d] = "cancelled" => future[d] = "cancelled"
      /\ \A f \in Callers \ back : caller[f] = "follows" => future'[leader[f]] = "open"
  BY <1>0, <1>1, <1>4 DEF ScanTypes, FollowersWait, C!None
<1>8. /\ board' \in [Devices -> Callers \cup {C!None}]
      /\ \A d \in Devices : board'[d] \in {board[d], C!None}
      /\ \A d \in Devices : board'[d] = board[d] \/ board[d] \in back
  BY <1>1, <1>3, BoardAfterLeave
<1> QED
  BY <1>2, <1>5, <1>6, <1>7, <1>8, ReturnStep

LEMMA ScanStep == ScanInv /\ [Next]_vars => ScanInv'
<1> SUFFICES ASSUME ScanInv, [Next]_vars PROVE ScanInv'
  OBVIOUS
<1>1. C!Next \/ UNCHANGED cVars
  BY Zenon DEF Next, Handshake, Counter, Stream, Status, Bemfa, Limits, Restart, Import, Scan, vars
<1>2. UNCHANGED cVars => ScanInv'
  BY ScanStays DEF cVars
<1> QED
  BY <1>1, <1>2, CallStep, EnterStep, ScannedStep, CancelFollowerStep, CancelLeaderStep,
     Zenon DEF C!Next, C!Goes

-----------------------------------------------------------------------------
(* The queue at scan_lock: a task that leaves it is taken out of its place. *)

LEMMA LineStep == line \in Seq(Callers) /\ [Next]_vars => line' \in Seq(Callers)
<1> SUFFICES ASSUME line \in Seq(Callers), [Next]_vars PROVE line' \in Seq(Callers)
  OBVIOUS
<1>1. ASSUME NEW i \in DOMAIN line PROVE C!RemoveAt(line, i) \in Seq(Callers)
  <2> DEFINE s == SubSeq(line, 1, i - 1)
             t == SubSeq(line, i + 1, Len(line))
  <2>1. i \in 1 .. Len(line) /\ Len(line) \in Nat /\ \A k \in 1 .. Len(line) : line[k] \in Callers
    OBVIOUS
  <2>2. s \in Seq(Callers)
    <3>1. \A k \in 1 .. i - 1 : line[k] \in Callers
      BY <2>1
    <3> QED
      BY <2>1, <3>1, SubSeqProperties
  <2>3. t \in Seq(Callers)
    <3>1. \A k \in i + 1 .. Len(line) : line[k] \in Callers
      BY <2>1
    <3> QED
      BY <2>1, <3>1, SubSeqProperties, i + 1 \in Int, Len(line) \in Int
  <2>4. C!RemoveAt(line, i) = s \o t
    BY DEF C!RemoveAt
  <2> HIDE DEF s, t
  <2> QED
    BY <2>2, <2>3, <2>4, ConcatProperties
<1>2. ASSUME NEW c \in Callers, C!Leave(c) PROVE line' \in Seq(Callers)
  BY <1>1, <1>2 DEF C!Leave
<1>3. ASSUME NEW c \in Callers, C!Call(c) PROVE line' \in Seq(Callers)
  BY <1>3, AppendProperties DEF C!Call
<1>4. ASSUME NEW c \in Callers, C!Goes(c) \/ C!CancelFollower(c) \/ C!CancelLeader(c)
      PROVE  C!Leave(c) \/ line' = line
  BY <1>4, Zenon DEF C!Goes, C!Enter, C!Scanned, C!CancelFollower, C!CancelLeader
<1>5. C!Next \/ UNCHANGED cVars
  BY Zenon DEF Next, Handshake, Counter, Stream, Status, Bemfa, Limits, Restart, Import, Scan, vars
<1>6. UNCHANGED cVars => line' = line
  BY DEF cVars
<1> QED
  BY <1>2, <1>3, <1>4, <1>5, <1>6, Zenon DEF C!Next

-----------------------------------------------------------------------------
(* Handshake. *)

Early == {"init", "key", "desync", "ready", "taken", "random", "hmac"}
Late == {"ack", "second", "last", "result", "in"}

AnyFrame == [kind : H!Payloads \cup {"init", "key", "ready", "taken"}, val : Seq(Nat)]
(* Frames of a session: its HMAC was made with its keys. *)
FramesOf(s) == {f \in AnyFrame : f.kind = "hmac" => f.val = s}

LoginTypes ==
    /\ step \in H!Steps
    /\ tries \in 0 .. 4 /\ (step = "desync" => tries <= 2)
    /\ session \in 0 .. LoginAttempts
    /\ replays \in BOOLEAN
    /\ inbox \in Seq(AnyFrame) /\ sent \in Seq(AnyFrame)
    /\ Len(result) <= 1

(* The charger's last session is an earlier one until the host's HMAC is
   accepted, ... *)
TheirsIsEarlier ==
    \E s \in 0 .. session :
        theirs = H!Keys(s, s) /\ (step \in Early \cup {"confirm"} => s < session)
(* ... what is on its way until then is of the session it claims to be in, ... *)
FramesAreTheirs ==
    step \in Early =>
        /\ inbox \in Seq(FramesOf(H!Session)) /\ sent \in Seq(FramesOf(H!Session))
(* ... and the host's keys begin with its random number, which is new. *)
KeysAreOurs ==
    /\ step = "hmac" => keys = H!Keys(session, keys[2])
    /\ step = "confirm" => ~replays /\ keys = H!Keys(session, session)
    /\ step \in Late => keys = theirs /\ keys = H!Keys(session, session)

LoginInv == LoginTypes /\ TheirsIsEarlier /\ FramesAreTheirs /\ KeysAreOurs

LEMMA FramesAreFrames ==
  /\ \A s : FramesOf(s) \subseteq AnyFrame
  /\ \A s : \A k \in {"init", "key", "ready", "taken", "challenge"} :
        H!Frame(k) \in FramesOf(s)
  /\ H!Nothing \notin AnyFrame
  /\ \A f \in AnyFrame : f.kind # "nothing"
BY EmptySeq DEF FramesOf, AnyFrame, H!Frame, H!NoKeys, H!Nothing, H!Payloads

LEMMA LoginInit == Init => LoginInv
<1> SUFFICES ASSUME Init PROVE LoginInv
  OBVIOUS
<1>1. LoginAttempts \in Nat \ {0}
  BY ServicesAssumption DEF H!HandshakeConstants
<1>2. /\ step = "idle" /\ tries = 0 /\ inbox = <<>> /\ result = <<>> /\ session = 0
      /\ sent = <<>> /\ replays \in BOOLEAN /\ theirs = H!Keys(0, 0)
  BY DEF Init, H!Init
<1>3. LoginTypes
  BY <1>1, <1>2, EmptySeq DEF LoginTypes, H!Steps
<1>4. TheirsIsEarlier
  BY <1>2 DEF TheirsIsEarlier, Early
<1> QED
  BY <1>2, <1>3, <1>4 DEF LoginInv, FramesAreTheirs, KeysAreOurs, Early, Late

LEMMA LoginStays ==
  ASSUME LoginInv, UNCHANGED hVars PROVE LoginInv'
BY DEF hVars, LoginInv, LoginTypes, TheirsIsEarlier, FramesAreTheirs, KeysAreOurs,
       H!Session

(* What a wait takes is the oldest frame, or nothing; the others stay. *)
LEMMA TakeStep ==
  ASSUME NEW S0, inbox \in Seq(S0), NEW f \in H!Frames, H!Take(f)
  PROVE  inbox' \in Seq(S0) /\ (f = H!Nothing \/ f \in S0)
<1>1. CASE inbox = <<>>
  BY <1>1 DEF H!Take, H!Frames
<1>2. CASE inbox # <<>>
  BY <1>2, HeadTailProperties DEF H!Take, H!Frames
<1> QED
  BY <1>1, <1>2

(* The charger answers with frames of the session it claims to be in. *)
LEMMA AnswersStep ==
  ASSUME NEW write, LoginInv
  PROVE  H!Answers(write) \in Seq(FramesOf(H!Session))
<1>1. \E n \in Nat : H!Session = <<n, n>>
  BY DEF LoginInv, LoginTypes, TheirsIsEarlier, H!Session, H!Keys
<1>2. H!Session \in Seq(Nat) /\ <<H!Session[2]>> \in Seq(Nat)
  BY <1>1
<1>3. /\ H!Value("random", <<H!Session[2]>>) \in FramesOf(H!Session)
      /\ H!Value("hmac", H!Session) \in FramesOf(H!Session)
      /\ H!Value("response", H!Session) \in FramesOf(H!Session)
  BY <1>2 DEF H!Value, FramesOf, AnyFrame, H!Payloads
<1> HIDE DEF H!Frame, H!Value
<1>4. \A a, b, c, d \in FramesOf(H!Session) :
         /\ <<a>> \in Seq(FramesOf(H!Session))
         /\ <<a, b, c>> \in Seq(FramesOf(H!Session))
         /\ <<a, b, c, d>> \in Seq(FramesOf(H!Session))
  OBVIOUS
<1>5. <<>> \in Seq(FramesOf(H!Session))
  BY EmptySeq
<1> QED
  BY <1>3, <1>4, <1>5, FramesAreFrames DEF H!Answers

LEMMA WriteStep ==
  ASSUME NEW write, LoginInv, H!Write(write),
         NEW S0, sent \in Seq(S0), FramesOf(H!Session) \subseteq S0
  PROVE  sent' \in Seq(S0)
<1>1. \A q \in Seq(FramesOf(H!Session)) : q \in Seq(S0)
  BY SeqDef
<1>2. H!Answers(write) \in Seq(S0)
  BY <1>1, AnswersStep
<1>3. <<>> \in Seq(S0) /\ <<H!Frame("key")>> \in Seq(S0)
  BY EmptySeq, FramesAreFrames
<1>4. ASSUME NEW n \in 1 .. H!MaxRepeats, NEW key \in {<<>>, <<H!Frame("key")>>}
      PROVE  sent \o H!Inits(n) \o key \in Seq(S0)
  <2>1. n \in Nat /\ H!Frame("init") \in S0
    BY FramesAreFrames DEF H!MaxRepeats
  <2>2. H!Inits(n) \in Seq(S0)
    BY <2>1, SeqDef DEF H!Inits
  <2> QED
    BY <1>3, <2>2, ConcatProperties
<1>5. sent \o H!Answers(write) \in Seq(S0)
  BY <1>2, ConcatProperties
<1> QED
  BY <1>4, <1>5, Zenon DEF H!Write

(* So the queues keep what they are allowed to hold. *)
QueuesKept ==
    /\ inbox' \in Seq(AnyFrame) /\ sent' \in Seq(AnyFrame)
    /\ step \in Early =>
        /\ inbox' \in Seq(FramesOf(H!Session)) /\ sent' \in Seq(FramesOf(H!Session))

LEMMA QueuesStep ==
  ASSUME LoginInv,
         \/ inbox' \in {inbox, <<>>}
         \/ inbox # <<>> /\ inbox' = Tail(inbox)
         \/ \E f \in H!Frames : H!Take(f),
         sent' = sent \/ \E write : H!Write(write)
  PROVE  QueuesKept
<1>1. /\ inbox \in Seq(AnyFrame) /\ sent \in Seq(AnyFrame)
      /\ step \in Early =>
            inbox \in Seq(FramesOf(H!Session)) /\ sent \in Seq(FramesOf(H!Session))
  BY DEF LoginInv, LoginTypes, FramesAreTheirs
<1>2. ASSUME NEW S0, inbox \in Seq(S0) PROVE inbox' \in Seq(S0)
  <2>1. CASE inbox # <<>> /\ inbox' = Tail(inbox)
    BY <1>2, <2>1, HeadTailProperties
  <2>2. CASE inbox' \in {inbox, <<>>}
    BY <1>2, <2>2, EmptySeq
  <2>3. CASE \E f \in H!Frames : H!Take(f)
    BY <1>2, <2>3, TakeStep
  <2> QED
    BY <2>1, <2>2, <2>3
<1>3. ASSUME NEW S0, sent \in Seq(S0), FramesOf(H!Session) \subseteq S0
      PROVE  sent' \in Seq(S0)
  BY <1>3, WriteStep
<1> QED
  BY <1>1, <1>2, <1>3, FramesAreFrames DEF QueuesKept

(* A wait that ends without keys changes nothing but the step and the queues. *)
LEMMA EarlyStep ==
  ASSUME LoginInv, QueuesKept, UNCHANGED <<session, replays, theirs, result>>,
         step \in Early \cup {"confirm"},
         step' = "failed" \/ step \in Early,
         step' \in {"key", "desync", "ready", "taken", "random", "failed"},
         tries' \in 0 .. 4, step' = "desync" => tries' <= 2
  PROVE  LoginInv'
<1>1. LoginTypes'
  BY DEF LoginInv, LoginTypes, QueuesKept, H!Steps, H!Waiting
<1>2. TheirsIsEarlier'
  BY DEF LoginInv, TheirsIsEarlier
<1>3. FramesAreTheirs'
  BY DEF QueuesKept, FramesAreTheirs, H!Session, Early
<1>4. KeysAreOurs'
  BY DEF KeysAreOurs, Late
<1> QED
  BY <1>1, <1>2, <1>3, <1>4 DEF LoginInv

LEMMA ConnectStep ==
  ASSUME LoginInv, H!Connect PROVE LoginInv'
<1>0. LoginAttempts \in Nat \ {0}
  BY ServicesAssumption DEF H!HandshakeConstants
<1>1. /\ session < LoginAttempts /\ session' = session + 1 /\ step' = "init" /\ tries' = 0
      /\ inbox' = <<>> /\ result' = <<>> /\ sent' = H!Answers("hello")
      /\ UNCHANGED <<replays, theirs>>
  BY DEF H!Connect
<1>2. sent' = <<H!Frame("init")>>
  BY <1>1 DEF H!Answers
<1>3. /\ inbox' \in Seq(AnyFrame) /\ sent' \in Seq(AnyFrame)
      /\ inbox' \in Seq(FramesOf(H!Session')) /\ sent' \in Seq(FramesOf(H!Session'))
  <2> DEFINE f == H!Frame("init")
  <2>1. f \in AnyFrame /\ f \in FramesOf(H!Session')
    BY FramesAreFrames
  <2> HIDE DEF f
  <2>2. <<f>> \in Seq(AnyFrame) /\ <<f>> \in Seq(FramesOf(H!Session'))
    BY <2>1
  <2> QED
    BY <1>1, <1>2, <2>2, EmptySeq DEF f
<1>4. LoginTypes'
  BY <1>0, <1>1, <1>3, EmptySeq DEF LoginInv, LoginTypes, H!Steps, H!Waiting
<1>5. TheirsIsEarlier'
  <2>1. PICK s \in 0 .. session : theirs = H!Keys(s, s)
    BY DEF LoginInv, TheirsIsEarlier
  <2>2. s \in 0 .. session' /\ s < session' /\ theirs' = H!Keys(s, s)
    BY <1>0, <1>1, <2>1 DEF LoginInv, LoginTypes
  <2> QED
    BY <2>2 DEF TheirsIsEarlier
<1> QED
  BY <1>1, <1>3, <1>4, <1>5 DEF LoginInv, FramesAreTheirs, KeysAreOurs, Late

(* The air: a frame arrives, or is lost. *)
LEMMA AirStep ==
  ASSUME LoginInv, H!Deliver \/ H!Lose PROVE LoginInv'
<1>1. /\ sent # <<>> /\ sent' = Tail(sent)
      /\ inbox' = Append(inbox, Head(sent)) \/ inbox' = inbox
      /\ UNCHANGED <<step, tries, session, keys, result, replays, theirs>>
  BY DEF H!Deliver, H!Lose, H!host
<1>2. ASSUME NEW S0, inbox \in Seq(S0), sent \in Seq(S0)
      PROVE  inbox' \in Seq(S0) /\ sent' \in Seq(S0)
  <2>1. Head(sent) \in S0 /\ Tail(sent) \in Seq(S0)
    BY <1>1, <1>2, HeadTailProperties
  <2>2. Append(inbox, Head(sent)) \in Seq(S0)
    BY <1>2, <2>1, AppendProperties
  <2> QED
    BY <1>1, <1>2, <2>1, <2>2, Zenon
<1>3. LoginTypes'
  BY <1>1, <1>2 DEF LoginInv, LoginTypes
<1>4. FramesAreTheirs'
  BY <1>1, <1>2 DEF LoginInv, FramesAreTheirs, H!Session
<1> QED
  BY <1>1, <1>3, <1>4 DEF LoginInv, TheirsIsEarlier, KeysAreOurs

LEMMA BeforeKeysStep ==
  ASSUME LoginInv, \/ H!AwaitInit \/ H!AwaitKey \/ H!AwaitLateKey \/ H!AwaitReady
                   \/ H!AwaitTaken
  PROVE  LoginInv'
<1>1. step \in Early
  BY DEF Early, H!AwaitInit, H!AwaitKey, H!AwaitLateKey, H!AwaitReady, H!AwaitTaken
<1>2. UNCHANGED <<session, replays, theirs, result>>
  BY DEF H!AwaitInit, H!AwaitKey, H!AwaitLateKey, H!AwaitReady, H!AwaitTaken,
         H!StartLogin, H!Proceed, H!Fail, H!GoTo
<1>3. /\ step' \in {"key", "desync", "ready", "taken", "random", "failed"}
      /\ tries' \in 0 .. 4 /\ (step' = "desync" => tries' <= 2)
  BY DEF H!AwaitInit, H!AwaitKey, H!AwaitLateKey, H!AwaitReady, H!AwaitTaken,
         H!StartLogin, H!Proceed, H!Fail, H!GoTo, H!LastTry, H!MaxSkips, LoginInv, LoginTypes
<1>4. sent' = sent \/ \E write : H!Write(write)
  BY Zenon DEF H!AwaitInit, H!AwaitKey, H!AwaitLateKey, H!AwaitReady, H!AwaitTaken,
         H!StartLogin, H!Proceed, H!Fail, H!GoTo
<1>5. \/ inbox' \in {inbox, <<>>}
      \/ inbox # <<>> /\ inbox' = Tail(inbox)
      \/ \E f \in H!Frames : H!Take(f)
  BY DEF H!AwaitInit, H!AwaitKey, H!AwaitLateKey, H!AwaitReady, H!AwaitTaken, H!StartLogin
<1> QED
  BY <1>1, <1>2, <1>3, <1>4, <1>5, QueuesStep, EarlyStep

(* The keys begin with the host's random number, ... *)
LEMMA RandomStep ==
  ASSUME LoginInv, H!AwaitRandom PROVE LoginInv'
<1>0. step = "random" /\ UNCHANGED <<session, replays, theirs, result, sent>>
  BY DEF H!AwaitRandom, H!Fail, H!GoTo
<1>1. PICK f \in H!Frames :
        /\ H!Take(f)
        /\ \/ /\ step' = "hmac" /\ tries' = 0
              /\ keys' = H!Keys(session, IF f.kind = "random" THEN f.val[1] ELSE 0)
           \/ step' = "failed" /\ tries' = 0
  BY DEF H!AwaitRandom, H!Fail, H!GoTo
<1>2. QueuesKept
  BY <1>0, <1>1, QueuesStep
<1>3. CASE step' = "failed"
  BY <1>0, <1>1, <1>2, <1>3, EarlyStep DEF Early
<1>4. CASE step' = "hmac"
  <2>1. keys' = H!Keys(session', keys'[2])
    BY <1>0, <1>1, <1>4 DEF H!Keys
  <2>2. LoginTypes'
    BY <1>0, <1>1, <1>2, <1>4 DEF LoginInv, LoginTypes, QueuesKept, H!Steps, H!Waiting
  <2>3. TheirsIsEarlier'
    BY <1>0, <1>4 DEF LoginInv, TheirsIsEarlier, Early
  <2>4. FramesAreTheirs'
    BY <1>0, <1>2, <1>4 DEF QueuesKept, FramesAreTheirs, H!Session, Early
  <2> QED
    BY <1>4, <2>1, <2>2, <2>3, <2>4 DEF LoginInv, KeysAreOurs, Late
<1> QED
  BY <1>1, <1>3, <1>4

(* ... which no HMAC of an earlier session was made with. *)
LEMMA HmacStep ==
  ASSUME LoginInv, H!AwaitHmac PROVE LoginInv'
<1>0. step = "hmac" /\ UNCHANGED <<session, keys, replays, theirs, result>> /\ tries' = 0
  BY DEF H!AwaitHmac, H!Fail, H!GoTo, H!Proceed
<1>1. PICK f \in H!Frames :
        /\ H!Take(f)
        /\ IF H!CheckHmac(f) THEN step' = "confirm" /\ H!Write("info")
           ELSE step' = "failed" /\ sent' = sent
  BY Zenon DEF H!AwaitHmac, H!Fail, H!GoTo, H!Proceed
<1>2. QueuesKept
  BY <1>0, <1>1, QueuesStep
<1>3. CASE step' = "failed"
  BY <1>0, <1>2, <1>3, EarlyStep DEF Early
<1>4. CASE H!CheckHmac(f)
  <2>1. f \in FramesOf(H!Session)
    BY <1>0, <1>1, <1>4, TakeStep DEF LoginInv, FramesAreTheirs, Early, H!CheckHmac,
       H!Nothing, H!Frame
  <2>2. keys = H!Session /\ keys = H!Keys(session, keys[2])
    BY <1>0, <1>4, <2>1 DEF LoginInv, KeysAreOurs, H!CheckHmac, FramesOf
  <2>3. PICK s \in 0 .. session : theirs = H!Keys(s, s) /\ s < session
    BY <1>0 DEF LoginInv, TheirsIsEarlier, Early
  <2>4. session \in Nat
    BY DEF LoginInv, LoginTypes
  <2>5. ~replays
    BY <2>2, <2>3, <2>4 DEF H!Session, H!Keys
  <2>6. keys = H!Keys(session, session)
    BY <2>2, <2>5 DEF H!Session
  <2>7. LoginTypes'
    BY <1>0, <1>1, <1>2, <1>4 DEF LoginInv, LoginTypes, QueuesKept, H!Steps, H!Waiting
  <2>8. TheirsIsEarlier'
    BY <1>0, <2>3 DEF TheirsIsEarlier
  <2> QED
    BY <1>0, <1>1, <1>4, <2>5, <2>6, <2>7, <2>8
       DEF LoginInv, FramesAreTheirs, KeysAreOurs, Early, Late
<1> QED
  BY <1>1, <1>3, <1>4

(* From here on the charger's session is this one. *)
LEMMA ConfirmStep ==
  ASSUME LoginInv, H!AwaitConfirm PROVE LoginInv'
<1>0. step = "confirm" /\ UNCHANGED <<session, keys, replays>> /\ tries' = 0
  BY DEF H!AwaitConfirm, H!Fail, H!GoTo
<1>1. PICK f \in H!Frames :
        /\ H!Take(f)
        /\ IF f.kind = "ready"
           THEN /\ step' = "ack" /\ H!Write("hmac") /\ theirs' = H!Session
                /\ result' \in {<<>>, <<IF replays \/ H!Session = keys THEN "ok"
                                        ELSE "refused">>}
           ELSE step' = "failed" /\ UNCHANGED <<sent, result, theirs>>
  BY Zenon DEF H!AwaitConfirm, H!Fail, H!GoTo
<1>2. QueuesKept
  BY <1>0, <1>1, QueuesStep
<1>3. CASE f.kind # "ready"
  BY <1>0, <1>1, <1>2, <1>3, EarlyStep
<1>4. CASE f.kind = "ready"
  <2>1. ~replays /\ keys = H!Keys(session, session)
    BY <1>0 DEF LoginInv, KeysAreOurs
  <2>2. theirs' = H!Keys(session, session)
    BY <1>1, <1>4, <2>1 DEF H!Session
  <2>3. Len(result') <= 1
    <3> DEFINE r == IF replays \/ H!Session = keys THEN "ok" ELSE "refused"
    <3>1. result' \in {<<>>, <<r>>}
      BY <1>1, <1>4
    <3>2. \A x : Len(<<x>>) = 1 /\ Len(<<>>) = 0
      OBVIOUS
    <3> HIDE DEF r
    <3>3. CASE result' = <<>>
      BY <3>2, <3>3
    <3>4. CASE result' = <<r>>
      BY <3>2, <3>4
    <3> QED
      BY <3>1, <3>3, <3>4
  <2>4. LoginTypes'
    BY <1>0, <1>1, <1>2, <1>4, <2>3 DEF LoginInv, LoginTypes, QueuesKept, H!Steps, H!Waiting
  <2>5. session \in 0 .. session
    BY DEF LoginInv, LoginTypes
  <2>6. TheirsIsEarlier'
    BY <1>0, <1>1, <1>4, <2>2, <2>5 DEF TheirsIsEarlier, Early
  <2> QED
    BY <1>0, <1>1, <1>4, <2>1, <2>2, <2>4, <2>6
       DEF LoginInv, FramesAreTheirs, KeysAreOurs, Early, Late
<1> QED
  BY <1>3, <1>4

LEMMA LateStep ==
  ASSUME LoginInv, \/ H!AwaitAck \/ H!AwaitSecond \/ H!AwaitLast \/ H!AwaitResult
                   \/ H!LoseLink
  PROVE  LoginInv'
<1>1. /\ step \in Late /\ step' \in Late \cup {"failed"}
      /\ UNCHANGED <<session, keys, theirs>>
  BY DEF Late, H!AwaitAck, H!AwaitSecond, H!AwaitLast, H!AwaitResult, H!LoseLink,
         H!Proceed, H!GoTo
<1>2. tries' \in 0 .. 4 /\ replays' \in BOOLEAN
  BY DEF LoginInv, LoginTypes, H!AwaitAck, H!AwaitSecond, H!AwaitLast, H!AwaitResult,
         H!LoseLink, H!Proceed, H!GoTo
<1>3. Len(result') <= 1
  BY EmptySeq DEF LoginInv, LoginTypes, H!AwaitAck, H!AwaitSecond, H!AwaitLast,
         H!AwaitResult, H!LoseLink, H!Proceed
<1>4. sent' = sent \/ \E write : H!Write(write)
  BY Zenon DEF H!AwaitAck, H!AwaitSecond, H!AwaitLast, H!AwaitResult, H!LoseLink
<1>5. \/ inbox' \in {inbox, <<>>}
      \/ \E f \in H!Frames : H!Take(f)
  BY DEF H!AwaitAck, H!AwaitSecond, H!AwaitLast, H!AwaitResult, H!LoseLink
<1>6. QueuesKept
  BY <1>4, <1>5, QueuesStep
<1>7. LoginTypes'
  BY <1>1, <1>2, <1>3, <1>6 DEF LoginInv, LoginTypes, QueuesKept, H!Steps, H!Waiting, Late
<1>8. TheirsIsEarlier'
  BY <1>1 DEF LoginInv, TheirsIsEarlier, Early, Late
<1> QED
  BY <1>1, <1>7, <1>8 DEF LoginInv, FramesAreTheirs, KeysAreOurs, Early, Late

LEMMA LoginStep == LoginInv /\ [Next]_vars => LoginInv'
<1> SUFFICES ASSUME LoginInv, [Next]_vars PROVE LoginInv'
  OBVIOUS
<1>1. H!Next \/ UNCHANGED hVars
  BY Zenon DEF Next, Handshake, Counter, Stream, Status, Bemfa, Limits, Restart, Import, Scan, vars
<1> QED
  BY <1>1, LoginStays, ConnectStep, AirStep, BeforeKeysStep, RandomStep, HmacStep,
     ConfirmStep, LateStep DEF H!Next, H!HostStep

(* A login has the keys of this very session, and who looks for a device gets an
   answer, or was stopped. *)
THEOREM LinkStaysOurs == Spec => []LinkIsOurs
<1>1. LoginInv => H!KeysAgree
  BY DEF LoginInv, KeysAreOurs, Late, H!KeysAgree
<1>2. ScanInv => C!AnsweredUnlessStopped
  BY DEF ScanInv
<1> QED
  BY <1>1, <1>2, LoginInit, LoginStep, ScanInit, ScanStep, PTL DEF Spec, LinkIsOurs

-----------------------------------------------------------------------------
(* FrameCounter. *)

(* Without noise the host is behind by as many frames as it has not seen, and by
   one if it has seen none, whether or not the low bits have wrapped since. *)
CounterInv ==
    /\ next \in 0 .. LowValues - 1 /\ low \in 0 .. LowValues - 1
    /\ unseen \in 0 .. MaxGap /\ ahead \in Int
    /\ ~noisy => \E k \in 0 .. unseen + 1 :
                    \/ ahead = 0 /\ next = low + k
                    \/ ahead = -1 /\ next = low + k - LowValues

LEMMA CounterBounds ==
  /\ LowValues \in Nat \ {0} /\ MaxGap \in Nat
  /\ MaxGap + 1 < LowValues \div 2
  /\ 2 * (LowValues \div 2) <= LowValues
BY ServicesAssumption DEF F!CounterConstants

(* The charger's low bits count up and wrap. *)
LEMMA CountingOn ==
  ASSUME NEW n \in 0 .. LowValues - 1
  PROVE  (n + 1) % LowValues = IF n = LowValues - 1 THEN 0 ELSE n + 1
BY CounterBounds

LEMMA CounterInit == Init => CounterInv
BY CounterBounds DEF Init, F!Init, CounterInv

LEMMA CounterStays ==
  ASSUME CounterInv, UNCHANGED fVars PROVE CounterInv'
BY DEF fVars, CounterInv

(* As long as it has not missed more than MaxGap frames it guesses right. *)
LEMMA GuessIsRight ==
  ASSUME CounterInv, ~noisy PROVE ahead + F!One(F!Wraps(next)) = 0
<1>1. PICK k \in 0 .. unseen + 1 :
         \/ ahead = 0 /\ next = low + k
         \/ ahead = -1 /\ next = low + k - LowValues
  BY DEF CounterInv
<1>2. /\ next \in Int /\ low \in Int /\ k \in Int /\ k <= MaxGap + 1 /\ k >= 0
      /\ LowValues \in Int /\ LowValues \div 2 \in Int /\ next >= 0 /\ low <= LowValues - 1
  BY CounterBounds DEF CounterInv
<1>3. CASE ahead = 0 /\ next = low + k
  <2>1. ~F!Wraps(next)
    BY <1>2, <1>3 DEF F!Wraps
  <2> QED
    BY <1>3, <2>1 DEF F!One
<1>4. CASE ahead = -1 /\ next = low + k - LowValues
  <2>1. low - next > LowValues \div 2 /\ next < low
    BY <1>2, <1>4, CounterBounds
  <2>2. F!Wraps(next)
    BY <2>1 DEF F!Wraps
  <2> QED
    BY <1>4, <2>2 DEF F!One
<1> QED
  BY <1>1, <1>3, <1>4

(* The charger counts on: the host is one frame more behind. *)
LEMMA AdvanceStep ==
  ASSUME CounterInv, NEW k \in 0 .. MaxGap + 1, NEW l \in 0 .. LowValues - 1,
         NEW lead \in Int,
         \/ lead = 0 /\ next = l + k
         \/ lead = -1 /\ next = l + k - LowValues,
         k <= MaxGap,
         F!Advance(lead)
  PROVE  \/ ahead' = 0 /\ next' = l + (k + 1)
         \/ ahead' = -1 /\ next' = l + (k + 1) - LowValues
<1>1. /\ next \in 0 .. LowValues - 1
      /\ LowValues \in Int /\ MaxGap \in Nat /\ MaxGap + 1 < LowValues
  BY CounterBounds DEF CounterInv
<1>2. CASE next = LowValues - 1
  <2>1. next' = 0 /\ ahead' = lead - 1
    BY <1>1, <1>2, CountingOn DEF F!Advance, F!One
  <2> QED
    BY <1>1, <1>2, <2>1
<1>3. CASE next # LowValues - 1
  <2>1. next' = next + 1 /\ ahead' = lead - 0
    BY <1>1, <1>3, CountingOn DEF F!Advance, F!One
  <2> QED
    BY <1>1, <1>3, <2>1
<1> QED
  BY <1>2, <1>3

LEMMA AdvanceTypes ==
  ASSUME CounterInv, NEW lead \in Int, F!Advance(lead)
  PROVE  next' \in 0 .. LowValues - 1 /\ ahead' \in Int
<1>1. next \in 0 .. LowValues - 1 /\ LowValues \in Nat \ {0}
  BY CounterBounds DEF CounterInv
<1>2. next' \in 0 .. LowValues - 1
  BY <1>1, CountingOn DEF F!Advance
<1>3. ahead' \in Int
  BY DEF F!Advance, F!One
<1> QED
  BY <1>2, <1>3

LEMMA SessionBegins ==
  ASSUME F!NewSession PROVE CounterInv'
BY CounterBounds DEF F!NewSession, F!ResetHigh, CounterInv

LEMMA FrameStep ==
  ASSUME CounterInv, F!Receive PROVE CounterInv'
<1> DEFINE lead == ahead + F!One(F!Wraps(next))
<1>0. lead \in Int
  BY DEF CounterInv, F!One
<1>1. CASE lead # 0 /\ F!TooMany
  BY <1>1, SessionBegins DEF F!Receive
<1>2. CASE ~(lead # 0 /\ F!TooMany)
  <2>1. low' = next /\ unseen' = 0 /\ F!Advance(lead) /\ noisy' = noisy
    BY <1>2 DEF F!Receive
  <2>2. next \in 0 .. LowValues - 1 /\ next \in Int /\ MaxGap \in Nat
    BY CounterBounds DEF CounterInv
  <2>3. next' \in 0 .. LowValues - 1 /\ ahead' \in Int
    BY <1>0, <2>1, AdvanceTypes
  <2>4. ~noisy => lead = 0
    BY GuessIsRight
  <2> HIDE DEF lead
  <2>5. ASSUME ~noisy
        PROVE  \/ ahead' = 0 /\ next' = next + 1
               \/ ahead' = -1 /\ next' = next + 1 - LowValues
    BY <1>0, <2>1, <2>2, <2>4, <2>5, AdvanceStep
  <2>6. unseen' \in 0 .. MaxGap /\ 1 \in 0 .. unseen' + 1
    BY <2>1, <2>2
  <2>7. ~noisy' => \E k \in 0 .. unseen' + 1 :
                      \/ ahead' = 0 /\ next' = low' + k
                      \/ ahead' = -1 /\ next' = low' + k - LowValues
    BY <2>1, <2>5, <2>6
  <2> QED
    BY <2>1, <2>2, <2>3, <2>6, <2>7 DEF CounterInv
<1> QED
  BY <1>1, <1>2

LEMMA MissStep ==
  ASSUME CounterInv, F!Miss PROVE CounterInv'
<1>1. /\ unseen < MaxGap /\ unseen' = unseen + 1 /\ F!Advance(ahead)
      /\ UNCHANGED <<low, noisy>>
  BY DEF F!Miss
<1>2. unseen \in 0 .. MaxGap /\ ahead \in Int /\ low \in 0 .. LowValues - 1 /\ MaxGap \in Nat
  BY CounterBounds DEF CounterInv
<1>3. next' \in 0 .. LowValues - 1 /\ ahead' \in Int
  BY <1>1, <1>2, AdvanceTypes
<1>4. ASSUME ~noisy
      PROVE  \E k \in 0 .. unseen' + 1 :
                \/ ahead' = 0 /\ next' = low + k
                \/ ahead' = -1 /\ next' = low + k - LowValues
  <2>1. PICK k \in 0 .. unseen + 1 :
           \/ ahead = 0 /\ next = low + k
           \/ ahead = -1 /\ next = low + k - LowValues
    BY <1>4 DEF CounterInv
  <2>2. k \in 0 .. MaxGap + 1 /\ k <= MaxGap
    BY <1>1, <1>2
  <2>3. \/ ahead' = 0 /\ next' = low + (k + 1)
        \/ ahead' = -1 /\ next' = low + (k + 1) - LowValues
    BY <1>1, <1>2, <2>1, <2>2, AdvanceStep
  <2>4. k + 1 \in 0 .. unseen' + 1
    BY <1>1, <1>2
  <2> QED
    BY <2>3, <2>4
<1>5. unseen' \in 0 .. MaxGap
  BY <1>1, <1>2
<1> QED
  BY <1>1, <1>2, <1>3, <1>4, <1>5 DEF CounterInv

LEMMA CounterNext ==
  ASSUME CounterInv, F!Next PROVE CounterInv'
<1>1. CASE F!Reconnect
  BY <1>1, SessionBegins DEF F!Reconnect
<1>2. ASSUME NEW l \in 0 .. LowValues - 1, F!Noise(l) PROVE CounterInv'
  <2>1. CASE F!TooMany
    BY <1>2, <2>1, SessionBegins DEF F!Noise
  <2>2. CASE ~F!TooMany
    BY <1>2, <2>2 DEF F!Noise, F!One, CounterInv
  <2> QED
    BY <2>1, <2>2
<1> QED
  BY <1>1, <1>2, FrameStep, MissStep DEF F!Next

LEMMA CounterStep == CounterInv /\ [Next]_vars => CounterInv'
<1> SUFFICES ASSUME CounterInv, [Next]_vars PROVE CounterInv'
  OBVIOUS
<1>1. F!Next \/ UNCHANGED fVars
  BY Zenon DEF Next, Handshake, Counter, Stream, Status, Bemfa, Limits, Restart, Import, Scan, vars
<1> QED
  BY <1>1, CounterNext, CounterStays

(* Whatever number of frames has passed and however often the low bits have
   wrapped: without noise, every frame that arrives is decrypted. *)
THEOREM EveryFrameIsRead == Spec => F!ReadsEveryFrame
<1>1. CounterInv /\ [Next]_vars => [F!Receive /\ ~noisy => readable']_(F!vars)
  <2> SUFFICES ASSUME CounterInv, F!Receive, ~noisy PROVE readable'
    OBVIOUS
  <2>1. readable' = (ahead + F!One(F!Wraps(next)) = 0)
    BY Zenon DEF F!Receive
  <2> QED
    BY <2>1, GuessIsRight
<1> QED
  BY <1>1, CounterInit, CounterStep, PTL DEF Spec, F!ReadsEveryFrame
-----------------------------------------------------------------------------
(* How far the high bits may be off: a frame that is not the charger's can make
   the host count one wrap too many, or miss one. *)

(* No noise has come since the host last read the charger's low bits. *)
Clean == low = next - unseen - 1 \/ low = next - unseen - 1 + LowValues
(* The high bits once the charger's next frame is read, and as they would be if
   a wrap that was not seen yet were counted. *)
Upper == ahead + F!One(F!Wraps(next))
Lower == ahead + F!One(next <= unseen)

Flags == failed \in 0 .. MaxFails /\ readable \in BOOLEAN /\ noisy \in BOOLEAN
Drift ==
    /\ noise \in 0 .. MaxNoise
    /\ Upper <= noise
    /\ (Clean /\ Lower >= -noise) \/ Lower >= 1 - noise

LEMMA CounterTypes ==
  ASSUME CounterInv, Flags, Drift PROVE F!TypeOK
<1>1. ahead <= noise /\ ahead >= -1 - noise
  <2>1. ahead \in Int /\ noise \in Int
    BY DEF CounterInv, Drift
  <2> QED
    BY <2>1 DEF Drift, Upper, Lower, F!One
<1>2. MaxNoise \in Nat
  BY ServicesAssumption DEF F!CounterConstants
<1>3. ahead \in -1 - MaxNoise .. MaxNoise
  BY <1>1, <1>2 DEF CounterInv, Drift
<1> QED
  BY <1>3 DEF CounterInv, Flags, F!TypeOK

LEMMA DriftInit == Init => Flags /\ Drift
<1> SUFFICES ASSUME Init PROVE Flags /\ Drift
  OBVIOUS
<1>1. /\ next = 0 /\ unseen = 0 /\ low = 0 /\ ahead = 0 /\ failed = 0 /\ readable = TRUE
      /\ noise = 0 /\ noisy = FALSE
  BY DEF Init, F!Init
<1>2. MaxNoise \in Nat /\ MaxFails \in Nat
  BY ServicesAssumption DEF F!CounterConstants
<1>3. ~F!Wraps(next) /\ next <= unseen
  BY <1>1 DEF F!Wraps
<1>4. Upper = 0 /\ Lower = 1
  BY <1>1, <1>3 DEF Upper, Lower, F!One
<1>5. readable \in BOOLEAN /\ noisy \in BOOLEAN
  BY <1>1, Zenon
<1>6. failed \in 0 .. MaxFails /\ noise \in 0 .. MaxNoise
  BY <1>1, <1>2
<1>7. Upper <= noise /\ Lower >= 1 - noise
  BY <1>1, <1>4
<1> QED
  BY <1>5, <1>6, <1>7, Zenon DEF Flags, Drift

LEMMA DriftStays ==
  ASSUME Flags, Drift, UNCHANGED fVars PROVE Flags' /\ Drift'
<1>1. UNCHANGED <<next, unseen, low, ahead, failed, readable, noise, noisy>>
  BY DEF fVars
<1>2. Flags'
  BY <1>1 DEF Flags
<1>3. UNCHANGED <<Upper, Lower, Clean>>
  BY <1>1, Zenon DEF Upper, Lower, Clean, F!Wraps
<1>4. Drift'
  BY <1>1, <1>3, Zenon DEF Drift
<1> QED
  BY <1>2, <1>4

(* A session begins with as much noise as there was, or more. *)
LEMMA DriftRestarts ==
  ASSUME F!NewSession, noise' \in 0 .. MaxNoise PROVE Drift'
<1>1. next' = 0 /\ unseen' = 0 /\ low' = 0 /\ ahead' = 0
  BY DEF F!NewSession, F!ResetHigh
<1>2. F!One(F!Wraps(next))' = 0 /\ F!One(next <= unseen)' = 1
  BY <1>1, CounterBounds DEF F!One, F!Wraps
<1> QED
  BY <1>1, <1>2 DEF Drift, Upper, Lower

LEMMA FlagsStep ==
  ASSUME Flags, F!Next PROVE Flags'
<1>0. MaxFails \in Nat \ {0}
  BY ServicesAssumption DEF F!CounterConstants
<1>1. failed' \in 0 .. MaxFails
  <2>1. failed' \in {0, failed} \/ F!Count
    BY DEF F!Next, F!Receive, F!Miss, F!Reconnect, F!Noise, F!NewSession
  <2> QED
    BY <1>0, <2>1 DEF Flags, F!Count
<1>2. readable' \in BOOLEAN
  <2>1. CASE F!Receive
    BY <2>1, Zenon DEF F!Receive
  <2>2. CASE ~F!Receive
    BY <2>2, Zenon DEF F!Next, F!Miss, F!Reconnect, F!Noise, Flags
  <2> QED
    BY <2>1, <2>2
<1>3. noisy' \in BOOLEAN
  BY Zenon DEF F!Next, F!Receive, F!Miss, F!Reconnect, F!Noise, F!NewSession, Flags
<1> QED
  BY <1>1, <1>2, <1>3 DEF Flags

LEMMA DriftNumbers ==
  ASSUME CounterInv
  PROVE  /\ next \in Int /\ low \in Int /\ unseen \in Int /\ ahead \in Int
         /\ 0 <= next /\ next < LowValues /\ 0 <= low /\ low < LowValues
         /\ 0 <= unseen /\ unseen <= MaxGap /\ MaxGap \in Int
         /\ LowValues \in Int /\ LowValues \div 2 \in Int
         /\ MaxGap + 1 < LowValues \div 2 /\ 2 * (LowValues \div 2) <= LowValues
BY CounterBounds DEF CounterInv

(* A frame is received and the session goes on: its own wrap is counted, ... *)
LEMMA DriftReceives ==
  ASSUME CounterInv, Drift, low' = next, unseen' = 0, F!Advance(Upper), noise' = noise
  PROVE  Drift'
<1> DEFINE half == LowValues \div 2
<1>1. /\ next \in Int /\ low \in Int /\ unseen \in Int /\ ahead \in Int
      /\ 0 <= next /\ next < LowValues /\ 0 <= low /\ low < LowValues
      /\ 0 <= unseen /\ unseen <= MaxGap /\ MaxGap \in Int
      /\ LowValues \in Int /\ half \in Int
      /\ MaxGap + 1 < half /\ 2 * half <= LowValues
  BY DriftNumbers
<1>2. next' = IF next = LowValues - 1 THEN 0 ELSE next + 1
  BY CountingOn DEF F!Advance, CounterInv
<1>3. ahead' = Upper - (IF next = LowValues - 1 THEN 1 ELSE 0) /\ Upper \in Int
  BY <1>1 DEF F!Advance, Upper, F!One
<1>4. Upper = IF next < low /\ low - next > half THEN ahead + 1 ELSE ahead
  BY <1>1 DEF Upper, F!One, F!Wraps
<1>5. Lower = IF next <= unseen THEN ahead + 1 ELSE ahead
  BY <1>1 DEF Lower, F!One
<1>6. Upper' = IF next' < next /\ next - next' > half THEN ahead' + 1 ELSE ahead'
  BY <1>1, <1>2, <1>3 DEF Upper, F!One, F!Wraps
<1>7. Lower' = IF next' <= 0 THEN ahead' + 1 ELSE ahead'
  BY <1>1, <1>2, <1>3 DEF Lower, F!One
<1>8. noise \in 0 .. MaxNoise /\ noise \in Int /\ Upper <= noise
      /\ ((Clean /\ Lower >= -noise) \/ Lower >= 1 - noise)
  BY DEF Drift
<1> HIDE DEF half
<1>9. Upper' = Upper /\ Lower' = Upper
  BY <1>1, <1>2, <1>3, <1>6, <1>7
<1>10. Upper >= -noise
  <2>1. CASE Lower >= 1 - noise
    BY <1>1, <1>4, <1>5, <1>8, <2>1
  <2>2. CASE Clean /\ Lower >= -noise
    <3>1. next <= unseen => low - next > half /\ next < low
      BY <1>1, <2>2 DEF Clean
    <3> QED
      BY <1>1, <1>4, <1>5, <1>8, <2>2, <3>1
  <2> QED
    BY <1>8, <2>1, <2>2
<1>11. Clean'
  BY <1>1, <1>2 DEF Clean
<1> QED
  BY <1>8, <1>9, <1>10, <1>11 DEF Drift

(* ... and one that the host does not see is one it may yet notice. *)
LEMMA DriftMisses ==
  ASSUME CounterInv, Drift, F!Miss PROVE Drift'
<1> DEFINE half == LowValues \div 2
<1>1. /\ next \in Int /\ low \in Int /\ unseen \in Int /\ ahead \in Int
      /\ 0 <= next /\ next < LowValues /\ 0 <= low /\ low < LowValues
      /\ 0 <= unseen /\ unseen <= MaxGap /\ MaxGap \in Int
      /\ LowValues \in Int /\ half \in Int
      /\ MaxGap + 1 < half /\ 2 * half <= LowValues
  BY DriftNumbers
<1>2. /\ unseen' = unseen + 1 /\ low' = low /\ noise' = noise /\ F!Advance(ahead)
  BY DEF F!Miss
<1>3. next' = IF next = LowValues - 1 THEN 0 ELSE next + 1
  BY <1>2, CountingOn DEF F!Advance, CounterInv
<1>4. ahead' = ahead - (IF next = LowValues - 1 THEN 1 ELSE 0)
  BY <1>1, <1>2 DEF F!Advance, F!One
<1>5. Upper = IF next < low /\ low - next > half THEN ahead + 1 ELSE ahead
  BY <1>1 DEF Upper, F!One, F!Wraps
<1>6. Lower = IF next <= unseen THEN ahead + 1 ELSE ahead
  BY <1>1 DEF Lower, F!One
<1>7. Upper' = IF next' < low /\ low - next' > half THEN ahead' + 1 ELSE ahead'
  BY <1>1, <1>2, <1>3, <1>4 DEF Upper, F!One, F!Wraps
<1>8. Lower' = IF next' <= unseen + 1 THEN ahead' + 1 ELSE ahead'
  BY <1>1, <1>2, <1>3, <1>4 DEF Lower, F!One
<1>9. noise \in 0 .. MaxNoise /\ noise \in Int /\ Upper <= noise
      /\ ((Clean /\ Lower >= -noise) \/ Lower >= 1 - noise)
  BY DEF Drift
<1> HIDE DEF half
<1>10. Upper' <= Upper
  BY <1>1, <1>3, <1>4, <1>5, <1>7
<1>11. Lower' = Lower
  BY <1>1, <1>3, <1>4, <1>6, <1>8
<1>12. Clean => Clean'
  BY <1>1, <1>2, <1>3 DEF Clean
<1>13. Upper \in Int /\ Upper' \in Int
  BY <1>1, <1>3, <1>4, <1>5, <1>7
<1>14. Upper' <= noise'
  BY <1>2, <1>9, <1>10, <1>13
<1> QED
  BY <1>2, <1>9, <1>11, <1>12, <1>14 DEF Drift

(* A frame that is not the charger's moves the high bits by one at most: it and
   the next true one cannot both look like a wrap. *)
LEMMA DriftOfNoise ==
  ASSUME CounterInv, Drift, NEW l \in 0 .. LowValues - 1, noise < MaxNoise,
         noise' = noise + 1, low' = l, ahead' = ahead + F!One(F!Wraps(l)),
         UNCHANGED <<next, unseen>>
  PROVE  Drift'
<1> DEFINE half == LowValues \div 2
<1>1. /\ next \in Int /\ low \in Int /\ unseen \in Int /\ ahead \in Int
      /\ 0 <= next /\ next < LowValues /\ 0 <= low /\ low < LowValues
      /\ LowValues \in Int /\ half \in Int /\ 2 * half <= LowValues /\ LowValues <= 2 * half + 1
      /\ l \in Int /\ 0 <= l /\ l < LowValues
  BY DriftNumbers, CounterBounds
<1>2. ahead' = IF l < low /\ low - l > half THEN ahead + 1 ELSE ahead
  BY <1>1 DEF F!One, F!Wraps
<1>3. Upper = IF next < low /\ low - next > half THEN ahead + 1 ELSE ahead
  BY <1>1 DEF Upper, F!One, F!Wraps
<1>4. Lower = IF next <= unseen THEN ahead + 1 ELSE ahead
  BY <1>1 DEF Lower, F!One
<1>5. Upper' = IF next < l /\ l - next > half THEN ahead' + 1 ELSE ahead'
  BY <1>1, <1>2 DEF Upper, F!One, F!Wraps
<1>6. Lower' = IF next <= unseen THEN ahead' + 1 ELSE ahead'
  BY <1>1, <1>2 DEF Lower, F!One
<1>7. noise \in Int /\ 0 <= noise /\ MaxNoise \in Int /\ Upper <= noise /\ Lower >= -noise
  <2>1. noise \in 0 .. MaxNoise /\ MaxNoise \in Int
    BY ServicesAssumption DEF Drift, F!CounterConstants
  <2>2. Lower \in Int
    BY <1>1, <1>4
  <2> QED
    BY <2>1, <2>2 DEF Drift
<1> HIDE DEF half
<1>8. Upper' <= noise + 1
  BY <1>1, <1>2, <1>3, <1>5, <1>7
<1>9. Lower' >= 1 - (noise + 1)
  BY <1>1, <1>2, <1>4, <1>6, <1>7
<1>10. noise + 1 \in 0 .. MaxNoise
  BY <1>7
<1> QED
  BY <1>8, <1>9, <1>10 DEF Drift

LEMMA DriftNext ==
  ASSUME CounterInv, Drift, F!Next PROVE Drift'
<1>0. noise \in 0 .. MaxNoise /\ MaxNoise \in Nat
  BY ServicesAssumption DEF Drift, F!CounterConstants
<1>1. CASE F!Receive
  <2>1. noise' = noise /\ (F!NewSession \/ (low' = next /\ unseen' = 0 /\ F!Advance(Upper)))
    BY <1>1 DEF F!Receive, Upper
  <2> QED
    BY <1>0, <2>1, DriftReceives, DriftRestarts
<1>2. CASE F!Reconnect
  BY <1>0, <1>2, DriftRestarts DEF F!Reconnect
<1>3. ASSUME NEW l \in 0 .. LowValues - 1, F!Noise(l) PROVE Drift'
  <2>1. CASE F!TooMany
    BY <1>0, <1>3, <2>1, DriftRestarts DEF F!Noise
  <2>2. CASE ~F!TooMany
    BY <1>3, <2>2, DriftOfNoise DEF F!Noise
  <2> QED
    BY <2>1, <2>2
<1> QED
  BY <1>1, <1>2, <1>3, DriftMisses DEF F!Next

LEMMA DriftStep ==
  CounterInv /\ Flags /\ Drift /\ [Next]_vars => CounterInv' /\ Flags' /\ Drift'
<1> SUFFICES ASSUME CounterInv, Flags, Drift, [Next]_vars PROVE CounterInv' /\ Flags' /\ Drift'
  OBVIOUS
<1>1. F!Next \/ UNCHANGED fVars
  BY Zenon DEF Next, Handshake, Counter, Stream, Status, Bemfa, Limits, Restart, Import, Scan, vars
<1> QED
  BY <1>1, CounterStep, DriftNext, FlagsStep, DriftStays

=============================================================================
