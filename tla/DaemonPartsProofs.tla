--------------------------- MODULE DaemonPartsProofs ---------------------------
(***************************************************************************)
(* Proofs about the parts of DaemonParts, each on its own: the status      *)
(* socket, for statuses of any length; download requests, for any number   *)
(* of requests and of torrent objects; the seed time of a torrent, for any *)
(* settings and any width of a duration; and playlists, for any torrent    *)
(* and names of any length.                                                *)
(***************************************************************************)
EXTENDS StatusSocket, DownloadRequest, SeedPolicy, Playlist, SelectionProofs, SequenceTheorems, TLAPS

-----------------------------------------------------------------------------
(* The status socket.  What makes SocketInv inductive is that a handler     *)
(* that is writing a status has a frame of it left, also while the ping     *)
(* closes its message.                                                      *)

FrameLeft == pc["handler"] \in {"enter", "check", "set", "write"} => left > 0
SocketIInv == SocketInv /\ FrameLeft

Labels == {"status", "tick", "enter", "check", "set", "write", "ended"}

\* The types, one variable at a time.
Typed ==
  /\ client \in {"well", "stalled", "gone"} /\ pc \in [Go -> Labels] /\ left \in 0 .. MaxFrames
  /\ open \in BOOLEAN /\ finishing \in BOOLEAN /\ writing \in BOOLEAN
  /\ failed \in BOOLEAN /\ closed \in BOOLEAN /\ crashed \in BOOLEAN
LEMMA TypedIs == SocketTypeOK <=> Typed
BY DEF SocketTypeOK, Typed, Labels

LEMMA SocketInitInv == SocketInit => SocketIInv
<1> SUFFICES ASSUME SocketInit PROVE SocketIInv  OBVIOUS
<1>. USE FrameAssumption DEF SocketInit
<1>0. pc \in [Go -> Labels]
  <2>1. pc = [g \in Go |-> IF g = "handler" THEN "status" ELSE "tick"]  BY DEF Go
  <2>. QED  BY <2>1 DEF Labels
<1>1. Typed
  <2>1. left \in 0 .. MaxFrames  OBVIOUS
  <2>2. {client} \subseteq {"well", "stalled", "gone"}  OBVIOUS
  <2>3. open = FALSE /\ finishing = FALSE /\ writing = FALSE /\ failed = FALSE /\ closed = FALSE /\ crashed = FALSE
    OBVIOUS
  <2>. QED  BY <1>0, <2>1, <2>2, <2>3 DEF Typed
<1>2. FrameLeft /\ WritingHasWriter /\ ClosedByHandler
  BY DEF FrameLeft, WritingHasWriter, ClosedByHandler
<1>. QED  BY <1>1, <1>2, TypedIs DEF SocketIInv, SocketInv

\* The handler may end wherever it is not the one that keeps isWriting set.
LEMMA Ends ==
  ASSUME Typed, HandlerEnds
  PROVE  /\ pc' \in [Go -> Labels] /\ pc'["handler"] = "ended" /\ pc'["ping"] = pc["ping"]
         /\ closed' = TRUE /\ ClosedByHandler'
BY DEF HandlerEnds, Typed, Labels, Go, ClosedByHandler

\* Or it goes on.
LEMMA GoesOn ==
  ASSUME SocketIInv, Typed, pc["handler"] # "ended",
         NEW l \in Labels \ {"ended"}, pc' = [pc EXCEPT !["handler"] = l], UNCHANGED closed
  PROVE  /\ pc' \in [Go -> Labels] /\ pc'["handler"] = l /\ pc'["ping"] = pc["ping"]
         /\ closed' \in BOOLEAN /\ ClosedByHandler'
BY DEF SocketIInv, SocketInv, Typed, Labels, Go, ClosedByHandler

LEMMA BeginKeeps == SocketIInv /\ Begin => SocketIInv'
<1> SUFFICES ASSUME SocketIInv, Begin PROVE SocketIInv'  OBVIOUS
<1>0. Typed  BY TypedIs DEF SocketIInv, SocketInv
<1>1. CASE failed
  <2>1. HandlerEnds /\ UNCHANGED <<client, open, left, finishing, writing, failed, crashed>>
    BY <1>1 DEF Begin
  <2>2. Typed'  BY <1>0, <2>1, Ends DEF Typed
  <2>3. FrameLeft'  BY <1>0, <2>1, Ends DEF FrameLeft
  <2>4. WritingHasWriter'
    BY <1>0, <2>1, Ends DEF WritingHasWriter, SocketIInv, SocketInv, Begin, Go
  <2>5. ClosedByHandler'  BY <1>0, <2>1, Ends DEF ClosedByHandler
  <2>. QED  BY <2>2, <2>3, <2>4, <2>5, TypedIs DEF SocketIInv, SocketInv, SocketTypeOK, Typed, Labels
<1>2. CASE ~failed
  <2>1. /\ open' = TRUE /\ left' \in 1 .. MaxFrames
        /\ pc["handler"] = "status" /\ pc' = [pc EXCEPT !["handler"] = "enter"]
        /\ UNCHANGED <<client, finishing, writing, failed, closed, crashed>>
    BY <1>2 DEF Begin
  <2>2. Typed'  BY <1>0, <2>1 DEF Typed, Labels, Go
  <2>3. FrameLeft'  BY <2>1 DEF FrameLeft
  <2>4. WritingHasWriter'
    BY <1>0, <2>1 DEF WritingHasWriter, SocketIInv, SocketInv, Typed, Go
  <2>5. ClosedByHandler'  BY <1>0, <2>1 DEF ClosedByHandler, SocketIInv, SocketInv, Typed, Go
  <2>. QED  BY <2>2, <2>3, <2>4, <2>5, TypedIs DEF SocketIInv, SocketInv, SocketTypeOK, Typed, Labels
<1>. QED  BY <1>1, <1>2

LEMMA EnterKeeps == SocketIInv /\ Enter => SocketIInv'
<1> SUFFICES ASSUME SocketIInv, Enter PROVE SocketIInv'  OBVIOUS
<1>0. Typed  BY TypedIs DEF SocketIInv, SocketInv
<1>1. /\ pc["handler"] = "enter" /\ UNCHANGED <<client, open, left, finishing, writing, failed, crashed>>
      /\ \/ pc' = [pc EXCEPT !["handler"] = "check"] /\ UNCHANGED closed
         \/ HandlerEnds
  BY DEF Enter, conn
<1>2. /\ pc' \in [Go -> Labels] /\ pc'["handler"] \in {"check", "ended"} /\ pc'["ping"] = pc["ping"]
      /\ closed' \in BOOLEAN /\ ClosedByHandler'
  <2>1. CASE HandlerEnds  BY <1>0, <2>1, Ends
  <2>2. CASE pc' = [pc EXCEPT !["handler"] = "check"] /\ UNCHANGED closed
    <3>1. "check" \in Labels \ {"ended"}  BY DEF Labels
    <3>. QED  BY <1>0, <1>1, <2>2, <3>1, GoesOn
  <2>. QED  BY <1>1, <2>1, <2>2
<1>3. Typed'  BY <1>0, <1>1, <1>2 DEF Typed
<1>4. FrameLeft'  BY <1>1, <1>2 DEF SocketIInv, FrameLeft
<1>5. WritingHasWriter'  BY <1>1, <1>2 DEF WritingHasWriter, SocketIInv, SocketInv, Go
<1>. QED  BY <1>2, <1>3, <1>4, <1>5, TypedIs DEF SocketIInv, SocketInv, SocketTypeOK, Typed, Labels

LEMMA PingTickKeeps == SocketIInv /\ PingTick => SocketIInv'
<1> SUFFICES ASSUME SocketIInv, PingTick PROVE SocketIInv'  OBVIOUS
<1>0. Typed  BY TypedIs DEF SocketIInv, SocketInv
<1>1. /\ pc["ping"] = "tick" /\ finishing' = open
      /\ UNCHANGED <<client, open, left, writing, failed, closed, crashed>>
      /\ pc' \in [Go -> Labels] /\ pc'["handler"] = pc["handler"]
  BY <1>0 DEF PingTick, Typed, Labels, Go
<1>2. Typed'  BY <1>0, <1>1 DEF Typed
<1>3. FrameLeft'  BY <1>1 DEF SocketIInv, FrameLeft
<1>4. WritingHasWriter'  BY <1>1 DEF WritingHasWriter, SocketIInv, SocketInv, Go
<1>5. ClosedByHandler'  BY <1>1 DEF ClosedByHandler, SocketIInv, SocketInv
<1>. QED  BY <1>2, <1>3, <1>4, <1>5, TypedIs DEF SocketIInv, SocketInv, SocketTypeOK, Typed, Labels

\* A panic where isWriting is not kept by the goroutine that panics.
LEMMA PanicKeeps ==
  ASSUME SocketIInv, NEW g \in Go, Panics(g), writing => pc[g] # "write", UNCHANGED <<client, conn>>
  PROVE  SocketIInv'
<1>0. Typed  BY TypedIs DEF SocketIInv, SocketInv
<1>1. CASE g = "handler"
  <2>1. HandlerEnds /\ UNCHANGED <<client, open, left, finishing, writing, failed, crashed>>
    BY <1>1 DEF Panics, conn
  <2>2. Typed'  BY <1>0, <2>1, Ends DEF Typed
  <2>3. FrameLeft'  BY <1>0, <2>1, Ends DEF FrameLeft
  <2>4. WritingHasWriter'
    BY <1>0, <1>1, <2>1, Ends DEF WritingHasWriter, SocketIInv, SocketInv, Go
  <2>5. ClosedByHandler'  BY <1>0, <2>1, Ends DEF ClosedByHandler
  <2>. QED  BY <2>2, <2>3, <2>4, <2>5, TypedIs DEF SocketIInv, SocketInv, SocketTypeOK, Typed, Labels
<1>2. CASE g # "handler"
  <2>1. crashed' = TRUE /\ UNCHANGED <<client, pc, open, left, finishing, writing, failed, closed>>
    BY <1>2 DEF Panics, conn
  <2>. QED  BY <2>1 DEF SocketIInv, SocketInv, SocketTypeOK, FrameLeft, WritingHasWriter, ClosedByHandler
<1>. QED  BY <1>1, <1>2

LEMMA CheckKeeps == ASSUME NEW g \in Go PROVE SocketIInv /\ Check(g) => SocketIInv'
<1> SUFFICES ASSUME SocketIInv, Check(g) PROVE SocketIInv'  OBVIOUS
<1>0. Typed  BY TypedIs DEF SocketIInv, SocketInv
<1>1. CASE writing  BY <1>1, PanicKeeps DEF Check
<1>2. CASE ~writing
  <2>1. /\ pc[g] = "check" /\ pc' = [pc EXCEPT ![g] = "set"]
        /\ UNCHANGED <<client, open, left, finishing, writing, failed, closed, crashed>>
    BY <1>2 DEF Check, conn
  <2>2. Typed'  BY <1>0, <2>1 DEF Typed, Labels
  <2>3. FrameLeft'  BY <1>0, <2>1 DEF SocketIInv, FrameLeft, Typed, Go
  <2>4. WritingHasWriter'  BY <1>2, <2>1 DEF WritingHasWriter
  <2>5. ClosedByHandler'  BY <1>0, <2>1 DEF ClosedByHandler, SocketIInv, SocketInv, Typed, Go
  <2>. QED  BY <2>2, <2>3, <2>4, <2>5, TypedIs DEF SocketIInv, SocketInv, SocketTypeOK, Typed, Labels
<1>. QED  BY <1>1, <1>2

LEMMA SetKeeps == ASSUME NEW g \in Go PROVE SocketIInv /\ Set(g) => SocketIInv'
<1> SUFFICES ASSUME SocketIInv, Set(g) PROVE SocketIInv'  OBVIOUS
<1>0. Typed  BY TypedIs DEF SocketIInv, SocketInv
<1>1. /\ pc[g] = "set" /\ pc' = [pc EXCEPT ![g] = "write"] /\ writing' = TRUE
      /\ UNCHANGED <<client, open, left, finishing, failed, closed, crashed>>
  BY DEF Set
<1>2. Typed'  BY <1>0, <1>1 DEF Typed, Labels
<1>3. FrameLeft'  BY <1>0, <1>1 DEF SocketIInv, FrameLeft, Typed, Go
<1>4. WritingHasWriter'  BY <1>0, <1>1 DEF WritingHasWriter, Typed
<1>5. ClosedByHandler'  BY <1>0, <1>1 DEF ClosedByHandler, SocketIInv, SocketInv, Typed, Go
<1>. QED  BY <1>2, <1>3, <1>4, <1>5, TypedIs DEF SocketIInv, SocketInv, SocketTypeOK, Typed, Labels

\* Whoever ends a frame leaves isWriting clear.
LEMMA WrittenKeeps == ASSUME NEW g \in Go PROVE SocketIInv /\ Written(g) => SocketIInv'
<1> SUFFICES ASSUME SocketIInv, Written(g) PROVE SocketIInv'  OBVIOUS
<1>0. Typed  BY TypedIs DEF SocketIInv, SocketInv
<1>1. CASE ~writing  BY <1>1, PanicKeeps DEF Written
<1>2. CASE writing
  <2>0. /\ pc[g] = "write" /\ writing' = FALSE /\ failed' = (failed \/ ~WrittenOK)
        /\ UNCHANGED <<client, crashed>>
    BY <1>2 DEF Written
  <2>1. WritingHasWriter'  BY <2>0 DEF WritingHasWriter
  <2>2. CASE g = "handler"
    <3>1. /\ open' = (open /\ WrittenOK /\ left > 1) /\ left' = left - 1 /\ UNCHANGED finishing
          /\ \/ HandlerEnds
             \/ left > 1 /\ pc' = [pc EXCEPT !["handler"] = "enter"] /\ UNCHANGED closed
             \/ pc' = [pc EXCEPT !["handler"] = "status"] /\ UNCHANGED closed
      BY <1>2, <2>2 DEF Written, AfterStatus
    <3>2. left > 0  BY <2>0, <2>2 DEF SocketIInv, FrameLeft
    <3>3. left' \in 0 .. MaxFrames  BY <1>0, <3>1, <3>2, FrameAssumption DEF Typed
    <3>4. pc' \in [Go -> Labels] /\ closed' \in BOOLEAN /\ ClosedByHandler'
      <4>1. CASE HandlerEnds  BY <1>0, <4>1, Ends
      <4>2. ASSUME NEW l \in {"enter", "status"}, pc' = [pc EXCEPT !["handler"] = l], UNCHANGED closed
            PROVE  pc' \in [Go -> Labels] /\ closed' \in BOOLEAN /\ ClosedByHandler'
        <5>1. l \in Labels \ {"ended"}  BY DEF Labels
        <5>. QED  BY <1>0, <2>0, <2>2, <4>2, <5>1, GoesOn
      <4>. QED  BY <3>1, <4>1, <4>2
    <3>5. Typed'
      BY <1>0, <2>0, <3>1, <3>3, <3>4 DEF Typed
    <3>6. FrameLeft'
      <4>1. left' > 0 \/ pc'["handler"] \in {"status", "ended"}
        <5>1. CASE HandlerEnds  BY <1>0, <5>1, Ends
        <5>2. CASE left > 1  BY <1>0, <3>1, <5>2 DEF Typed
        <5>3. CASE pc' = [pc EXCEPT !["handler"] = "status"]  BY <1>0, <5>3 DEF Typed, Go
        <5>. QED  BY <3>1, <5>1, <5>2, <5>3
      <4>. QED  BY <4>1 DEF FrameLeft
    <3>7. SocketTypeOK'  BY <3>5 DEF SocketTypeOK, Typed, Labels
    <3>. QED  BY <2>1, <3>4, <3>6, <3>7 DEF SocketIInv, SocketInv
  <2>3. CASE g # "handler"
    <3>1. AfterPing(WrittenOK)  BY <1>2, <2>3 DEF Written
    <3>2. /\ open' = (open /\ ~finishing) /\ finishing' = FALSE /\ UNCHANGED <<left, closed>>
          /\ pc' \in [Go -> Labels] /\ pc'["handler"] = pc["handler"]
      BY <1>0, <3>1 DEF AfterPing, Typed, Labels, Go
    <3>3. Typed'  BY <1>0, <2>0, <3>2 DEF Typed
    <3>4. FrameLeft'  BY <3>2 DEF SocketIInv, FrameLeft
    <3>5. ClosedByHandler'  BY <3>2 DEF ClosedByHandler, SocketIInv, SocketInv
    <3>. QED  BY <2>1, <3>3, <3>4, <3>5, TypedIs DEF SocketIInv, SocketInv, SocketTypeOK, Typed, Labels
  <2>. QED  BY <2>2, <2>3
<1>. QED  BY <1>1, <1>2

LEMMA SocketStep == SocketIInv /\ [SocketNext]_socketVars => SocketIInv'
<1> SUFFICES ASSUME SocketIInv, [SocketNext]_socketVars PROVE SocketIInv'  OBVIOUS
<1>1. CASE ClientTurns
  BY <1>1 DEF ClientTurns, conn, SocketIInv, SocketInv, SocketTypeOK, FrameLeft, WritingHasWriter,
    ClosedByHandler
<1>2. CASE Handler
  BY <1>2, BeginKeeps, EnterKeeps, CheckKeeps, SetKeeps, WrittenKeeps DEF Handler, Go
<1>3. CASE Ping
  BY <1>3, PingTickKeeps, CheckKeeps, SetKeeps, WrittenKeeps DEF Ping, Go
<1>4. CASE UNCHANGED socketVars
  BY <1>4 DEF socketVars, conn, SocketIInv, SocketInv, SocketTypeOK, FrameLeft, WritingHasWriter,
    ClosedByHandler
<1>. QED  BY <1>1, <1>2, <1>3, <1>4 DEF SocketNext

\* SocketInv, however many frames a status takes: whatever the two writers do to each
\* other, isWriting is set only while one of them is writing, and the connection is closed
\* exactly when the handler has ended.
THEOREM SocketCorrect == SocketSpec => []SocketInv
<1>1. SocketIInv => SocketInv  BY DEF SocketIInv
<1>. QED  BY SocketInitInv, SocketStep, <1>1, PTL DEF SocketSpec

-----------------------------------------------------------------------------
(* Download requests.  The strengthening says what a job that is under way  *)
(* has behind it: its request was granted, it holds an object, and it has   *)
(* announced nothing before it posts.                                       *)

Objects == 1 .. MaxObjects
Progress(r) ==
  /\ job[r] # "none" => reply[r] = "started"
  /\ job[r] \in {"adding", "store", "info", "poll", "posting"} => holds[r] \in Objects
  /\ job[r] \in {"info", "poll", "posting"} => req[r].callback
  /\ job[r] \notin {"posting", "ended"} => posted[r] = 0
  /\ posted[r] # 0 => holds[r] \in Objects

\* What is known of one request; the types of the others stay.
OfRequest(r) == Progress(r) /\ (posted[r] > 0 =>
  posted[r] = 1 /\ req[r].callback /\ reply[r] = "started" /\ objects[holds[r]] = "complete")
DownloadIInv == TypeOK /\ \A r \in Requests : OfRequest(r)

LEMMA Implied == DownloadIInv => DownloadInv
BY DEF DownloadIInv, DownloadInv, OfRequest, AnnouncedTruly

LEMMA DownloadInit == Init => DownloadIInv
<1> SUFFICES ASSUME Init PROVE DownloadIInv  OBVIOUS
<1>. USE DEF Init
<1>0. NoAsk \in Ask  BY DEF NoAsk, Ask
<1>1. TypeOK
  <2>1. current \in 0 .. MaxObjects /\ 0 \in 0 .. MaxObjects  BY BoundAssumption
  <2>2. req \in [Requests -> Ask]  BY <1>0
  <2>3. holds \in [Requests -> 0 .. MaxObjects]  BY <2>1
  <2>. QED  BY <2>1, <2>2, <2>3 DEF TypeOK
<1>2. ASSUME NEW r \in Requests PROVE OfRequest(r)
  <2>1. job[r] = "none" /\ posted[r] = 0  OBVIOUS
  <2>. QED  BY <2>1 DEF OfRequest, Progress
<1>. QED  BY <1>1, <1>2 DEF DownloadIInv

\* A step of one request's that leaves the torrent objects alone keeps what is known of the
\* other requests, whatever it does to its own.
LEMMA OthersKept ==
  ASSUME DownloadIInv, NEW r \in Requests, TypeOK', OfRequest(r)',
         \A q \in Requests \ {r} :
           /\ job'[q] = job[q] /\ reply'[q] = reply[q] /\ holds'[q] = holds[q]
           /\ req'[q] = req[q] /\ posted'[q] = posted[q],
         \A o \in Objects : objects[o] = "complete" => objects'[o] = "complete"
  PROVE  DownloadIInv'
<1>1. ASSUME NEW q \in Requests, q # r PROVE OfRequest(q)'
  <2>1. OfRequest(q)  BY DEF DownloadIInv
  <2>2. posted[q] \in Nat  BY DEF DownloadIInv, TypeOK
  <2>. QED  BY <1>1, <2>1, <2>2 DEF OfRequest, Progress
<1>. QED  BY <1>1 DEF DownloadIInv

LEMMA RequestKeeps ==
  ASSUME DownloadIInv, NEW r \in Requests, Receive(r) \/ SearchAnswers(r)
  PROVE  DownloadIInv'
<1>0. OfRequest(r) /\ TypeOK  BY DEF DownloadIInv
<1>1. PICK a \in Ask :
        /\ req' = [req EXCEPT ![r] = a]
        /\ UNCHANGED <<holds, expired, posted, objects, current>>
  <2>1. CASE Receive(r)  BY <2>1 DEF Receive, torrentObjects
  <2>2. CASE SearchAnswers(r)
    <3>1. req[r] \in Ask /\ req' = [req EXCEPT ![r] = req[r]]  BY <1>0, <2>2 DEF TypeOK, SearchAnswers
    <3>. QED  BY <2>2, <3>1 DEF SearchAnswers, torrentObjects
  <2>. QED  BY <2>1, <2>2
<1>2. /\ reply[r] \in {"none", "searching"}
      /\ \/ reply' = [reply EXCEPT ![r] = "started"] /\ job' = [job EXCEPT ![r] = "add"]
         \/ \E w \in {"bad request", "searching", "not found"} :
              reply' = [reply EXCEPT ![r] = w] /\ UNCHANGED job
  BY DEF Receive, SearchAnswers, Start, Refuse, Reply
<1>3. job[r] = "none" /\ posted[r] = 0
  BY <1>0, <1>2 DEF OfRequest, Progress, TypeOK
<1>4. TypeOK'  BY <1>0, <1>1, <1>2 DEF TypeOK
<1>5. OfRequest(r)'  BY <1>0, <1>1, <1>2, <1>3 DEF OfRequest, Progress, TypeOK
<1>6. \A q \in Requests \ {r} :
        /\ job'[q] = job[q] /\ reply'[q] = reply[q] /\ holds'[q] = holds[q]
        /\ req'[q] = req[q] /\ posted'[q] = posted[q]
  BY <1>0, <1>1, <1>2 DEF TypeOK
<1>. QED  BY <1>1, <1>4, <1>5, <1>6, OthersKept

LEMMA AddKeeps == ASSUME DownloadIInv, NEW r \in Requests, Add(r) PROVE DownloadIInv'
<1>0. OfRequest(r) /\ TypeOK  BY DEF DownloadIInv
<1>1. job[r] = "add" /\ UNCHANGED <<req, reply, expired, posted>>  BY DEF Add, request
<1>2. posted[r] = 0  BY <1>0, <1>1 DEF OfRequest, Progress
<1>3. CASE job' = [job EXCEPT ![r] = "ended"] /\ UNCHANGED <<holds, torrentObjects>>
  <2>1. TypeOK'  BY <1>0, <1>1, <1>3 DEF TypeOK, torrentObjects
  <2>2. OfRequest(r)'
    <3>1. job'[r] = "ended" /\ posted'[r] = 0 /\ reply'[r] = "started"
      BY <1>0, <1>1, <1>2, <1>3 DEF OfRequest, Progress, TypeOK
    <3>. QED  BY <3>1 DEF OfRequest, Progress
  <2>3. \A q \in Requests \ {r} : job'[q] = job[q]  BY <1>0, <1>3 DEF TypeOK
  <2>. QED  BY <1>1, <1>3, <2>1, <2>2, <2>3, OthersKept DEF torrentObjects
<1>4. CASE /\ CanAdd /\ current' = NewObject
           /\ objects' = [objects EXCEPT ![NewObject] = IF @ = "unused" THEN "magnet" ELSE @]
           /\ holds' = [holds EXCEPT ![r] = NewObject]
           /\ job' = [job EXCEPT ![r] = "adding"]
  <2>1. NewObject \in Objects
    <3>1. CASE current # 0
      <4>1. current \in 0 .. MaxObjects  BY <1>0 DEF TypeOK
      <4>2. current \in Objects  BY <3>1, <4>1, BoundAssumption DEF Objects
      <4>. QED  BY <3>1, <4>2 DEF NewObject
    <3>2. CASE current = 0
      <4>1. \E o \in 1 .. MaxObjects : objects[o] = "unused"  BY <1>4, <3>2 DEF CanAdd
      <4>. QED  BY <3>2, <4>1 DEF NewObject, Objects
    <3>. QED  BY <3>1, <3>2
  <2>2. /\ holds' \in [Requests -> 0 .. MaxObjects] /\ current' \in 0 .. MaxObjects
    <3>1. NewObject \in 0 .. MaxObjects  BY <2>1, BoundAssumption DEF Objects
    <3>. QED  BY <1>0, <1>4, <3>1 DEF TypeOK
  <2>3. /\ objects' \in [Objects -> {"unused", "magnet", "info", "complete"}]
        /\ \A o \in Objects : objects[o] = "complete" => objects'[o] = "complete"
    BY <1>0, <1>4, <2>1 DEF TypeOK, Objects
  <2>4. TypeOK'  BY <1>0, <1>1, <1>4, <2>2, <2>3 DEF TypeOK, Objects
  <2>5. job'[r] = "adding" /\ holds'[r] \in Objects /\ posted'[r] = 0 /\ reply'[r] = "started"
    BY <1>0, <1>1, <1>2, <1>4, <2>1 DEF OfRequest, Progress, TypeOK
  <2>6. OfRequest(r)'  BY <2>5 DEF OfRequest, Progress
  <2>7. \A q \in Requests \ {r} : job'[q] = job[q] /\ holds'[q] = holds[q]
    BY <1>0, <1>4 DEF TypeOK
  <2>. QED  BY <1>1, <2>3, <2>4, <2>6, <2>7, OthersKept
<1>. QED  BY <1>3, <1>4 DEF Add

\* The later steps of a job, which leave the objects alone.
LEMMA JobKeeps ==
  ASSUME DownloadIInv, NEW r \in Requests,
         Added(r) \/ Stored(r) \/ MetadataTimeout(r) \/ AwaitInfo(r) \/ Poll(r) \/ PostEnds(r) \/ Expire(r)
  PROVE  DownloadIInv'
<1>0. OfRequest(r) /\ TypeOK  BY DEF DownloadIInv
<1>1. /\ UNCHANGED <<req, reply, objects>>
      /\ current' \in {0, current}
      /\ expired' = expired \/ expired' = [expired EXCEPT ![r] = TRUE]
      /\ holds' = holds \/ MetadataTimeout(r)
  BY DEF Added, Stored, MetadataTimeout, AwaitInfo, Poll, PostEnds, Expire, request, torrentObjects
<1>2. \/ job[r] = "adding" /\ job' = [job EXCEPT ![r] = "store"] /\ UNCHANGED posted
      \/ /\ job[r] = "store" /\ req[r].callback /\ job' = [job EXCEPT ![r] = "info"]
         /\ UNCHANGED posted
      \/ job[r] # "none" /\ job' = [job EXCEPT ![r] = "ended"] /\ UNCHANGED posted
      \/ job[r] = "info" /\ job' = [job EXCEPT ![r] = "poll"] /\ UNCHANGED posted
      \/ /\ job[r] = "poll" /\ objects[holds[r]] = "complete"
         /\ job' = [job EXCEPT ![r] = "posting"] /\ posted' = [posted EXCEPT ![r] = @ + 1]
      \/ job' = job /\ posted' = posted
  <2>1. CASE Added(r)  BY <2>1 DEF Added
  <2>2. CASE MetadataTimeout(r)  BY <2>2 DEF MetadataTimeout
  <2>3. CASE AwaitInfo(r)  BY <2>3 DEF AwaitInfo
  <2>4. CASE Poll(r)  BY <2>4 DEF Poll
  <2>5. CASE PostEnds(r)  BY <2>5 DEF PostEnds
  <2>6. CASE Expire(r)  BY <2>6 DEF Expire
  <2>7. CASE Stored(r)  BY <2>7 DEF Stored
  <2>. QED  BY <2>1, <2>2, <2>3, <2>4, <2>5, <2>6, <2>7
<1>3. /\ 0 \in 0 .. MaxObjects /\ current \in 0 .. MaxObjects
      /\ posted[r] \in Nat /\ posted[r] + 1 \in Nat
  <2>1. posted \in [Requests -> Nat] /\ current \in 0 .. MaxObjects  BY <1>0 DEF TypeOK
  <2>. QED  BY <2>1, BoundAssumption
<1>4. holds' \in [Requests -> 0 .. MaxObjects]
  <2>1. holds' = holds \/ holds' = [holds EXCEPT ![r] = 0]  BY <1>1 DEF MetadataTimeout
  <2>. QED  BY <1>0, <1>3, <2>1 DEF TypeOK
<1>5. TypeOK'
  <2>1. job' \in [Requests -> {"none", "add", "adding", "store", "info", "poll", "posting", "ended"}]
    BY <1>0, <1>2 DEF TypeOK
  <2>2. posted' \in [Requests -> Nat]  BY <1>0, <1>2, <1>3 DEF TypeOK
  <2>3. expired' \in [Requests -> BOOLEAN]  BY <1>0, <1>1 DEF TypeOK
  <2>. QED  BY <1>0, <1>1, <1>3, <1>4, <2>1, <2>2, <2>3 DEF TypeOK
<1>6. OfRequest(r)'
  <2>1. CASE MetadataTimeout(r)
    <3>1. /\ req'[r] = req[r] /\ reply'[r] = reply[r] /\ posted'[r] = posted[r]
          /\ job[r] = "adding" /\ job'[r] = "ended"
      BY <1>0, <1>1, <2>1 DEF MetadataTimeout, TypeOK
    <3>2. posted[r] = 0 /\ reply[r] = "started"  BY <1>0, <3>1 DEF OfRequest, Progress
    <3>. QED  BY <3>1, <3>2 DEF OfRequest, Progress
  <2>2. CASE holds' = holds
    <3>0. /\ req'[r] = req[r] /\ reply'[r] = reply[r] /\ holds'[r] = holds[r] /\ objects' = objects
      BY <1>1, <2>2
    <3>1. /\ job \in [Requests -> {"none", "add", "adding", "store", "info", "poll", "posting", "ended"}]
          /\ posted \in [Requests -> Nat]
      BY <1>0 DEF TypeOK
    <3>2. CASE job[r] = "adding" /\ job'[r] = "store" /\ posted'[r] = posted[r]
      BY <1>0, <3>0, <3>2 DEF OfRequest, Progress
    <3>3. CASE job[r] = "store" /\ req[r].callback /\ job'[r] = "info" /\ posted'[r] = posted[r]
      BY <1>0, <3>0, <3>3 DEF OfRequest, Progress
    <3>4. CASE job[r] # "none" /\ job'[r] = "ended" /\ posted'[r] = posted[r]
      BY <1>0, <3>0, <3>4 DEF OfRequest, Progress
    <3>5. CASE job[r] = "info" /\ job'[r] = "poll" /\ posted'[r] = posted[r]
      BY <1>0, <3>0, <3>5 DEF OfRequest, Progress
    <3>6. CASE /\ job[r] = "poll" /\ objects[holds[r]] = "complete"
               /\ job'[r] = "posting" /\ posted'[r] = posted[r] + 1
      <4>1. posted'[r] = 1  BY <1>0, <3>6 DEF OfRequest, Progress
      <4>. QED  BY <1>0, <3>0, <3>6, <4>1 DEF OfRequest, Progress
    <3>7. CASE job'[r] = job[r] /\ posted'[r] = posted[r]
      BY <1>0, <3>0, <3>7 DEF OfRequest, Progress
    <3>. QED  BY <1>2, <3>1, <3>2, <3>3, <3>4, <3>5, <3>6, <3>7
  <2>. QED  BY <1>1, <2>1, <2>2
<1>7. \A q \in Requests \ {r} : job'[q] = job[q] /\ posted'[q] = posted[q] /\ holds'[q] = holds[q]
  <2>1. holds' = holds \/ holds' = [holds EXCEPT ![r] = 0]  BY <1>1 DEF MetadataTimeout
  <2>. QED  BY <1>0, <1>2, <2>1 DEF TypeOK
<1>. QED  BY <1>1, <1>5, <1>6, <1>7, OthersKept

\* Progress of the torrent, and its removal: what is complete stays so, for who holds it.
LEMMA TorrentKeeps == ASSUME DownloadIInv, Download \/ Drop PROVE DownloadIInv'
<1>0. TypeOK /\ \A r \in Requests : OfRequest(r)  BY DEF DownloadIInv
<1>1. /\ UNCHANGED <<req, reply, job, holds, expired, posted>>
      /\ current' \in {0, current}
      /\ objects' \in [Objects -> {"unused", "magnet", "info", "complete"}]
      /\ \A o \in Objects : objects[o] = "complete" => objects'[o] = "complete"
  BY <1>0 DEF Download, Drop, request, jobs, TypeOK, Objects
<1>2. 0 \in 0 .. MaxObjects  BY BoundAssumption
<1>3. TypeOK'  BY <1>0, <1>1, <1>2 DEF TypeOK, Objects
<1>4. ASSUME NEW r \in Requests PROVE OfRequest(r)'
  <2>1. OfRequest(r) /\ posted[r] \in Nat  BY <1>0 DEF TypeOK
  <2>. QED  BY <1>1, <2>1 DEF OfRequest, Progress
<1>. QED  BY <1>3, <1>4 DEF DownloadIInv

LEMMA DownloadStep == DownloadIInv /\ [Next]_vars => DownloadIInv'
<1> SUFFICES ASSUME DownloadIInv, [Next]_vars PROVE DownloadIInv'  OBVIOUS
<1>1. CASE \E r \in Requests : Receive(r) \/ SearchAnswers(r)  BY <1>1, RequestKeeps
<1>2. CASE \E r \in Requests : Add(r)  BY <1>2, AddKeeps
<1>3. CASE \E r \in Requests : Added(r) \/ Stored(r) \/ MetadataTimeout(r) \/ AwaitInfo(r)
                               \/ Poll(r) \/ PostEnds(r) \/ Expire(r)
  BY <1>3, JobKeeps
<1>4. CASE Download \/ Drop  BY <1>4, TorrentKeeps
<1>5. CASE UNCHANGED vars
  BY <1>5 DEF vars, request, jobs, torrentObjects, DownloadIInv, TypeOK, OfRequest, Progress
<1>. QED  BY <1>1, <1>2, <1>3, <1>4, <1>5 DEF Next, Job

\* DownloadInv, for any number of requests and objects: a completion is announced at most
\* once, only to a request that was granted and asked for it, and only when its own object
\* has completed.
THEOREM DownloadCorrect == Spec => []DownloadInv
<1>1. Spec => []DownloadIInv  BY DownloadInit, DownloadStep, PTL DEF Spec
<1>. QED  BY <1>1, Implied, PTL

-----------------------------------------------------------------------------
(* The seed time of a torrent.                                              *)

LEMMA AgeType == ASSUME NEW a \in Ages \cup {Never}
                 PROVE  Older(a) \in Ages \cup {Never} /\ (Older(a) = Never <=> a = Never)
BY SeedAssumption DEF Older, Ages

\* Two ages that advance together stay in order.
LEMMA OlderMonotone == ASSUME NEW a \in Ages, NEW b \in Ages, a <= b
                       PROVE  Older(a) <= Older(b)
BY SeedAssumption DEF Older, Ages

\* Products of natural numbers: what is asked for is a number of nanoseconds, and more
\* seconds are more nanoseconds.
LEMMA AskedType == ASSUME NEW s \in Setting PROVE Asked(s) \in Nat
<1>1. s.n \in Nat  BY DEF Setting
<1>2. s.n * Day \in Nat  BY <1>1, SeedAssumption
<1>3. s.n * Day * Second \in Nat /\ s.n * Second \in Nat  BY <1>1, <1>2, SeedAssumption
<1>. QED  BY <1>1, <1>3 DEF Asked

LEMMA SecondsMonotone == ASSUME NEW a \in Nat, NEW b \in Nat, a <= b
                         PROVE  a * Second <= b * Second /\ a * Second \in Nat /\ b * Second \in Nat
<1>1. PICK c \in Nat : b = a + c
  <2>1. b - a \in Nat /\ b = a + (b - a)  OBVIOUS
  <2>. QED  BY <2>1
<1>2. Second \in Nat  BY SeedAssumption
<1>3. a * Second \in Nat /\ c * Second \in Nat  BY <1>2
<1>4. b * Second = a * Second + c * Second  BY <1>1, <1>2
<1>. QED  BY <1>3, <1>4

-----------------------------------------------------------------------------
SeedTyped == SeedTypeOK /\ StampInv

LEMMA SeedInitTyped == SeedInit => SeedTyped
BY SeedAssumption DEF SeedInit, SeedTyped, SeedTypeOK, StampInv, Registered

\* Every step keeps the types, and the stamp no older than the completion.
LEMMA SeedNextTyped == SeedTyped /\ [SeedNext]_seedVars => SeedTyped'
<1>. SUFFICES ASSUME SeedTyped, [SeedNext]_seedVars PROVE SeedTyped'  OBVIOUS
<1>. USE SeedAssumption DEF SeedTyped, SeedTypeOK, StampInv, Registered, Ages, Entry
<1>0. ASSUME NEW s \in Settings, NEW a \in Ages \cup {Never}, entry' = [seed |-> s, stamp |-> a]
      PROVE  entry' \in Entry /\ Registered' /\ entry'.stamp = a
  BY <1>0
<1>1. ASSUME NEW s \in Settings, AddTorrent(s) PROVE SeedTyped'
  <2>1. CASE Registered  BY <1>0, <1>1, <2>1 DEF AddTorrent
  <2>2. CASE ~Registered  BY <1>0, <1>1, <2>2 DEF AddTorrent
  <2>. QED  BY <2>1, <2>2
<1>2. ASSUME NEW s \in Settings, Retune(s) PROVE SeedTyped'
  <2>1. entry' = [seed |-> s, stamp |-> entry.stamp]  BY <1>2 DEF Retune
  <2>. QED  BY <1>0, <1>2, <2>1 DEF Retune
<1>3. ASSUME NEW s \in Settings, SeedLocal(s) PROVE SeedTyped'
  <2>1. finished' \in Ages  BY <1>3 DEF SeedLocal
  <2>. QED  BY <1>0, <1>3, <2>1 DEF SeedLocal
<1>4. CASE Stop  BY <1>4 DEF Stop
<1>5. CASE FirstData \/ LastData  BY <1>5 DEF FirstData, LastData
<1>6. CASE PostProcess
  <2>. DEFINE a == IF entry.stamp = Never THEN 0 ELSE entry.stamp
  <2>1. entry' = [seed |-> entry.seed, stamp |-> a] /\ a \in Ages /\ entry.seed \in Settings
    BY <1>6 DEF PostProcess, Completed
  <2>2. /\ Registered /\ finished \in Ages /\ a <= finished
        /\ finished' = finished /\ fileAge' = fileAge /\ processed' \in BOOLEAN
    BY <1>6 DEF PostProcess, Completed
  <2>3. entry' \in Entry /\ Registered' /\ entry'.stamp = a
    BY <1>0, <2>1
  <2>4. SeedTypeOK'  BY <2>2, <2>3
  <2>5. StampInv'  BY <2>1, <2>2, <2>3
  <2>. QED  BY <2>4, <2>5
<1>7. CASE Collect  BY <1>7 DEF Collect
<1>8. CASE Ageing
  <2>1. finished' \in Ages \cup {Never} /\ fileAge' \in Ages \cup {Never}
    BY <1>8, AgeType DEF Ageing
  <2>2. CASE ~Registered  BY <1>8, <2>1, <2>2 DEF Ageing, Older
  <2>3. CASE Registered
    <3>1. entry' = [seed |-> entry.seed, stamp |-> Older(entry.stamp)]
      BY <1>8, <2>3 DEF Ageing
    <3>2. Older(entry.stamp) \in Ages \cup {Never} /\ (Older(entry.stamp) = Never <=> entry.stamp = Never)
      BY <2>3, AgeType
    <3>3. finished' = Older(finished) /\ (Older(finished) = Never <=> finished = Never)
      BY <1>8, AgeType DEF Ageing
    <3>4. entry'.stamp = Older(entry.stamp) /\ entry' \in Entry /\ Registered'
      BY <1>0, <2>3, <3>1, <3>2
    <3>5. entry.stamp # Never => Older(entry.stamp) <= Older(finished)
      BY <2>3, OlderMonotone
    <3>. QED  BY <1>8, <2>1, <2>3, <3>2, <3>3, <3>4, <3>5 DEF Ageing
  <2>. QED  BY <2>2, <2>3
<1>9. CASE UNCHANGED seedVars  BY <1>9 DEF seedVars
<1>. QED  BY <1>1, <1>2, <1>3, <1>4, <1>5, <1>6, <1>7, <1>8, <1>9 DEF SeedNext, Reseed

LEMMA SeedAlwaysTyped == SeedSpec => []SeedTyped
BY SeedInitTyped, SeedNextTyped, PTL DEF SeedSpec

\* Status and the collector agree in every well-typed state.
LEMMA SeedTypedAgrees == SeedTyped => StatusAgrees
<1>. SUFFICES ASSUME SeedTyped, Completed, entry.stamp # Never, entry.seed.form # "empty"
              PROVE  /\ Remaining # 0 => \A ratio \in BOOLEAN : ~ShouldDropTorrent(ratio)
                     /\ Remaining = 0 => (entry.stamp + 1) * Second >= Duration(entry.seed)
  BY DEF StatusAgrees
<1>0. entry.seed \in Setting /\ entry.stamp \in Nat /\ Second \in Nat \ {0}
  BY SeedAssumption DEF SeedTyped, SeedTypeOK, Completed, Registered, Ages, Entry
<1>1. CASE Infinite(entry.seed)
  BY <1>1 DEF Infinite, Finite, ShouldDropTorrent, Remaining
<1>2. CASE ~Infinite(entry.seed)
  <2>. DEFINE rest == Duration(entry.seed) - entry.stamp * Second
  <2>1. Asked(entry.seed) \in Nat  BY <1>0, AskedType
  <2>2. Duration(entry.seed) \in Int
    BY <2>1, SeedAssumption DEF Duration, Wrapped
  <2>3. entry.stamp * Second \in Int /\ rest \in Int  BY <1>0, <2>2
  <2>4. Remaining = IF rest <= 0 THEN 0 ELSE rest \div Second  BY <1>2 DEF Remaining
  <2>5. Remaining # 0 => ~(entry.stamp * Second >= Duration(entry.seed))
    BY <2>2, <2>3, <2>4
  <2>6. Remaining = 0 => rest < Second
    BY <1>0, <2>3, <2>4
  <2>7. (entry.stamp + 1) * Second = entry.stamp * Second + Second  BY <1>0
  <2>. QED
    BY <1>0, <1>2, <2>2, <2>3, <2>5, <2>6, <2>7 DEF ShouldDropTorrent, Age, Infinite, Finite
<1>. QED  BY <1>1, <1>2

\* Types, stamps that are not older than the completion, and agreement of Status with the
\* collector, for every width of a duration.
THEOREM SeedCorrect == SeedSpec => []SeedInv
<1>1. SeedTyped => SeedInv  BY SeedTypedAgrees DEF SeedTyped, SeedInv
<1>. QED  BY <1>1, SeedAlwaysTyped, PTL

\* A stamped torrent with a seed time that fits the width is dropped only when it has
\* been complete for that time.
THEOREM SeededAsAsked == SeedSpec => SeedsAsAsked
<1>. DEFINE FinishedDrop == Collect /\ entry.seed.form # "empty" =>
       /\ Finite(entry.seed)
       /\ Asked(entry.seed) < Half /\ entry.stamp # Never
            => finished * Second >= Asked(entry.seed)
<1>1. ASSUME SeedTyped PROVE FinishedDrop
  <2>. SUFFICES ASSUME Collect, entry.seed.form # "empty"
                PROVE  /\ Finite(entry.seed)
                       /\ Asked(entry.seed) < Half /\ entry.stamp # Never
                            => finished * Second >= Asked(entry.seed)
    OBVIOUS
  <2>1. /\ Completed /\ Finite(entry.seed) /\ Age # Never
        /\ Age * Second >= Duration(entry.seed)
    BY DEF Collect, ShouldDropTorrent
  <2>2. ASSUME Asked(entry.seed) < Half, entry.stamp # Never
        PROVE  finished * Second >= Asked(entry.seed)
    <3>1. entry.stamp \in Nat /\ finished \in Nat /\ entry.stamp <= finished
      BY <1>1, <2>1, <2>2, SeedAssumption DEF SeedTyped, SeedTypeOK, StampInv, Completed, Registered, Ages, Entry
    <3>2. Asked(entry.seed) \in Nat
      BY <1>1, <2>1, AskedType, SeedAssumption DEF SeedTyped, SeedTypeOK, Completed, Registered, Entry
    <3>3. entry.stamp * Second >= Asked(entry.seed)
      BY <2>1, <2>2 DEF Age, Duration, Wrapped
    <3>. QED  BY <3>1, <3>2, <3>3, SecondsMonotone
  <2>. QED  BY <2>1, <2>2
<1>2. SeedTyped /\ [SeedNext]_seedVars => [FinishedDrop]_seedVars  BY <1>1
<1>. QED  BY <1>2, SeedAlwaysTyped, PTL DEF SeedSpec, SeedsAsAsked

-----------------------------------------------------------------------------
(* The order of a playlist: NaturalLess is a strict order on names without  *)
(* oversized numbers.                                                       *)

Ordinary == {c \in Chunks : ~Oversized(c)}

LEMMA ChunkTypes == ASSUME NEW c \in Chunks
                    PROVE  c.text \in Nat /\ c.len \in Nat /\ (Parsed(c) => c.num \in Nat)
BY ChunkAssumption DEF Chunk, Parsed

\* Between ordinary chunks the order is strict, a chunk that ties can take the place of
\* another, and it is transitive also where numbers meet texts.
LEMMA ChunkStrict == ASSUME NEW c \in Ordinary, NEW d \in Ordinary
                     PROVE  ChunkLess(c, d) => ~Tie(c, d) /\ ~ChunkLess(d, c)
BY ChunkTypes, ChunkAssumption DEF Ordinary, ChunkLess, Tie

LEMMA ChunkTieLess == ASSUME NEW c \in Ordinary, NEW d \in Ordinary, NEW e \in Ordinary
                      PROVE  /\ Tie(c, d) /\ ChunkLess(d, e) => ChunkLess(c, e)
                             /\ ChunkLess(c, d) /\ Tie(d, e) => ChunkLess(c, e)
BY ChunkTypes, ChunkAssumption DEF Ordinary, Oversized, ChunkLess, Tie

LEMMA ChunkTransitive == ASSUME NEW c \in Ordinary, NEW d \in Ordinary, NEW e \in Ordinary,
                                ChunkLess(c, d), ChunkLess(d, e)
                         PROVE  ChunkLess(c, e)
<1>. USE ChunkTypes, ChunkAssumption DEF Ordinary, Oversized, ChunkLess
<1>1. CASE Parsed(c) /\ Parsed(d) /\ Parsed(e)  BY <1>1
<1>2. CASE (~Parsed(c) /\ ~Parsed(d)) \/ (~Parsed(d) /\ ~Parsed(e)) \/ (~Parsed(c) /\ ~Parsed(e))
  BY <1>2
<1>3. CASE Parsed(c) /\ Parsed(d) /\ ~Parsed(e)  BY <1>3
<1>4. CASE ~Parsed(c) /\ Parsed(d) /\ Parsed(e)  BY <1>4
<1>5. CASE Parsed(c) /\ ~Parsed(d) /\ Parsed(e)  BY <1>5
<1>. QED  BY <1>1, <1>2, <1>3, <1>4, <1>5

\* No name comes before itself.
THEOREM LessIrreflexive ==
  ASSUME NEW a \in Seq(Ordinary) PROVE ~NaturalLess(a, a)
<1>1. ASSUME NEW i \in 1..Len(a) PROVE a[i] \in Ordinary  BY <1>1
<1>2. ASSUME NEW i \in 1..Len(a) PROVE ~LessAt(a, a, i)
  BY <1>1, <1>2, ChunkStrict DEF LessAt
<1>. QED  BY <1>2 DEF NaturalLess, EndsFirst

\* The order has no cycles: sorting by it gives one result, up to the case of letters.
THEOREM LessTransitive ==
  ASSUME NEW a \in Seq(Ordinary), NEW b \in Seq(Ordinary), NEW c \in Seq(Ordinary),
         NaturalLess(a, b), NaturalLess(b, c)
  PROVE  NaturalLess(a, c)
<1>0. /\ \A i \in 1..Len(a) : a[i] \in Ordinary
      /\ \A i \in 1..Len(b) : b[i] \in Ordinary
      /\ \A i \in 1..Len(c) : c[i] \in Ordinary
      /\ Len(a) \in Nat /\ Len(b) \in Nat /\ Len(c) \in Nat
  OBVIOUS
<1>1. ASSUME NEW i \in 1..Len(a), LessAt(a, b, i), NEW k \in 1..Len(b), LessAt(b, c, k)
      PROVE  NaturalLess(a, c)
  <2>1. CASE i < k
    <3>1. LessAt(a, c, i)
      BY <1>0, <1>1, <2>1, ChunkTieLess DEF LessAt, Tie
    <3>. QED  BY <3>1 DEF NaturalLess
  <2>2. CASE i = k
    <3>1. LessAt(a, c, i)
      BY <1>0, <1>1, <2>2, ChunkTransitive DEF LessAt, Tie
    <3>. QED  BY <3>1 DEF NaturalLess
  <2>3. CASE k < i
    <3>1. LessAt(a, c, k)
      BY <1>0, <1>1, <2>3, ChunkTieLess DEF LessAt, Tie
    <3>2. k \in 1..Len(a)  BY <1>0, <2>3
    <3>. QED  BY <3>1, <3>2 DEF NaturalLess
  <2>. QED  BY <2>1, <2>2, <2>3, <1>0
<1>2. ASSUME NEW i \in 1..Len(a), LessAt(a, b, i), EndsFirst(b, c) PROVE NaturalLess(a, c)
  <2>1. LessAt(a, c, i)
    BY <1>0, <1>2, ChunkTieLess DEF LessAt, EndsFirst, Tie
  <2>. QED  BY <2>1 DEF NaturalLess
<1>3. ASSUME EndsFirst(a, b), NEW k \in 1..Len(b), LessAt(b, c, k) PROVE NaturalLess(a, c)
  <2>1. CASE k <= Len(a)
    <3>1. LessAt(a, c, k)
      BY <1>0, <1>3, <2>1, ChunkTieLess DEF LessAt, EndsFirst, Tie
    <3>2. k \in 1..Len(a)  BY <1>0, <2>1
    <3>. QED  BY <3>1, <3>2 DEF NaturalLess
  <2>2. CASE Len(a) < k
    <3>1. EndsFirst(a, c)
      BY <1>0, <1>3, <2>2 DEF LessAt, EndsFirst, Tie
    <3>. QED  BY <3>1 DEF NaturalLess
  <2>. QED  BY <2>1, <2>2, <1>0
<1>4. ASSUME EndsFirst(a, b), EndsFirst(b, c) PROVE NaturalLess(a, c)
  BY <1>0, <1>4 DEF EndsFirst, NaturalLess, Tie
<1>. QED  BY <1>1, <1>2, <1>3, <1>4 DEF NaturalLess

-----------------------------------------------------------------------------
\* Of two ordinary chunks that do not tie one comes before the other.
LEMMA ChunkTotal == ASSUME NEW c \in Ordinary, NEW d \in Ordinary
                    PROVE  ChunkLess(c, d) \/ ChunkLess(d, c) \/ Tie(c, d)
BY ChunkTypes, ChunkAssumption DEF Ordinary, ChunkLess, Tie

\* Names that differ in the case of letters at most.
Same(a, b) == Len(a) = Len(b) /\ \A i \in 1..Len(a) : Tie(a[i], b[i])

\* Of two names one comes before the other, unless they are the same to the order: the
\* first chunks that do not tie decide.
LEMMA LessTotal ==
  ASSUME NEW a \in Seq(Ordinary), NEW b \in Seq(Ordinary)
  PROVE  NaturalLess(a, b) \/ NaturalLess(b, a) \/ Same(a, b)
<1>0. /\ \A i \in 1..Len(a) : a[i] \in Ordinary
      /\ \A i \in 1..Len(b) : b[i] \in Ordinary
      /\ Len(a) \in Nat /\ Len(b) \in Nat
  OBVIOUS
<1>. DEFINE S == {i \in 1..Len(a) : i <= Len(b) /\ ~Tie(a[i], b[i])}
<1>1. CASE S = {}
  <2>1. \A i \in 1..Len(a) : i <= Len(b) => Tie(a[i], b[i]) /\ Tie(b[i], a[i])  BY <1>1 DEF Tie
  <2>2. CASE Len(a) = Len(b)  BY <1>0, <2>1, <2>2 DEF Same
  <2>3. CASE Len(a) < Len(b)  BY <1>0, <2>1, <2>3 DEF NaturalLess, EndsFirst
  <2>4. CASE Len(b) < Len(a)  BY <1>0, <2>1, <2>4 DEF NaturalLess, EndsFirst
  <2>. QED  BY <1>0, <2>2, <2>3, <2>4
<1>2. CASE S # {}
  <2>1. S \in SUBSET Nat  OBVIOUS
  <2>2. PICK i \in S : \A j \in S : i <= j
    <3>. HIDE DEF S
    <3>. QED  BY <1>2, <2>1, Least
  <2>3. /\ i \in 1..Len(a) /\ i \in 1..Len(b) /\ a[i] \in Ordinary /\ b[i] \in Ordinary
        /\ ~Tie(a[i], b[i])
    BY <1>0, <2>2
  <2>4. \A j \in 1..(i - 1) : Tie(a[j], b[j]) /\ Tie(b[j], a[j])
    <3>. SUFFICES ASSUME NEW j \in 1..(i - 1) PROVE Tie(a[j], b[j])
      BY DEF Tie
    <3>1. j \in 1..Len(a) /\ j <= Len(b) /\ ~(i <= j)  BY <1>0, <2>3
    <3>2. j \notin S  BY <2>2, <3>1
    <3>. QED  BY <3>1, <3>2
  <2>5. ChunkLess(a[i], b[i]) \/ ChunkLess(b[i], a[i])  BY <2>3, ChunkTotal
  <2>6. LessAt(a, b, i) \/ LessAt(b, a, i)  BY <2>3, <2>4, <2>5 DEF LessAt
  <2>. QED  BY <2>3, <2>6 DEF NaturalLess
<1>. QED  BY <1>1, <1>2

\* Names that are the same to the order take each other's place in it.
LEMMA SameLess ==
  ASSUME NEW a \in Seq(Ordinary), NEW b \in Seq(Ordinary), NEW c \in Seq(Ordinary), Same(a, b)
  PROVE  /\ NaturalLess(b, c) => NaturalLess(a, c)
         /\ NaturalLess(c, b) => NaturalLess(c, a)
         /\ Same(b, a)
<1>0. /\ \A i \in 1..Len(a) : a[i] \in Ordinary /\ b[i] \in Ordinary /\ Tie(a[i], b[i])
      /\ \A i \in 1..Len(c) : c[i] \in Ordinary
      /\ Len(a) \in Nat /\ Len(b) = Len(a) /\ Len(c) \in Nat
  BY DEF Same
<1>1. \A i \in 1..Len(a) : Tie(b[i], a[i])  BY <1>0 DEF Tie
<1>2. ASSUME NEW i \in 1..Len(b), LessAt(b, c, i) PROVE LessAt(a, c, i)
  <2>1. i \in 1..Len(a) /\ i \in 1..Len(c) /\ \A j \in 1..(i - 1) : j \in 1..Len(a) /\ Tie(b[j], c[j])
    BY <1>0, <1>2 DEF LessAt
  <2>2. ChunkLess(a[i], c[i])  BY <1>0, <1>2, <2>1, ChunkTieLess DEF LessAt
  <2>3. \A j \in 1..(i - 1) : Tie(a[j], c[j])  BY <1>0, <2>1 DEF Tie
  <2>. QED  BY <2>1, <2>2, <2>3 DEF LessAt
<1>3. ASSUME NEW i \in 1..Len(c), LessAt(c, b, i) PROVE LessAt(c, a, i)
  BY <1>0, <1>1, <1>3, ChunkTieLess DEF LessAt, Tie
<1>4. EndsFirst(b, c) => EndsFirst(a, c)  BY <1>0 DEF EndsFirst, Tie
<1>5. EndsFirst(c, b) => EndsFirst(c, a)  BY <1>0 DEF EndsFirst, Tie
<1>. QED  BY <1>0, <1>1, <1>2, <1>3, <1>4, <1>5 DEF NaturalLess, Same

\* What does not come before its neighbour does not come before the next one either.
LEMMA NotLessTransitive ==
  ASSUME NEW a \in Seq(Ordinary), NEW b \in Seq(Ordinary), NEW c \in Seq(Ordinary),
         ~NaturalLess(b, a), ~NaturalLess(c, b)
  PROVE  ~NaturalLess(c, a)
<1>. SUFFICES ASSUME NaturalLess(c, a) PROVE FALSE
  OBVIOUS
<1>1. CASE NaturalLess(a, b)
  <2>1. NaturalLess(c, b)  BY <1>1, LessTransitive
  <2>. QED  BY <2>1
<1>2. CASE Same(a, b)
  <2>1. Same(b, a)  BY <1>2, SameLess
  <2>2. NaturalLess(c, b)  BY <2>1, SameLess
  <2>. QED  BY <2>2
<1>. QED  BY <1>1, <1>2, LessTotal

\* So a list in which no name comes before its left neighbour is sorted throughout.
LEMMA NeighboursSort ==
  ASSUME NEW s \in Seq(Seq(Ordinary)), \A i \in 1..(Len(s) - 1) : ~NaturalLess(s[i + 1], s[i])
  PROVE  \A i, j \in 1..Len(s) : i < j => ~NaturalLess(s[j], s[i])
<1>0. Len(s) \in Nat /\ \A i \in 1..Len(s) : s[i] \in Seq(Ordinary)  OBVIOUS
<1>. SUFFICES ASSUME NEW i \in 1..Len(s) PROVE \A j \in 1..Len(s) : i < j => ~NaturalLess(s[j], s[i])
  OBVIOUS
<1>. DEFINE S == {n \in Nat : n = 0 \/ i + n > Len(s) \/ ~NaturalLess(s[i + n], s[i])}
<1>1. 0 \in S  OBVIOUS
<1>2. ASSUME NEW n \in 1..Len(s), n - 1 \in S PROVE n \in S
  <2>1. CASE i + n > Len(s)  BY <2>1
  <2>2. CASE n = 1 /\ i + n <= Len(s)
    <3>1. i \in 1..(Len(s) - 1) /\ i + n = i + 1  BY <1>0, <2>2
    <3>. QED  BY <3>1
  <2>3. CASE n > 1 /\ i + n <= Len(s)
    <3>1. /\ i + (n - 1) \in 1..(Len(s) - 1) /\ (i + (n - 1)) + 1 = i + n
          /\ i + n \in 1..Len(s) /\ n - 1 # 0 /\ ~(i + (n - 1) > Len(s))
      BY <1>0, <2>3
    <3>2. ~NaturalLess(s[i + n], s[i + (n - 1)]) /\ ~NaturalLess(s[i + (n - 1)], s[i])
      BY <1>2, <3>1
    <3>3. s[i] \in Seq(Ordinary) /\ s[i + (n - 1)] \in Seq(Ordinary) /\ s[i + n] \in Seq(Ordinary)
      BY <1>0, <3>1
    <3>4. ~NaturalLess(s[i + n], s[i])  BY <3>2, <3>3, NotLessTransitive
    <3>. QED  BY <3>4
  <2>. QED  BY <1>0, <2>1, <2>2, <2>3
<1>3. 0..Len(s) \subseteq S
  <2>1. \A n \in 1..Len(s) : n - 1 \in S => n \in S  BY <1>2
  <2>. HIDE DEF S
  <2>. QED  BY <1>0, <1>1, <2>1, Climb
<1>4. ASSUME NEW j \in 1..Len(s), i < j PROVE ~NaturalLess(s[j], s[i])
  <2>1. j - i \in 0..Len(s) /\ i + (j - i) = j /\ j - i # 0  BY <1>0, <1>4
  <2>2. j - i \in S  BY <1>3, <2>1
  <2>. QED  BY <1>0, <2>1, <2>2
<1>. QED  BY <1>4

-----------------------------------------------------------------------------
(* BuildPlaylists: what is in a list, and where lists belong.               *)

\* The media files below a directory.
Under(files, d) == {i \in 1..Len(files) :
  files[i].valid /\ files[i].media /\ IsStrictPrefix(d, files[i].path)}

\* The media files below a directory, in the order of the torrent: three filters are one.
LEMMA MembersAre ==
  ASSUME NEW files \in Seq(File), NEW d
  PROVE  /\ Members(files, d) \in Seq(File)
         /\ \E h : /\ h \in [1..Len(Members(files, d)) -> Under(files, d)]
                   /\ \A i, j \in 1..Len(Members(files, d)) : h[i] = h[j] => i = j
                   /\ \A j \in Under(files, d) : \E i \in 1..Len(Members(files, d)) : h[i] = j
                   /\ \A i \in 1..Len(Members(files, d)) : Members(files, d)[i] = files[h[i]]
<1>. DEFINE V == {f \in ToSet(files) : f.valid}
            M == {f \in ToSet(files) : f.media}
            B == {f \in ToSet(files) : IsStrictPrefix(d, f.path)}
            m == Members(files, d)
<1>1. m = Selected(files, (V \cap M) \cap B)
  <2>1. Media(files) = Selected(files, V \cap M)
    BY SelectedTwice DEF Media, Accepted
  <2>2. m = Selected(Selected(files, V \cap M), B)  BY <2>1 DEF Members
  <2>. HIDE DEF V, M, B, m
  <2>. QED  BY <2>2, SelectedTwice
<1>2. \A i \in 1..Len(files) : files[i] \in ToSet(files)
  BY DEF ToSet
<1>3. Passing(files, (V \cap M) \cap B, Len(files)) = Under(files, d)
  BY <1>2 DEF Passing, Under
<1>. HIDE DEF m, V, M, B
<1>4. m \in Seq(File)  BY <1>1, SelectedPicks
<1>5. PICK h : Picks(h, m, files, (V \cap M) \cap B)  BY <1>1, SelectedPicks
<1>6. \A i, j \in 1..Len(m) : h[i] = h[j] => i = j
  <2>. SUFFICES ASSUME NEW i \in 1..Len(m), NEW j \in 1..Len(m), h[i] = h[j], i # j PROVE FALSE
    OBVIOUS
  <2>1. i < j \/ j < i  BY <1>4
  <2>2. h[i] < h[j] \/ h[j] < h[i]  BY <1>5, <2>1 DEF Picks, PicksUpTo
  <2>3. h[i] \in Nat  BY <1>5 DEF Picks, PicksUpTo, Passing
  <2>. QED  BY <2>2, <2>3
<1>7. /\ h \in [1..Len(m) -> Under(files, d)]
      /\ \A j \in Under(files, d) : \E i \in 1..Len(m) : h[i] = j
      /\ \A i \in 1..Len(m) : m[i] = files[h[i]]
  BY <1>3, <1>5 DEF Picks, PicksUpTo
<1>. QED  BY <1>4, <1>6, <1>7 DEF m

\* The entries of a list are names that are not empty.
LEMMA EntriesAre ==
  ASSUME NEW files \in Seq(File), NEW d \in Seq(Chunks)
  PROVE  /\ Entries(files, d) \in Seq(Seq(Chunks))
         /\ Len(Entries(files, d)) = Len(Members(files, d))
         /\ \A i \in 1..Len(Entries(files, d)) : Len(Entries(files, d)[i]) >= 1
<1>. DEFINE m == Members(files, d)
            e == Entries(files, d)
<1>1. m \in Seq(File)  BY MembersAre
<1>2. PICK h : /\ h \in [1..Len(m) -> Under(files, d)]
               /\ \A i \in 1..Len(m) : m[i] = files[h[i]]
  BY MembersAre
<1>3. DOMAIN m = 1..Len(m) /\ Len(m) \in Nat  BY <1>1
<1>4. e = [i \in 1..Len(m) |-> SubSeq(m[i].path, Len(d) + 1, Len(m[i].path))]
  BY <1>3 DEF Entries
<1>. HIDE DEF m, e
<1>5. ASSUME NEW i \in 1..Len(m) PROVE e[i] \in Seq(Chunks) /\ Len(e[i]) >= 1
  <2>. DEFINE p == m[i].path
  <2>1. p \in Seq(Chunks)
    <3>1. m[i] \in File  BY <1>1
    <3>. QED  BY <3>1 DEF File
  <2>2. IsStrictPrefix(d, p)  BY <1>2 DEF Under
  <2>3. e[i] = SubSeq(p, Len(d) + 1, Len(p))  BY <1>4
  <2>. HIDE DEF p
  <2>4. Len(d) \in Nat /\ Len(p) \in Nat /\ Len(d) <= Len(p)
    BY <2>1, <2>2 DEF IsStrictPrefix, IsPrefix
  <2>5. Len(d) # Len(p)
    <3>. SUFFICES ASSUME Len(d) = Len(p) PROVE FALSE
      OBVIOUS
    <3>1. SubSeq(d, 1, Len(d)) = d /\ SubSeq(p, 1, Len(p)) = p  BY <2>1, SubSeqFull
    <3>. QED  BY <2>2, <3>1 DEF IsStrictPrefix, IsPrefix
  <2>6. \A k \in (Len(d) + 1)..Len(p) : p[k] \in Chunks  BY <2>1, <2>4
  <2>7. Len(d) + 1 \in Int /\ Len(p) \in Int /\ Len(d) + 1 <= Len(p)  BY <2>4, <2>5
  <2>8. e[i] \in Seq(Chunks) /\ Len(e[i]) = Len(p) - (Len(d) + 1) + 1
    BY <2>3, <2>6, <2>7, SubSeqProperties
  <2>. QED  BY <2>4, <2>7, <2>8
<1>6. e \in [1..Len(m) -> Seq(Chunks)]  BY <1>4, <1>5
<1>7. e \in Seq(Seq(Chunks)) /\ Len(e) = Len(m)  BY <1>3, <1>6
<1>8. \A i \in 1..Len(e) : Len(e[i]) >= 1  BY <1>5, <1>7
<1>. QED  BY <1>7, <1>8 DEF e, m

\* What sort.Slice makes of the entries is a list of them, in order unless a number in it
\* is oversized.
LEMMA SortingsAre ==
  ASSUME NEW entries \in Seq(Seq(Chunks)), \A i \in 1..Len(entries) : Len(entries[i]) >= 1,
         NEW s \in Sortings(entries)
  PROVE  /\ InOrder(s, entries)
         /\ s \in Seq(Seq(Chunks)) /\ Len(s) = Len(entries)
<1>0. DOMAIN entries = 1..Len(entries) /\ Len(entries) \in Nat  OBVIOUS
<1>. DEFINE n == Len(entries)
<1>1. PICK p \in [1..n -> 1..n] : IsInjective(p) /\ s = [i \in 1..n |-> entries[p[i]]]
  BY <1>0 DEF Sortings
<1>2. \A i \in 1..(Len(s) - 1) : ~NaturalLess(s[i + 1], s[i])
  BY DEF Sortings
<1>3. s \in [1..n -> Seq(Chunks)]  BY <1>0, <1>1
<1>4. s \in Seq(Seq(Chunks)) /\ Len(s) = n /\ DOMAIN s = 1..n  BY <1>0, <1>3, TypeOfSeq
<1>5. \A i \in 1..n : s[i] = entries[p[i]]  BY <1>1
<1>6. \A j \in 1..n : \E i \in 1..n : p[i] = j
  <2>1. IsFiniteSet(1..n)  BY <1>0, FS_Interval
  <2>2. p \in Injection(1..n, 1..n)  BY <1>1 DEF Injection, IsInjective
  <2>3. p \in Surjection(1..n, 1..n)  BY <2>1, <2>2, FS_Injection
  <2>. QED  BY <2>3 DEF Surjection
<1>7. ToSet(s) = ToSet(entries)
  <2>1. ASSUME NEW x \in ToSet(s) PROVE x \in ToSet(entries)
    <3>1. PICK i \in 1..n : s[i] = x  BY <1>4 DEF ToSet
    <3>2. p[i] \in 1..n /\ entries[p[i]] = x  BY <1>5, <3>1
    <3>. QED  BY <1>0, <3>2 DEF ToSet
  <2>2. ASSUME NEW x \in ToSet(entries) PROVE x \in ToSet(s)
    <3>1. PICK j \in 1..n : entries[j] = x  BY <1>0 DEF ToSet
    <3>2. PICK i \in 1..n : p[i] = j  BY <1>6
    <3>3. s[i] = x  BY <1>5, <3>1, <3>2
    <3>. QED  BY <1>4, <3>3 DEF ToSet
  <2>. QED  BY <2>1, <2>2
<1>8. ASSUME \A e \in ToSet(s), c \in Chunks : c \in ToSet(e) => ~Oversized(c) PROVE Sorted(s)
  <2>1. ASSUME NEW i \in 1..n PROVE s[i] \in Seq(Ordinary) /\ Len(s[i]) >= 1
    <3>1. s[i] \in Seq(Chunks) /\ s[i] \in ToSet(s) /\ Len(s[i]) >= 1
      BY <1>3, <1>4, <1>5 DEF ToSet
    <3>2. \A k \in 1..Len(s[i]) : s[i][k] \in Chunks /\ s[i][k] \in ToSet(s[i])
      BY <3>1 DEF ToSet
    <3>3. \A k \in 1..Len(s[i]) : s[i][k] \in Ordinary
      BY <1>8, <3>1, <3>2 DEF Ordinary
    <3>4. s[i] \in [1..Len(s[i]) -> Ordinary] /\ Len(s[i]) \in Nat  BY <3>1, <3>3
    <3>5. s[i] \in Seq(Ordinary)  BY <3>4, TypeOfSeq
    <3>. QED  BY <3>1, <3>5
  <2>2. s \in Seq(Seq(Ordinary))
    <3>1. s \in [1..n -> Seq(Ordinary)]  BY <1>3, <2>1
    <3>. QED  BY <1>0, <3>1, TypeOfSeq
  <2>3. \A i, j \in 1..n : i < j => ~NaturalLess(s[j], s[i])
    BY <1>2, <1>4, <2>2, NeighboursSort
  <2>4. ASSUME NEW i \in 1..n, NEW j \in 1..n, i < j, Parsed(s[i][1]), Parsed(s[j][1])
        PROVE  s[i][1].num <= s[j][1].num
    <3>. DEFINE c == s[i][1]
                d == s[j][1]
    <3>1. c \in Chunks /\ d \in Chunks /\ 1 \in 1..Len(s[j]) /\ 1 <= Len(s[i])
      <4>1. /\ s[i] \in Seq(Ordinary) /\ s[j] \in Seq(Ordinary)
            /\ Len(s[i]) >= 1 /\ Len(s[j]) >= 1
        BY <2>1
      <4>2. Len(s[i]) \in Nat /\ Len(s[j]) \in Nat  BY <4>1
      <4>3. 1 \in 1..Len(s[i]) /\ 1 \in 1..Len(s[j])  BY <4>1, <4>2
      <4>4. c \in Ordinary /\ d \in Ordinary
        <5>. HIDE DEF Ordinary
        <5>. QED  BY <4>1, <4>3
      <4>5. Ordinary \subseteq Chunks  BY DEF Ordinary
      <4>6. c \in Chunks /\ d \in Chunks
        <5>. HIDE DEF Ordinary, c, d
        <5>. QED  BY <4>4, <4>5
      <4>. QED  BY <4>1, <4>3, <4>6
    <3>2. c.num \in Nat /\ d.num \in Nat  BY <2>4, <3>1, ChunkTypes
    <3>3. d.num < c.num => ChunkLess(d, c)
      BY <2>4, <3>2 DEF ChunkLess
    <3>4. d.num < c.num => LessAt(s[j], s[i], 1)
      BY <3>1, <3>3 DEF LessAt
    <3>5. ~(d.num < c.num)
      BY <2>3, <2>4, <3>1, <3>4 DEF NaturalLess
    <3>. QED  BY <3>2, <3>5
  <2>. QED  BY <1>4, <2>3, <2>4 DEF Sorted
<1>. QED  BY <1>4, <1>7, <1>8 DEF InOrder

\* Groups are directories of the torrent.
LEMMA DirsAre ==
  ASSUME torrent \in Seq(File), NEW d \in Dirs PROVE d \in Seq(Chunks)
<1>. DEFINE V == {f \in ToSet(torrent) : f.valid}
            M == {f \in ToSet(torrent) : f.media}
<1>1. PICK f \in ToSet(Media(torrent)) : \E i \in 1..(Len(f.path) - 1) : d = Dir(f.path, i)
  BY DEF Dirs, Groups
<1>2. ToSet(Media(torrent)) \subseteq ToSet(torrent)
  <2>1. Accepted(torrent) \in Seq(File)  BY SelectedPicks DEF Accepted
  <2>2. ToSet(Accepted(torrent)) = ToSet(torrent) \cap V  BY SelectedElements DEF Accepted
  <2>3. ToSet(Media(torrent)) = ToSet(Accepted(torrent)) \cap M
    BY <2>1, SelectedElements DEF Media
  <2>. QED  BY <2>2, <2>3
<1>3. f \in File  BY <1>2 DEF ToSet
<1>4. f.path \in Seq(Chunks)  BY <1>3 DEF File
<1>. QED  BY <1>1, <1>4 DEF Dir

\* A list belongs where two media files or more lie and the torrent brings none.
LEMMA Places ==
  ASSUME NEW d, torrent \in Seq(File), d \in Dirs
  PROVE  InRightPlace(d) <=> d \in Targets(torrent)
<1>. DEFINE m == Members(torrent, d)
            V == {f \in ToSet(torrent) : f.valid}
<1>0. d \in Seq(Chunks)  BY DirsAre
<1>1. PICK h : /\ h \in [1..Len(m) -> Under(torrent, d)]
               /\ \A i, j \in 1..Len(m) : h[i] = h[j] => i = j
               /\ \A j \in Under(torrent, d) : \E i \in 1..Len(m) : h[i] = j
               /\ \A i \in 1..Len(m) : m[i] = torrent[h[i]]
  <2>1. torrent \in Seq(File)  OBVIOUS
  <2>2. \E h : /\ h \in [1..Len(Members(torrent, d)) -> Under(torrent, d)]
               /\ \A i, j \in 1..Len(Members(torrent, d)) : h[i] = h[j] => i = j
               /\ \A j \in Under(torrent, d) : \E i \in 1..Len(Members(torrent, d)) : h[i] = j
               /\ \A i \in 1..Len(Members(torrent, d)) : Members(torrent, d)[i] = torrent[h[i]]
    BY ONLY <2>1, MembersAre
  <2>. QED  BY ONLY <2>2 DEF m
<1>2. Len(m) \in Nat /\ Len(Entries(torrent, d)) = Len(m)  BY <1>0, MembersAre, EntriesAre
<1>3. MediaUnder(d) = Under(torrent, d)  BY DEF MediaUnder, Under
<1>. HIDE DEF m
<1>4. (\E i, j \in MediaUnder(d) : i # j) <=> Len(m) >= 2
  <2>1. ASSUME Len(m) >= 2 PROVE \E i, j \in MediaUnder(d) : i # j
    <3>1. 1 \in 1..Len(m) /\ 2 \in 1..Len(m)  BY <1>2, <2>1
    <3>2. h[1] \in MediaUnder(d) /\ h[2] \in MediaUnder(d) /\ h[1] # h[2]  BY <1>1, <1>3, <3>1
    <3>. QED  BY <3>2
  <2>2. ASSUME NEW i \in MediaUnder(d), NEW j \in MediaUnder(d), i # j PROVE Len(m) >= 2
    <3>1. PICK a \in 1..Len(m) : h[a] = i  BY <1>1, <1>3
    <3>2. PICK b \in 1..Len(m) : h[b] = j  BY <1>1, <1>3
    <3>3. a # b  BY <2>2, <3>1, <3>2
    <3>. QED  BY <1>2, <3>3
  <2>. QED  BY <2>1, <2>2
<1>5. Supplied(d) <=> Lowered(d) \in Occupied(torrent)
  <2>1. ToSet(Accepted(torrent)) = ToSet(torrent) \cap V  BY SelectedElements DEF Accepted
  <2>2. \A f : f \in ToSet(torrent) <=> \E i \in 1..Len(torrent) : torrent[i] = f
    BY DEF ToSet
  <2>. QED  BY <2>1, <2>2 DEF Supplied, Occupied
<1>. QED  BY <1>2, <1>4, <1>5 DEF InRightPlace, Targets, Dirs

-----------------------------------------------------------------------------
(* WritePlaylists.                                                          *)

\* The playlists still to be dealt with are those of the plan, and what it says of each is a
\* sorting of its entries; while they are written, a directory that should have a list and
\* that exists has one or is still in the plan.
ListTyped ==
  /\ torrent \in Seq(File) /\ NoDir \notin Dirs
  /\ present \subseteq Dirs /\ DOMAIN lists = Dirs
  /\ at \in {"due", "write", "processed"}
  /\ opened \in Dirs \cup {NoDir}

PlanInv ==
  /\ DOMAIN plan \subseteq Targets(torrent)
  /\ \A d \in DOMAIN plan : plan[d] \in Sortings(Entries(torrent, d))
  /\ opened # NoDir => at = "write" /\ opened \in DOMAIN plan /\ lists[opened] = Created
  /\ at = "write" =>
       \A d \in Targets(torrent) \cap (present \ unopened) : lists[d] = Absent => d \in DOMAIN plan
  /\ at = "processed" => \A d \in Targets(torrent) \cap (present \ unopened) : lists[d] # Absent

OursInv ==
  \A d \in Dirs : Ours(d) =>
    /\ d \in Targets(torrent)
    /\ IF lists[d] = Created THEN d \in cutShort \/ d = opened
       ELSE InOrder(lists[d], Entries(torrent, d))

ListIInv == ListTyped /\ PlanInv /\ OursInv

LEMMA ListImplied == ListIInv => PlaylistInv
<1>. SUFFICES ASSUME ListIInv PROVE PlaylistInv
  OBVIOUS
<1>1. \A d \in Dirs : InRightPlace(d) <=> d \in Targets(torrent)
  BY Places DEF ListIInv, ListTyped
<1>. QED  BY <1>1 DEF ListIInv, ListTyped, PlanInv, OursInv, PlaylistInv

LEMMA ListInitInv == PlaylistInit => ListIInv
<1>. SUFFICES ASSUME PlaylistInit PROVE ListIInv
  OBVIOUS
<1>1. ListTyped
  BY PlaylistAssumption, NoDirAssumption DEF PlaylistInit, ListTyped, Dirs
<1>2. DOMAIN plan = {}  BY DEF PlaylistInit
<1>3. PlanInv  BY <1>2 DEF PlaylistInit, PlanInv
<1>4. OursInv  BY DEF PlaylistInit, OursInv, Ours
<1>. QED  BY <1>1, <1>3, <1>4 DEF ListIInv

\* A list that was planned is in order and is none of the other things a playlist.m3u can be.
LEMMA PlannedAre ==
  ASSUME torrent \in Seq(File), NEW d \in Targets(torrent),
         NEW s \in Sortings(Entries(torrent, d))
  PROVE  /\ InOrder(s, Entries(torrent, d))
         /\ s \notin {Absent, Foreign, Created}
<1>1. d \in Dirs /\ Len(Entries(torrent, d)) >= 2  BY DEF Targets, Dirs
<1>2. d \in Seq(Chunks)  BY <1>1, DirsAre
<1>3. InOrder(s, Entries(torrent, d)) /\ Len(s) = Len(Entries(torrent, d))
  <2>. DEFINE entries == Entries(torrent, d)
  <2>1. entries \in Seq(Seq(Chunks)) /\ \A i \in 1..Len(entries) : Len(entries[i]) >= 1
    BY <1>2, EntriesAre
  <2>2. s \in Sortings(entries)  OBVIOUS
  <2>. HIDE DEF entries
  <2>3. InOrder(s, entries) /\ Len(s) = Len(entries)  BY <2>1, <2>2, SortingsAre
  <2>. QED  BY <2>3 DEF entries
<1>4. Len(Absent) = 1 /\ Len(Foreign) = 1 /\ Len(Created) = 1  BY DEF Absent, Foreign, Created
<1>5. Len(s) # 1  BY <1>1, <1>3
<1>. QED  BY ONLY <1>3, <1>4, <1>5, Zenon

\* What the plan keeps when a directory has been dealt with.
LEMMA WithoutAre ==
  ASSUME NEW d
  PROVE  DOMAIN Without(d) = DOMAIN plan \ {d} /\ \A e \in DOMAIN plan \ {d} : Without(d)[e] = plan[e]
BY DEF Without

LEMMA BuildKeeps == ListIInv /\ Build => ListIInv'
<1>. SUFFICES ASSUME ListIInv, Build PROVE ListIInv'
  OBVIOUS
<1>1. /\ at' = "write" /\ UNCHANGED <<torrent, present, lists, opened, restarts, cutShort>>
      /\ DOMAIN plan' = Targets(torrent)
      /\ \A d \in Targets(torrent) : plan'[d] \in Sortings(Entries(torrent, d))
      /\ opened = NoDir
  BY DEF Build, ListIInv, PlanInv
<1>2. ListTyped'  BY <1>1 DEF ListIInv, ListTyped, Dirs
<1>3. PlanInv'  BY <1>1 DEF PlanInv
<1>4. OursInv'  BY <1>1 DEF ListIInv, OursInv, Ours, Dirs
<1>. QED  BY <1>2, <1>3, <1>4 DEF ListIInv

LEMMA RootFailsKeeps == ListIInv /\ RootFails => ListIInv'
<1>. SUFFICES ASSUME ListIInv, RootFails PROVE ListIInv'
  OBVIOUS
<1>1. /\ at' = "write" /\ UNCHANGED <<torrent, present, lists, opened, restarts, cutShort>>
      /\ plan' = << >> /\ unopened' = Targets(torrent) /\ opened = NoDir
  BY DEF RootFails, ListIInv, PlanInv
<1>2. ListTyped'  BY <1>1 DEF ListIInv, ListTyped, Dirs
<1>3. PlanInv'
  <2>1. DOMAIN plan' = {}  BY <1>1
  <2>. QED  BY <1>1, <2>1 DEF PlanInv
<1>4. OursInv'  BY <1>1 DEF ListIInv, OursInv, Ours, Dirs
<1>. QED  BY <1>2, <1>3, <1>4 DEF ListIInv

LEMMA OpenFailsKeeps == ASSUME ListIInv, NEW d \in Dirs, OpenFails(d) PROVE ListIInv'
<1>1. /\ at = "write" /\ opened = NoDir /\ plan' = Without(d) /\ unopened' = unopened \cup {d}
      /\ UNCHANGED <<torrent, present, lists, at, opened, restarts, cutShort>>
  BY DEF OpenFails
<1>2. ListTyped'  BY <1>1 DEF ListIInv, ListTyped, Dirs
<1>3. PlanInv'
  <2>1. DOMAIN plan' = DOMAIN plan \ {d} /\ \A e \in DOMAIN plan' : plan'[e] = plan[e]
    BY <1>1, WithoutAre
  <2>. QED  BY <1>1, <2>1 DEF ListIInv, PlanInv
<1>4. OursInv'  BY <1>1 DEF ListIInv, OursInv, Ours, Dirs
<1>. QED  BY <1>2, <1>3, <1>4 DEF ListIInv

LEMMA PassByKeeps == ASSUME ListIInv, NEW d \in Dirs, PassBy(d) PROVE ListIInv'
<1>1. /\ at = "write" /\ opened = NoDir /\ plan' = Without(d)
      /\ d \notin present \/ lists[d] # Absent
      /\ UNCHANGED <<torrent, present, lists, at, opened, restarts, cutShort, unopened>>
  BY DEF PassBy
<1>2. ListTyped'  BY <1>1 DEF ListIInv, ListTyped, Dirs
<1>3. PlanInv'
  <2>1. DOMAIN plan' = DOMAIN plan \ {d} /\ \A e \in DOMAIN plan' : plan'[e] = plan[e]
    BY <1>1, WithoutAre
  <2>. QED  BY <1>1, <2>1 DEF ListIInv, PlanInv
<1>4. OursInv'  BY <1>1 DEF ListIInv, OursInv, Ours, Dirs
<1>. QED  BY <1>2, <1>3, <1>4 DEF ListIInv

LEMMA CreateKeeps == ASSUME ListIInv, NEW d \in Dirs, Create(d) PROVE ListIInv'
<1>1. /\ at = "write" /\ opened = NoDir /\ d \in DOMAIN plan /\ d \in present /\ lists[d] = Absent
      /\ lists' = [lists EXCEPT ![d] = Created] /\ opened' = d
      /\ UNCHANGED <<torrent, present, at, plan, restarts, cutShort, unopened>>
  BY DEF Create
<1>2. ListTyped'  BY <1>1 DEF ListIInv, ListTyped, Dirs
<1>3. lists'[d] = Created /\ \A e \in Dirs : e # d => lists'[e] = lists[e]
  BY <1>1 DEF ListIInv, ListTyped
<1>4. Created # Absent  BY DEF Created, Absent
<1>5. present \subseteq Dirs /\ Dirs' = Dirs  BY <1>1 DEF ListIInv, ListTyped, Dirs
<1>6. PlanInv'  BY <1>1, <1>3, <1>4, <1>5 DEF ListIInv, PlanInv
<1>7. OursInv'
  <2>1. d \in Targets(torrent)  BY <1>1 DEF ListIInv, PlanInv
  <2>. SUFFICES ASSUME NEW e \in Dirs, Ours(e)'
                PROVE  /\ e \in Targets(torrent)'
                       /\ IF lists'[e] = Created THEN e \in cutShort' \/ e = opened'
                          ELSE InOrder(lists'[e], Entries(torrent, e)')
    BY <1>5 DEF OursInv
  <2>2. CASE e = d  BY <1>1, <1>3, <2>1, <2>2
  <2>3. CASE e # d
    <3>1. Ours(e)  BY <1>3, <2>3 DEF Ours
    <3>2. lists[e] = Created => e \in cutShort  BY <1>1, <3>1 DEF ListIInv, OursInv, ListTyped
    <3>. QED  BY <1>1, <1>3, <2>3, <3>1, <3>2 DEF ListIInv, OursInv
  <2>. QED  BY <2>2, <2>3
<1>. QED  BY <1>2, <1>6, <1>7 DEF ListIInv

LEMMA FillKeeps == ListIInv /\ Fill => ListIInv'
<1>. SUFFICES ASSUME ListIInv, Fill PROVE ListIInv'
  OBVIOUS
<1>1. /\ opened # NoDir /\ plan' = Without(opened) /\ opened' = NoDir
      /\ \/ lists' = [lists EXCEPT ![opened] = plan[opened]] /\ UNCHANGED cutShort
         \/ UNCHANGED lists /\ cutShort' = cutShort \cup {opened}
      /\ UNCHANGED <<torrent, present, at, restarts, unopened>>
  BY DEF Fill
<1>2. /\ at = "write" /\ opened \in DOMAIN plan /\ lists[opened] = Created /\ opened \in Dirs
      /\ opened \in Targets(torrent) /\ plan[opened] \in Sortings(Entries(torrent, opened))
      /\ torrent \in Seq(File)
  BY <1>1 DEF ListIInv, PlanInv, ListTyped
<1>3. /\ InOrder(plan[opened], Entries(torrent, opened))
      /\ plan[opened] \notin {Absent, Foreign, Created}
  BY <1>2, PlannedAre
<1>4. DOMAIN plan' = DOMAIN plan \ {opened} /\ \A e \in DOMAIN plan' : plan'[e] = plan[e]
  BY <1>1, WithoutAre
<1>5. /\ DOMAIN lists' = Dirs /\ \A e \in Dirs : e # opened => lists'[e] = lists[e]
      /\ Dirs' = Dirs
  BY <1>1 DEF ListIInv, ListTyped, Dirs
<1>6. ListTyped'  BY <1>1, <1>5 DEF ListIInv, ListTyped, Dirs
<1>7. lists'[opened] = plan[opened] \/ (lists'[opened] = Created /\ opened \in cutShort')
  BY <1>1, <1>2 DEF ListIInv, ListTyped
<1>8. cutShort \subseteq cutShort'  BY <1>1
<1>9. PlanInv'
  <2>1. lists'[opened] # Absent  BY <1>3, <1>7 DEF Created, Absent
  <2>2. present \subseteq Dirs  BY DEF ListIInv, ListTyped
  <2>3. \A d \in Targets(torrent) \cap (present \ unopened) : lists'[d] = Absent => d \in DOMAIN plan'
    BY <1>2, <1>4, <1>5, <2>1, <2>2 DEF ListIInv, PlanInv
  <2>. QED  BY <1>1, <1>2, <1>4, <2>3 DEF ListIInv, PlanInv
<1>10. OursInv'
  <2>. SUFFICES ASSUME NEW e \in Dirs, Ours(e)'
                PROVE  /\ e \in Targets(torrent)
                       /\ IF lists'[e] = Created THEN e \in cutShort'
                          ELSE InOrder(lists'[e], Entries(torrent, e))
    BY <1>1, <1>5 DEF OursInv
  <2>1. CASE e = opened  BY <1>2, <1>3, <1>7, <2>1
  <2>2. CASE e # opened
    <3>1. Ours(e)  BY <1>5, <2>2 DEF Ours
    <3>. QED  BY <1>5, <1>8, <2>2, <3>1 DEF ListIInv, OursInv
  <2>. QED  BY <2>1, <2>2
<1>. QED  BY <1>6, <1>9, <1>10 DEF ListIInv

LEMMA ProcessedKeeps == ListIInv /\ Processed => ListIInv'
<1>. SUFFICES ASSUME ListIInv, Processed PROVE ListIInv'
  OBVIOUS
<1>1. /\ at = "write" /\ at' = "processed" /\ DOMAIN plan = {} /\ opened = NoDir
      /\ UNCHANGED <<torrent, present, lists, plan, opened, restarts, cutShort, unopened>>
  BY DEF Processed
<1>2. ListTyped'  BY <1>1 DEF ListIInv, ListTyped, Dirs
<1>3. PlanInv'  BY <1>1 DEF ListIInv, PlanInv
<1>4. OursInv'  BY <1>1 DEF ListIInv, OursInv, Ours, Dirs
<1>. QED  BY <1>2, <1>3, <1>4 DEF ListIInv

LEMMA AgainKeeps == ListIInv /\ Again => ListIInv'
<1>. SUFFICES ASSUME ListIInv, Again PROVE ListIInv'
  OBVIOUS
<1>1. /\ at' \in {"processed", "due"} /\ (at' = "processed" => at = "processed")
      /\ plan' = << >> /\ opened' = NoDir
      /\ cutShort' = IF opened = NoDir THEN cutShort ELSE cutShort \cup {opened}
      /\ UNCHANGED <<torrent, present, lists, unopened>>
  BY DEF Again
<1>2. ListTyped'  BY <1>1 DEF ListIInv, ListTyped, Dirs
<1>3. PlanInv'
  <2>1. DOMAIN plan' = {}  BY <1>1
  <2>. QED  BY <1>1, <2>1 DEF ListIInv, PlanInv
<1>4. OursInv'
  <2>1. \A d \in Dirs : d \in cutShort \/ d = opened => d \in cutShort'
    BY <1>1 DEF ListIInv, ListTyped
  <2>. QED  BY <1>1, <2>1 DEF ListIInv, OursInv, Ours, Dirs
<1>. QED  BY <1>2, <1>3, <1>4 DEF ListIInv

LEMMA ListStep == ListIInv /\ [PlaylistNext]_listVars => ListIInv'
<1>. SUFFICES ASSUME ListIInv, [PlaylistNext]_listVars PROVE ListIInv'
  OBVIOUS
<1>1. ASSUME UNCHANGED listVars PROVE ListIInv'
  <2>1. UNCHANGED <<torrent, present, lists, at, plan, opened, cutShort, unopened>>  BY <1>1 DEF listVars
  <2>2. ListTyped' /\ PlanInv'  BY <2>1 DEF ListIInv, ListTyped, PlanInv, Dirs
  <2>3. OursInv'  BY <2>1 DEF ListIInv, OursInv, Ours, Dirs
  <2>. QED  BY <2>2, <2>3 DEF ListIInv
<1>. QED  BY <1>1, BuildKeeps, RootFailsKeeps, PassByKeeps, OpenFailsKeeps, CreateKeeps, FillKeeps,
          ProcessedKeeps, AgainKeeps DEF PlaylistNext

\* PlaylistInv, for any torrent: whatever crashes and full disks cut short, each list of the
\* program's lies where it belongs and has the media files below it, each once and in their
\* natural order, unless it was cut short; and a torrent that is processed lacks a list only
\* in a directory where the last round failed to create it.
THEOREM PlaylistsCorrect == PlaylistSpec => []PlaylistInv
<1>. QED  BY ListImplied, ListInitInv, ListStep, PTL DEF PlaylistSpec

\* A playlist.m3u that is there, whoever wrote it, is never written again: os.O_EXCL.
THEOREM PlaylistsStay == PlaylistSpec => NeverOverwritten
<1>. DEFINE Stay == \A d \in Dirs : lists[d] # Absent /\ d # opened => lists'[d] = lists[d]
<1>1. ListIInv /\ [PlaylistNext]_listVars => [Stay]_listVars
  <2>. SUFFICES ASSUME ListIInv, PlaylistNext PROVE Stay
    OBVIOUS
  <2>1. ASSUME NEW d \in Dirs, Create(d) PROVE Stay
    BY <2>1 DEF Create, ListIInv, ListTyped
  <2>2. ASSUME Fill PROVE Stay
    BY <2>2 DEF Fill, ListIInv, ListTyped
  <2>3. ASSUME Build \/ RootFails \/ (\E d \in Dirs : PassBy(d) \/ OpenFails(d)) \/ Processed \/ Again
        PROVE  UNCHANGED lists
    BY <2>3 DEF Build, RootFails, PassBy, OpenFails, Processed, Again
  <2>. QED  BY <2>1, <2>2, <2>3 DEF PlaylistNext
<1>. QED  BY <1>1, ListInitInv, ListStep, PTL DEF PlaylistSpec, NeverOverwritten
=============================================================================
