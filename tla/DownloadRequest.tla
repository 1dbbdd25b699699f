---------------------------- MODULE DownloadRequest ----------------------------
(***************************************************************************)
(* handleDownload (src/cmd/daemon/main.go): a request is validated, maybe  *)
(* searched for, and answered, while a job of its own adds the torrent and *)
(* announces its completion to a webhook. Every request here is for one    *)
(* torrent; jobs hold on to the torrent object they were given, also after *)
(* it is dropped and added again.                                          *)
(***************************************************************************)
EXTENDS Naturals

CONSTANTS
  Requests,
  MaxObjects,    \* how often the torrent may be added anew
  ReentrantRLock \* as in TorrentClient: FALSE is Go's lock

ASSUME BoundAssumption == MaxObjects \in Nat \ {0} /\ ReentrantRLock \in BOOLEAN

VARIABLES
  req,      \* what the request asks for
  reply,    \* what it was told
  job,      \* where its job is
  holds,    \* the torrent object the job was given; 0 is none
  expired,  \* the job's seven days are over
  posted,   \* how many times the job has announced completion
  objects,  \* the state of each torrent object
  current   \* the object in the client; 0 is none

request == <<req, reply>>
jobs == <<job, holds, expired, posted>>
torrentObjects == <<objects, current>>
vars == <<request, jobs, torrentObjects>>

Ask == [seedTime : {"none", "valid", "invalid"}, auto : BOOLEAN, magnet : BOOLEAN, callback : BOOLEAN]
NoAsk == [seedTime |-> "none", auto |-> FALSE, magnet |-> FALSE, callback |-> FALSE]

Init ==
  /\ req = [r \in Requests |-> NoAsk] /\ reply = [r \in Requests |-> "none"]
  /\ job = [r \in Requests |-> "none"] /\ holds = [r \in Requests |-> 0]
  /\ expired = [r \in Requests |-> FALSE] /\ posted = [r \in Requests |-> 0]
  /\ objects = [o \in 1 .. MaxObjects |-> "unused"] /\ current = 0

-----------------------------------------------------------------------------
Reply(r, a) == reply' = [reply EXCEPT ![r] = a]
\* The job is started and the request is answered; how the job fares is not awaited.
Start(r) == Reply(r, "started") /\ job' = [job EXCEPT ![r] = "add"]
Refuse(r, a) == Reply(r, a) /\ UNCHANGED job

\* A search for the best match precedes an automatic download, whatever magnet is given.
Receive(r) ==
  /\ reply[r] = "none"
  /\ \E a \in Ask :
       /\ req' = [req EXCEPT ![r] = a]
       /\ CASE a.seedTime = "invalid" -> Refuse(r, "bad request")
            [] a.seedTime # "invalid" /\ a.auto -> Refuse(r, "searching")
            [] a.seedTime # "invalid" /\ ~a.auto /\ a.magnet -> Start(r)
            [] OTHER -> Refuse(r, "bad request")
  /\ UNCHANGED <<holds, expired, posted, torrentObjects>>

\* The best row may have no magnet.
SearchAnswers(r) ==
  /\ reply[r] = "searching"
  /\ \/ Refuse(r, "not found")
     \/ Refuse(r, "bad request")
     \/ Start(r)
  /\ UNCHANGED <<req, holds, expired, posted, torrentObjects>>

-----------------------------------------------------------------------------
\* AddMagnetWithSeedTime takes the object that is in the client, or a new one, or fails.
NewObject == IF current # 0 THEN current ELSE CHOOSE o \in 1 .. MaxObjects : objects[o] = "unused"
CanAdd == current # 0 \/ \E o \in 1 .. MaxObjects : objects[o] = "unused"

Add(r) ==
  /\ job[r] = "add"
  /\ \/ /\ CanAdd
        /\ current' = NewObject
        /\ objects' = [objects EXCEPT ![NewObject] = IF @ = "unused" THEN "magnet" ELSE @]
        /\ holds' = [holds EXCEPT ![r] = NewObject]
        /\ job' = [job EXCEPT ![r] = "adding"]
     \/ job' = [job EXCEPT ![r] = "ended"] /\ UNCHANGED <<holds, torrentObjects>>
  /\ UNCHANGED <<request, expired, posted>>

\* Its metadata is known.
Added(r) ==
  /\ job[r] = "adding" /\ objects[holds[r]] # "magnet"
  /\ job' = [job EXCEPT ![r] = "store"]
  /\ UNCHANGED <<request, holds, expired, posted, torrentObjects>>

\* The section in which the entry is stored and saved, under a lock that saveState takes
\* again: with Go's lock the job waits here for itself.
Stored(r) ==
  /\ job[r] = "store" /\ ReentrantRLock
  /\ job' = [job EXCEPT ![r] = IF req[r].callback THEN "info" ELSE "ended"]
  /\ UNCHANGED <<request, holds, expired, posted, torrentObjects>>

\* After thirty seconds it drops the object, also when the metadata has just arrived, and
\* whoever else uses it. The job is given nothing.
MetadataTimeout(r) ==
  /\ job[r] = "adding"
  /\ job' = [job EXCEPT ![r] = "ended"] /\ holds' = [holds EXCEPT ![r] = 0]
  /\ current' = IF current = holds[r] THEN 0 ELSE current
  /\ UNCHANGED <<request, expired, posted, objects>>

\* The metadata is there, but when both channels are ready, select takes either.
AwaitInfo(r) ==
  /\ job[r] = "info"
  /\ \/ objects[holds[r]] # "magnet" /\ job' = [job EXCEPT ![r] = "poll"]
     \/ expired[r] /\ job' = [job EXCEPT ![r] = "ended"]
  /\ UNCHANGED <<request, holds, expired, posted, torrentObjects>>

PollOnce(r) ==  \* mutant: no loop
  /\ job[r] = "poll"
  /\ IF objects[holds[r]] = "complete"
     THEN job' = [job EXCEPT ![r] = "posting"] /\ posted' = [posted EXCEPT ![r] = @ + 1]
     ELSE job' = [job EXCEPT ![r] = "ended"] /\ UNCHANGED posted
  /\ UNCHANGED <<request, holds, expired, torrentObjects>>
PollForever(r) ==  \* mutant: the poll does not watch the context
  /\ job[r] = "poll" /\ objects[holds[r]] = "complete"
  /\ job' = [job EXCEPT ![r] = "posting"] /\ posted' = [posted EXCEPT ![r] = @ + 1]
  /\ UNCHANGED <<request, holds, expired, torrentObjects>>
PollOn(r) ==  \* mutant: the loop goes on after the announcement
  /\ job[r] = "poll"
  /\ \/ objects[holds[r]] = "complete" /\ posted[r] < 2
        /\ posted' = [posted EXCEPT ![r] = @ + 1] /\ UNCHANGED job
     \/ expired[r] /\ job' = [job EXCEPT ![r] = "ended"] /\ UNCHANGED posted
  /\ UNCHANGED <<request, holds, expired, torrentObjects>>
\* http.Post is called without the context, and has no time limit of its own.
Poll(r) ==
  /\ job[r] = "poll"
  /\ \/ /\ objects[holds[r]] = "complete"
        /\ job' = [job EXCEPT ![r] = "posting"] /\ posted' = [posted EXCEPT ![r] = @ + 1]
     \/ expired[r] /\ job' = [job EXCEPT ![r] = "ended"] /\ UNCHANGED posted
  /\ UNCHANGED <<request, holds, expired, torrentObjects>>

\* The webhook answers, or the connection to it fails.
PostEnds(r) ==
  /\ job[r] = "posting"
  /\ job' = [job EXCEPT ![r] = "ended"]
  /\ UNCHANGED <<request, holds, expired, posted, torrentObjects>>

\* The clock of context.WithTimeout starts with the job.
Expire(r) ==
  /\ job[r] \notin {"none", "ended"} /\ ~expired[r]
  /\ expired' = [expired EXCEPT ![r] = TRUE]
  /\ UNCHANGED <<request, job, holds, posted, torrentObjects>>

-----------------------------------------------------------------------------
\* The client downloads, and any request or the garbage collector may drop the torrent. A
\* dropped object makes no more progress.
Download ==
  /\ current # 0
  /\ \/ objects[current] = "magnet" /\ objects' = [objects EXCEPT ![current] = "info"]
     \/ objects[current] = "info" /\ objects' = [objects EXCEPT ![current] = "complete"]
  /\ UNCHANGED <<request, jobs, current>>

Drop ==
  /\ current # 0 /\ current' = 0
  /\ UNCHANGED <<request, jobs, objects>>

Job(r) == Add(r) \/ Added(r) \/ Stored(r) \/ MetadataTimeout(r) \/ AwaitInfo(r) \/ Poll(r)
Next ==
  \/ \E r \in Requests : Receive(r) \/ SearchAnswers(r) \/ Job(r) \/ PostEnds(r) \/ Expire(r)
  \/ Download \/ Drop

\* Jobs run. Seven days need not pass, and a webhook need not answer.
Spec == Init /\ [][Next]_vars /\ \A r \in Requests : WF_vars(Job(r))

-----------------------------------------------------------------------------
(* Properties of download requests and their jobs.                          *)

\* The types of the requests', the jobs' and the torrent's state.
TypeOK ==
  /\ req \in [Requests -> Ask]
  /\ reply \in [Requests -> {"none", "searching", "started", "bad request", "not found"}]
  /\ job \in [Requests -> {"none", "add", "adding", "store", "info", "poll", "posting", "ended"}]
  /\ holds \in [Requests -> 0 .. MaxObjects] /\ expired \in [Requests -> BOOLEAN]
  /\ posted \in [Requests -> Nat]
  /\ objects \in [1 .. MaxObjects -> {"unused", "magnet", "info", "complete"}]
  /\ current \in 0 .. MaxObjects

\* A completion is announced once, to who asked for it, and only when the torrent that this
\* request was given has completed; never for a request that was refused.
AnnouncedTruly ==
  \A r \in Requests :
    posted[r] > 0 =>
      /\ posted[r] = 1
      /\ req[r].callback /\ reply[r] = "started"
      /\ objects[holds[r]] = "complete"

\* What holds of every request and its job.
DownloadInv == TypeOK /\ AnnouncedTruly

\* README.md:255, "will HTTP POST to this URL when download finishes": a torrent that
\* completes, before the job looks or long after, in the client or just before it is dropped,
\* is announced to who asked for it, unless the seven days are over first.
Finished(r) ==
  /\ req[r].callback /\ job[r] \notin {"none", "add", "adding"}
  /\ holds[r] # 0 /\ objects[holds[r]] = "complete"
CompletionIsAnnounced == \A r \in Requests : []<>(Finished(r) => posted[r] = 1 \/ expired[r])

\* main.go:223-224: "abandon after 7 days rather than leaking this goroutine indefinitely". A
\* job whose time is over is not left behind, whether its torrent was added, stalls, completes
\* or was dropped -- provided that the webhook it may be calling answers.
WebhookAnswers(r) == []<>(job[r] # "posting")
JobEnds == \A r \in Requests : WebhookAnswers(r) => []<>(expired[r] => job[r] = "ended")
=============================================================================
