------------------------------ MODULE DaemonParts ------------------------------
(***************************************************************************)
(* Four parts of the daemon that share no state: the jobs of download      *)
(* requests, the status socket, the seed time of a torrent, and the        *)
(* playlists of one.  As in Scrapers, the variable part says which one a   *)
(* behaviour is about, with the others at rest.                            *)
(***************************************************************************)
EXTENDS DownloadRequest, StatusSocket, SeedPolicy, Playlist

ASSUME PartsAssumption == << >> \in Torrents

VARIABLE part

partVars == <<vars, socketVars, seedVars, listVars, part>>

PartsInit ==
  /\ part \in {"download", "socket", "seed", "playlist"}
  /\ Init /\ SocketInit /\ SeedInit /\ PlaylistInit
  /\ part # "playlist" => torrent = << >>

OnJobs(A) == part = "download" /\ A /\ UNCHANGED <<socketVars, seedVars, listVars, part>>
OnSocket(A) == part = "socket" /\ A /\ UNCHANGED <<vars, seedVars, listVars, part>>
OnSeed(A) == part = "seed" /\ A /\ UNCHANGED <<vars, socketVars, listVars, part>>
OnLists(A) == part = "playlist" /\ A /\ UNCHANGED <<vars, socketVars, seedVars, part>>

PartsNext == OnJobs(Next) \/ OnSocket(SocketNext) \/ OnSeed(SeedNext) \/ OnLists(PlaylistNext)

\* The fairness of each part; the playlists need none for what is claimed of them.
PartsSpec ==
  /\ PartsInit /\ [][PartsNext]_partVars
  /\ \A r \in Requests : WF_partVars(OnJobs(Job(r)))
  /\ WF_partVars(OnSocket(Handler)) /\ WF_partVars(OnSocket(Ping))
  /\ WF_partVars(OnSeed(Ageing)) /\ WF_partVars(OnSeed(PostProcess)) /\ WF_partVars(OnSeed(Collect))
=============================================================================
