------------------------------- MODULE Playlist -------------------------------
(***************************************************************************)
(* The playlists that the post-processor writes for a completed torrent    *)
(* (src/pkg/torrent/playlist.go): which directories get one, the natural   *)
(* order of its entries, and the exclusive, unprotected writes that a      *)
(* crash can cut short and that are not repeated once a file is there.     *)
(*                                                                         *)
(* Each part of a path is one chunk: what it shares with its neighbours,   *)
(* such as the extension, is left out.                                     *)
(***************************************************************************)
EXTENDS NaturalOrder, Selection

CONSTANTS
  Torrents,     \* the files of a torrent, in its order
  NoDir,
  MaxRestarts   \* bound: restarts of the daemon

\* media: by its extension; list: its name is playlist.m3u in some spelling, and is not
\* part of the path; valid: none of the parts that BuildPlaylists rejects.
File == [path : Seq(Chunks), media : BOOLEAN, list : BOOLEAN, valid : BOOLEAN]

ASSUME PlaylistAssumption == Torrents \subseteq Seq(File) /\ MaxRestarts \in Nat

VARIABLES
  torrent,   \* the files of the torrent
  present,   \* its directories that exist under the target
  lists,     \* playlist.m3u in each of them
  at,        \* where the post-processor is with this torrent
  plan,      \* the playlists it has built and not yet dealt with
  opened,    \* the directory whose list it has created and not yet written, or NoDir
  restarts,
  cutShort,  \* history: directories whose list an error or a restart has cut short
  unopened   \* history: directories where the last round could not make a list

listVars == <<torrent, present, lists, at, plan, opened, restarts, cutShort, unopened>>

-----------------------------------------------------------------------------
(* BuildPlaylists.                                                          *)

Dir(path, i) == SubSeq(path, 1, i)
Lowered(dir) == [i \in DOMAIN dir |-> dir[i].text]
Accepted(files) == Selected(files, {f \in ToSet(files) : f.valid})
Media(files) == Selected(Accepted(files), {f \in ToSet(files) : f.media})

\* Every ancestor directory of a media file forms a group, of paths relative to it.
Groups(files) == UNION {{Dir(f.path, i) : i \in 1..(Len(f.path) - 1)} : f \in ToSet(Media(files))}
Members(files, dir) == Selected(Media(files), {f \in ToSet(files) : IsStrictPrefix(dir, f.path)})
Entries(files, dir) ==
  LET m == Members(files, dir)
  IN  [i \in DOMAIN m |-> SubSeq(m[i].path, Len(dir) + 1, Len(m[i].path))]
Occupied(files) == {Lowered(f.path) : f \in {g \in ToSet(Accepted(files)) : g.list}}

TargetsUnchecked(files) == {d \in Groups(files) : Len(Entries(files, d)) >= 2}  \* mutant
Targets(files) ==
  {d \in Groups(files) : Len(Entries(files, d)) >= 2 /\ Lowered(d) \notin Occupied(files)}

\* sort.Slice is not stable, and promises no more than this of its result when the order
\* that it is given has a cycle.
Sortings(entries) ==
  {s \in {[i \in DOMAIN entries |-> entries[p[i]]] :
            p \in {q \in [DOMAIN entries -> DOMAIN entries] : IsInjective(q)}} :
     \A i \in 1..(Len(s) - 1) : ~NaturalLess(s[i + 1], s[i])}

-----------------------------------------------------------------------------
(* WritePlaylists, called by the post-processor.                            *)

Dirs == Groups(torrent)
ASSUME NoDirAssumption == \A t \in Torrents : NoDir \notin Groups(t)

\* What a playlist.m3u can be: nothing yet, someone else's, or created and not filled.
Absent == <<"absent">>
Foreign == <<"foreign">>
Created == <<"created">>
Ours(d) == lists[d] \notin {Absent, Foreign}

PlaylistInit ==
  /\ torrent \in Torrents
  /\ present \in SUBSET Dirs
  /\ lists \in [Dirs -> {Absent, Foreign}]
  /\ at = "due" /\ plan = << >> /\ opened = NoDir
  /\ restarts = 0 /\ cutShort = {} /\ unopened = {}

Without(d) == [e \in DOMAIN plan \ {d} |-> plan[e]]

Build ==
  /\ at = "due" /\ at' = "write"
  /\ plan' \in {p \in [Targets(torrent) -> UNION {Sortings(Entries(torrent, d)) : d \in Targets(torrent)}] :
                 \A d \in Targets(torrent) : p[d] \in Sortings(Entries(torrent, d))}
  /\ unopened' = {}
  /\ UNCHANGED <<torrent, present, lists, opened, restarts, cutShort>>

\* The absolute path of the target cannot be found out: an error that the caller ignores.
RootFails ==
  /\ at = "due" /\ at' = "write"
  /\ plan' = << >> /\ unopened' = Targets(torrent)
  /\ UNCHANGED <<torrent, present, lists, opened, restarts, cutShort>>

\* The directory is there, but cannot be examined, or the file cannot be created in it.
OpenFails(d) ==
  /\ at = "write" /\ opened = NoDir /\ d \in DOMAIN plan
  /\ d \in present /\ lists[d] = Absent
  /\ plan' = Without(d) /\ unopened' = unopened \cup {d}
  /\ UNCHANGED <<torrent, present, lists, at, opened, restarts, cutShort>>

\* No such directory, or a file is there already.
PassBy(d) ==
  /\ at = "write" /\ opened = NoDir /\ d \in DOMAIN plan
  /\ d \notin present \/ lists[d] # Absent
  /\ plan' = Without(d)
  /\ UNCHANGED <<torrent, present, lists, at, opened, restarts, cutShort, unopened>>

\* Mutant: os.O_TRUNC in the place of os.O_EXCL.
CreateAnyway(d) ==
  /\ at = "write" /\ opened = NoDir /\ d \in DOMAIN plan
  /\ d \in present
  /\ lists' = [lists EXCEPT ![d] = Created]
  /\ opened' = d
  /\ UNCHANGED <<torrent, present, at, plan, restarts, cutShort, unopened>>

Create(d) ==
  /\ at = "write" /\ opened = NoDir /\ d \in DOMAIN plan
  /\ d \in present /\ lists[d] = Absent
  /\ lists' = [lists EXCEPT ![d] = Created]
  /\ opened' = d
  /\ UNCHANGED <<torrent, present, at, plan, restarts, cutShort, unopened>>

\* The error of WriteString is ignored.
Fill ==
  /\ opened # NoDir
  /\ \/ lists' = [lists EXCEPT ![opened] = plan[opened]] /\ UNCHANGED cutShort
     \/ UNCHANGED lists /\ cutShort' = cutShort \cup {opened}
  /\ plan' = Without(opened) /\ opened' = NoDir
  /\ UNCHANGED <<torrent, present, at, restarts, unopened>>

\* The torrent is recorded as processed.
Processed ==
  /\ at = "write" /\ DOMAIN plan = {} /\ opened = NoDir
  /\ at' = "processed"
  /\ UNCHANGED <<torrent, present, lists, plan, opened, restarts, cutShort, unopened>>

\* A restart processes the torrent again, unless that was recorded.
Again ==
  /\ restarts < MaxRestarts /\ restarts' = restarts + 1
  /\ at' \in IF at = "processed" THEN {"processed", "due"} ELSE {"due"}
  /\ plan' = << >> /\ opened' = NoDir
  /\ cutShort' = IF opened = NoDir THEN cutShort ELSE cutShort \cup {opened}
  /\ UNCHANGED <<torrent, present, lists, unopened>>

PlaylistNext ==
  \/ Build \/ RootFails \/ Fill \/ Processed \/ Again
  \/ \E d \in Dirs : PassBy(d) \/ OpenFails(d) \/ Create(d)

PlaylistSpec == PlaylistInit /\ [][PlaylistNext]_listVars

-----------------------------------------------------------------------------
(* Properties.                                                              *)

MediaUnder(d) == {i \in 1..Len(torrent) :
  torrent[i].valid /\ torrent[i].media /\ IsStrictPrefix(d, torrent[i].path)}
Supplied(d) == \E i \in 1..Len(torrent) :
  torrent[i].valid /\ torrent[i].list /\ Lowered(torrent[i].path) = Lowered(d)

\* A list is written only where two media files or more lie and the torrent brings none.
InRightPlace(d) == \E i, j \in MediaUnder(d) : i # j /\ ~Supplied(d)

\* A list has the media files below it, each once, and none stands before one that it
\* should follow, wherever in the list they are: of two numbers the lower is first.
\* An oversized number in the list voids that, for the order then has cycles.
Sorted(list) ==
  \A i, j \in DOMAIN list : i < j =>
    /\ ~NaturalLess(list[j], list[i])
    /\ Parsed(list[i][1]) /\ Parsed(list[j][1]) => list[i][1].num <= list[j][1].num
InOrder(list, entries) ==
  /\ Len(list) = Len(entries) /\ ToSet(list) = ToSet(entries)
  /\ (\A e \in ToSet(list), c \in Chunks : c \in ToSet(e) => ~Oversized(c)) => Sorted(list)

\* A list of the program's is whole, unless it is being written or was cut short. When the
\* torrent is processed, a directory that should have a list lacks one only if the list could
\* not be created when it was due; the torrent counts as processed all the same.
PlaylistInv ==
  /\ present \subseteq Dirs /\ DOMAIN plan \subseteq Targets(torrent)
  /\ opened # NoDir => opened \in DOMAIN plan /\ lists[opened] = Created
  /\ \A d \in Dirs : Ours(d) =>
       /\ InRightPlace(d)
       /\ IF lists[d] = Created THEN d \in cutShort \/ d = opened ELSE InOrder(lists[d], Entries(torrent, d))
  /\ at = "processed" => \A d \in present \ unopened : InRightPlace(d) => lists[d] # Absent

\* What is in a playlist.m3u stays there, whoever wrote it: only the list that is being
\* written changes.
NeverOverwritten ==
  [][\A d \in Dirs : lists[d] # Absent /\ d # opened => lists'[d] = lists[d]]_listVars
=============================================================================
