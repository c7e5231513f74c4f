---------------------------- MODULE ObjectMirror -----------------------------
(***************************************************************************)
(* The mirror of the asset volume in object storage                        *)
(* (apps/api/internal/objectstore/minio.go, httpapi/object_storage.go,     *)
(* cmd/server/main.go).                                                    *)
(*                                                                         *)
(* A handler that has changed the files below a prefix mirrors the prefix: *)
(* it collects the files, puts those whose digest is not the one recorded  *)
(* with the object, lists the objects and removes what it has not          *)
(* collected.  No lock covers this, so that it interleaves with other      *)
(* changes of the prefix and with other synchronisations: a file may       *)
(* change between its being digested and opened.  An error starts the      *)
(* whole of it again, three times at most and for ten minutes.  The        *)
(* startup does the same once before the server accepts requests, and      *)
(* gives up the start on an error.  Some requests change files below a     *)
(* prefix that they do not mirror.                                         *)
(*                                                                         *)
(* The model follows one prefix; a synchronisation touches no other.  The  *)
(* contents of a file are of one size: what is read of a file that has     *)
(* outgrown the size taken with its digest is cut to that size, and is     *)
(* then as different from the digest as the whole is.                      *)
(***************************************************************************)
CONSTANTS File,      \* files below the prefix, and the objects named after them
          Content,
          Absent,
          Changer    \* handlers that can run at the same time

ASSUME ObjectMirrorAssumption ==
  Absent \notin Content \cup File \cup [body : Content, digest : Content]

VARIABLES
  volume,    \* the local files
  mirror,    \* the objects: a body, and the digest recorded as their metadata
  server,    \* "down", "starting" or "up"
  sync,      \* what each handler is doing; at a startup one of them reconciles
  adrift,    \* history: the last synchronisation to end was crossed by a change
             \* or by one that had been crossed, gave up, or was cut short, or a
             \* change since then is mirrored by nobody
  crossed    \* history: the files that changed between the digest and the opening
             \* that their objects come from

mirrorVars == <<volume, mirror, server, sync, adrift, crossed>>

Stored == Content \cup {Absent}
Object == [body : Content, digest : Content]
DigestOf(o) == IF o = Absent THEN Absent ELSE o.digest
BodyOf(o) == IF o = Absent THEN Absent ELSE o.body

\* file, digest and body: of the file being put; stale: it has changed since its digest.
Idle == [at |-> "idle", todo |-> {}, keep |-> {}, alone |-> TRUE,
         file |-> Absent, digest |-> Absent, body |-> Absent, stale |-> FALSE]

MirrorTypeOK ==
  /\ volume \in [File -> Stored]
  /\ mirror \in [File -> Object \cup {Absent}]
  /\ server \in {"down", "starting", "up"}
  /\ sync \in [Changer -> [at : {"idle", "collect", "put", "stat", "open", "send", "remove"},
                           todo : SUBSET File, keep : SUBSET File, alone : BOOLEAN,
                           file : File \cup {Absent}, digest : Stored, body : Stored,
                           stale : BOOLEAN]]
  /\ adrift \in BOOLEAN
  /\ crossed \in SUBSET File

MirrorInit ==
  /\ volume \in [File -> Stored]
  /\ mirror = [f \in File |-> Absent]
  /\ server = "down"
  /\ sync = [c \in Changer |-> Idle]
  /\ adrift = TRUE
  /\ crossed = {}

Present(s) == {f \in File : s[f] # Absent}
Active(c) == sync[c].at \notin {"idle", "collect"}

----------------------------------------------------------------------------
\* What a handler is doing once file f has changed under it.
Disturbed(d, f) ==
  [sync[d] EXCEPT !.alone = @ /\ ~Active(d),
                  !.stale = @ \/ (sync[d].at \in {"stat", "open"} /\ sync[d].file = f)]

\* A request changes a file below the prefix (modules GameImport, GameCover,
\* DeletionStage, Avatars) and will synchronise it.
Change(c, f, s) ==
  /\ server = "up" /\ sync[c].at = "idle"
  /\ volume[f] # s
  /\ volume' = [volume EXCEPT ![f] = s]
  /\ sync' = [d \in Changer |-> IF d = c THEN [Idle EXCEPT !.at = "collect"]
                                ELSE Disturbed(d, f)]
  /\ UNCHANGED <<mirror, server, adrift, crossed>>

\* A request changes a file below the prefix and synchronises another prefix or none:
\* an update that unlinks a cover below its game's former slug, a deletion that takes
\* such a directory, a handler that returns an error after files have changed.
ChangeUnmirrored(f, s) ==
  /\ server = "up"
  /\ volume[f] # s
  /\ volume' = [volume EXCEPT ![f] = s]
  /\ sync' = [d \in Changer |-> Disturbed(d, f)]
  /\ adrift' = TRUE
  /\ UNCHANGED <<mirror, server, crossed>>

\* Before the server starts, interrupted requests are recovered.
Recover(f, s) ==
  /\ server = "down"
  /\ volume[f] # s
  /\ volume' = [volume EXCEPT ![f] = s]
  /\ UNCHANGED <<mirror, server, sync, adrift, crossed>>

\* collectFiles, in one walk.
Collect(c) ==
  /\ sync[c].at = "collect"
  /\ sync' = [sync EXCEPT ![c].at = "put", ![c].todo = Present(volume),
                          ![c].keep = Present(volume),
                          ![c].alone = \A d \in Changer : Active(d) => sync[d].alone]
  /\ UNCHANGED <<volume, mirror, server, adrift, crossed>>

\* putIfChanged of the next file, the order of the names is not kept: its digest.
Digest(c, f) ==
  /\ sync[c].at = "put" /\ f \in sync[c].todo
  /\ volume[f] # Absent
  /\ sync' = [sync EXCEPT ![c].at = "stat", ![c].file = f, ![c].digest = volume[f]]
  /\ UNCHANGED <<volume, mirror, server, adrift, crossed>>

\* What c is doing once it is done with its file.
NextFile(c) ==
  [sync[c] EXCEPT !.at = "put", !.todo = @ \ {sync[c].file}, !.file = Absent,
                  !.digest = Absent, !.body = Absent, !.stale = FALSE]

\* StatObject: an object that records the digest is taken to have the content.
StatObject(c) ==
  /\ sync[c].at = "stat"
  /\ IF DigestOf(mirror[sync[c].file]) = sync[c].digest
     THEN sync' = [sync EXCEPT ![c] = NextFile(c)]
     ELSE sync' = [sync EXCEPT ![c].at = "open"]
  /\ UNCHANGED <<volume, mirror, server, adrift, crossed>>

\* The file is opened again; a file that is replaced meanwhile stays readable.
Open(c) ==
  /\ sync[c].at = "open"
  /\ volume[sync[c].file] # Absent
  /\ sync' = [sync EXCEPT ![c].at = "send", ![c].body = volume[sync[c].file]]
  /\ UNCHANGED <<volume, mirror, server, adrift, crossed>>

\* PutObject: what is read now under the digest of before.
PutObject(c) ==
  /\ sync[c].at = "send"
  /\ mirror' = [mirror EXCEPT ![sync[c].file] = [body |-> sync[c].body, digest |-> sync[c].digest]]
  /\ crossed' = IF sync[c].stale THEN crossed \cup {sync[c].file} ELSE crossed \ {sync[c].file}
  /\ sync' = [sync EXCEPT ![c] = NextFile(c)]
  /\ UNCHANGED <<volume, server, adrift>>

\* ListObjects
List(c) ==
  /\ sync[c].at = "put" /\ sync[c].todo = {}
  /\ sync' = [sync EXCEPT ![c].at = "remove", ![c].todo = Present(mirror) \ sync[c].keep]
  /\ UNCHANGED <<volume, mirror, server, adrift, crossed>>

\* Bug variant: what is listed is not removed.
KeepObsolete(c, f) ==
  /\ sync[c].at = "remove" /\ f \in sync[c].todo
  /\ sync' = [sync EXCEPT ![c].todo = @ \ {f}]
  /\ UNCHANGED <<volume, mirror, server, adrift, crossed>>

RemoveObsolete(c, f) ==
  /\ sync[c].at = "remove" /\ f \in sync[c].todo
  /\ mirror' = [mirror EXCEPT ![f] = Absent]
  /\ crossed' = crossed \ {f}
  /\ sync' = [sync EXCEPT ![c].todo = @ \ {f}]
  /\ UNCHANGED <<volume, server, adrift>>

\* The synchronisation is done; at a startup the server now listens.
Synced(c) ==
  /\ sync[c].at = "remove" /\ sync[c].todo = {}
  /\ adrift' = ~sync[c].alone
  /\ sync' = [sync EXCEPT ![c] = Idle]
  /\ server' = "up"
  /\ UNCHANGED <<volume, mirror, crossed>>

\* A request to the object store fails, or a collected file is gone: again from the
\* start.  What follows does not depend on how often, so the attempts are not counted.
Retry(c) ==
  /\ sync[c].at # "idle" /\ server = "up"
  /\ sync' = [sync EXCEPT ![c] = [Idle EXCEPT !.at = "collect"]]
  /\ UNCHANGED <<volume, mirror, server, adrift, crossed>>

\* The last attempt has failed, or the time is over; a start that fails ends the process.
Abandon(c) ==
  /\ sync[c].at # "idle"
  /\ server' = IF server = "starting" THEN "down" ELSE server
  /\ sync' = [sync EXCEPT ![c] = Idle]
  /\ adrift' = TRUE
  /\ UNCHANGED <<volume, mirror, crossed>>

Crash ==
  /\ server # "down"
  /\ server' = "down" /\ adrift' = TRUE
  /\ sync' = [c \in Changer |-> Idle]
  /\ UNCHANGED <<volume, mirror, crossed>>

\* SyncManagedAssetRoot; c only stands for the process that starts.
Startup(c) ==
  /\ server = "down"
  /\ server' = "starting"
  /\ sync' = [sync EXCEPT ![c] = [Idle EXCEPT !.at = "collect"]]
  /\ UNCHANGED <<volume, mirror, adrift, crossed>>

MirrorNext ==
  \/ \E c \in Changer, f \in File, s \in Stored : Change(c, f, s)
  \/ \E f \in File, s \in Stored : ChangeUnmirrored(f, s) \/ Recover(f, s)
  \/ \E c \in Changer : \/ Startup(c) \/ Collect(c) \/ List(c) \/ Synced(c)
                        \/ StatObject(c) \/ Open(c) \/ PutObject(c)
                        \/ Retry(c) \/ Abandon(c)
  \/ \E c \in Changer, f \in File : Digest(c, f) \/ RemoveObsolete(c, f)
  \/ Crash

MirrorSpec == MirrorInit /\ [][MirrorNext]_mirrorVars

----------------------------------------------------------------------------
(* Properties                                                              *)

\* When nothing is under way, the objects record the digests of exactly the files on
\* the volume, and have their contents but for the files in crossed; unless the last
\* synchronisation has worked with files that were changed under it, or beside one
\* that had, or has failed, or a change since then is mirrored by nobody: those wait
\* for the next synchronisation of the prefix (syncPrefix, syncGameObjects).
MirrorFollows ==
  server = "up" /\ ~adrift /\ (\A c \in Changer : sync[c].at = "idle") =>
    \A f \in File : /\ DigestOf(mirror[f]) = volume[f]
                    /\ f \notin crossed => BodyOf(mirror[f]) = volume[f]

\* The reconciliation of a startup has the prefix for itself, so that the server
\* accepts its first request with the right digests, whatever was left before.
StartupIsAlone ==
  server = "starting" => \A c \in Changer : sync[c].alone

MirrorInv == MirrorFollows /\ StartupIsAlone
=============================================================================
