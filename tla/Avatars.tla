------------------------------- MODULE Avatars -------------------------------
(***************************************************************************)
(* A user's profile row and the avatar files behind it                     *)
(* (apps/api/internal/httpapi/avatar.go, httpapi/server.go updateMe,       *)
(* data/avatar.go, data/store.go).                                         *)
(*                                                                         *)
(* updateAvatar and updateMe work under avatarMu, but with the user row    *)
(* that was read when the request was authenticated, before the lock.      *)
(* Files are named by their digest.  The model follows one user: a file's  *)
(* directory is the user's own, and a request only touches the row and the *)
(* files of the user who makes it.                                         *)
(***************************************************************************)
EXTENDS Naturals

CONSTANTS Picture,     \* contents of images, and the managed URLs they get
          Elsewhere,   \* an external URL, or none
          Session      \* requests of the user that can run at the same time

ASSUME AvatarsAssumption == Elsewhere \notin Picture

Url == Picture \cup {Elsewhere}

VARIABLES
  avatar,     \* users.avatar_url
  files,      \* installed below avatars/<user>
  request,    \* what each request is doing
  locked,     \* avatarMu
  misnamed,   \* history: an edit has named a managed URL without looking at it
  littered    \* history: files may have stayed behind

avatarsVars == <<avatar, files, request, locked, misnamed, littered>>

Outside == [at |-> "none", read |-> Elsewhere, url |-> Elsewhere, made |-> FALSE]

AvatarsTypeOK ==
  /\ avatar \in Url
  /\ files \in SUBSET Picture
  /\ request \in [Session -> [at : {"none", "upload", "edit", "installed", "written"},
                              read : Url, url : Url, made : BOOLEAN]]
  /\ locked \in BOOLEAN /\ misnamed \in BOOLEAN /\ littered \in BOOLEAN

AvatarsInit ==
  /\ avatar = Elsewhere
  /\ files = {}
  /\ request = [s \in Session |-> Outside]
  /\ locked = FALSE /\ misnamed = FALSE /\ littered = FALSE

\* Bug variant: the handlers do not take avatarMu.
LockIgnored == TRUE

AvatarLockFree == ~locked

----------------------------------------------------------------------------
\* Authentication reads the row; an upload is decoded into the private workspace.
BeginUpload(s, p) ==
  /\ request[s].at = "none"
  /\ request' = [request EXCEPT ![s] = [Outside EXCEPT !.at = "upload", !.read = avatar,
                                                       !.url = p]]
  /\ UNCHANGED <<avatar, files, locked, misnamed, littered>>

\* updateMe: what the request does not name keeps the value read.  A managed URL
\* only has to look like one of the user's.
BeginProfileEdit(s, u) ==
  /\ request[s].at = "none"
  /\ request' = [request EXCEPT ![s] = [Outside EXCEPT !.at = "edit", !.read = avatar,
                                                       !.url = u]]
  /\ UNCHANGED <<avatar, files, locked, misnamed, littered>>

\* InstallAvatar: a file of the same digest is left as it is.
Install(s) ==
  LET r == request[s] IN
  /\ r.at = "upload" /\ AvatarLockFree
  /\ locked' = TRUE
  /\ files' = files \cup {r.url}
  /\ request' = [request EXCEPT ![s].at = "installed", ![s].made = r.url \notin files]
  /\ UNCHANGED <<avatar, misnamed, littered>>

\* An installation that fails leaves nothing, or a file without a row.
InstallFails(s) ==
  LET r == request[s] IN
  /\ r.at = "upload" /\ AvatarLockFree
  /\ \/ UNCHANGED <<files, littered>>
     \/ r.url \notin files /\ files' = files \cup {r.url} /\ littered' = TRUE
  /\ request' = [request EXCEPT ![s] = Outside]
  /\ UNCHANGED <<avatar, locked, misnamed>>

\* UpdateProfile.  (The display name of the authenticated row goes back with the
\* new URL, whatever it is by now; names are left out.)
WriteUpload(s) ==
  LET r == request[s] IN
  /\ r.at = "installed"
  /\ avatar' = r.url
  /\ misnamed' = FALSE
  /\ littered' = (littered \/ r.read # avatar)
  /\ request' = [request EXCEPT ![s].at = "written"]
  /\ UNCHANGED <<files, locked>>

\* The write fails: what this request has installed is removed again.
WriteUploadFails(s) ==
  LET r == request[s] IN
  /\ r.at = "installed"
  /\ files' = IF r.made THEN files \ {r.url} ELSE files
  /\ locked' = FALSE
  /\ request' = [request EXCEPT ![s] = Outside]
  /\ UNCHANGED <<avatar, misnamed, littered>>

\* UpdateProfileDetails of updateMe.
WriteEdit(s) ==
  LET r == request[s] IN
  /\ r.at = "edit" /\ AvatarLockFree
  /\ locked' = TRUE
  /\ avatar' = r.url
  /\ misnamed' = IF r.url = avatar THEN misnamed ELSE r.url \in Picture
  /\ littered' = (littered \/ (r.read # avatar /\ r.url # avatar))
  /\ request' = [request EXCEPT ![s].at = "written"]
  /\ UNCHANGED files

\* The write of an edit fails.
EditFails(s) ==
  /\ request[s].at = "edit"
  /\ request' = [request EXCEPT ![s] = Outside]
  /\ UNCHANGED <<avatar, files, locked, misnamed, littered>>

\* RemoveManagedAvatar of the URL read, when it is another than the one written;
\* a failure is only logged.  The mirror is synchronised (module ObjectMirror).
RemoveReplaced(s) ==
  LET r == request[s] IN
  /\ r.at = "written"
  /\ \/ /\ files' = IF r.read # r.url THEN files \ {r.read} ELSE files
        /\ UNCHANGED littered
     \/ /\ r.read # r.url /\ r.read \in files
        /\ UNCHANGED files /\ littered' = TRUE
  /\ locked' = FALSE
  /\ request' = [request EXCEPT ![s] = Outside]
  /\ UNCHANGED <<avatar, misnamed>>

\* The process ends: nothing at the next startup looks after avatars.
AvatarsCrash ==
  /\ littered' = (littered \/ locked)
  /\ request' = [s \in Session |-> Outside]
  /\ locked' = FALSE
  /\ UNCHANGED <<avatar, files, misnamed>>

AvatarsNext ==
  \/ \E s \in Session, p \in Picture : BeginUpload(s, p)
  \/ \E s \in Session, u \in Url : BeginProfileEdit(s, u)
  \/ \E s \in Session : \/ Install(s) \/ InstallFails(s) \/ WriteUpload(s)
                        \/ WriteUploadFails(s) \/ WriteEdit(s) \/ EditFails(s)
                        \/ RemoveReplaced(s)
  \/ AvatarsCrash

AvatarsSpec == AvatarsInit /\ [][AvatarsNext]_avatarsVars

----------------------------------------------------------------------------
(* Properties                                                              *)

\* While no request is inside the lock, the user's managed avatar is installed,
\* although every request removes a file it has read of before the lock; only an
\* edit that names a managed URL which is not the row's (given by the client, or
\* kept from a reading that another request has made stale) can break it, until
\* the next upload.
AvatarIsInstalled == ~locked /\ avatar \in Picture => avatar \in files \/ misnamed

\* Nothing but the avatar is left behind, unless a request was overtaken between
\* its authentication and the lock, failed in the file system or was cut short.
NoOtherFiles == ~locked => files \subseteq {avatar} \/ littered

AvatarInv == AvatarIsInstalled /\ NoOtherFiles
=============================================================================
