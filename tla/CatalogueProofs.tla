--------------------------- MODULE CatalogueProofs ---------------------------
(***************************************************************************)
(* What TLAPS proves of ObjectMirror and PlayerServices, and of the        *)
(* composition of the five components of MCCatalogue, for any files,       *)
(* keys, limits, packages and concurrent requests:                         *)
(* - a synchronisation that nothing has crossed leaves objects with the    *)
(*   digests of the files, and with their contents but for files that      *)
(*   changed while they were put; that of a startup is never crossed;      *)
(* - the quota of a player holds in keys and in bytes, and no row outlives *)
(*   the game it was written for.                                          *)
(***************************************************************************)
EXTENDS MCCatalogue, PublicationProofs, UsersProofs

----------------------------------------------------------------------------
\* The steps of putIfChanged, and those of the whole first half of syncPrefix.
Putting == {"stat", "open", "send"}
PutLoop == Putting \cup {"put"}

\* A handler that puts a file has a digest of it, and sends what it has read.
PutInv ==
  \A c \in Changer :
    /\ sync[c].at \in Putting => sync[c].file \in File /\ sync[c].digest \in Content
    /\ sync[c].at = "send" => sync[c].body \in Content

\* What an undisturbed synchronisation has achieved.
Undisturbed(c) ==
  /\ sync[c].keep = Present(volume)
  /\ sync[c].at \in PutLoop =>
       \A f \in Present(volume) : f \in sync[c].todo \/ DigestOf(mirror[f]) = volume[f]
  /\ sync[c].at \in Putting => sync[c].digest = volume[sync[c].file]
  /\ sync[c].at = "remove" =>
       /\ \A f \in Present(volume) : f \notin sync[c].todo /\ DigestOf(mirror[f]) = volume[f]
       /\ \A f \in File \ Present(volume) : f \in sync[c].todo \/ mirror[f] = Absent

\* Handlers at work agree on whether they have been disturbed, one process works
\* at a startup, and none while the server is down.
HandlersInv ==
  /\ \A c \in Changer : sync[c].at = "idle" => sync[c].alone
  /\ server = "down" => \A c \in Changer : sync[c].at = "idle"
  /\ server = "starting" =>
       \A c, d \in Changer : sync[c].at # "idle" /\ sync[d].at # "idle" => c = d
  /\ \A c, d \in Changer : Active(c) /\ Active(d) => (sync[c].alone <=> sync[d].alone)
  /\ \A c \in Changer : Active(c) /\ sync[c].alone => Undisturbed(c)

\* A file that has not changed since its digest was taken still has it, or had it
\* when it was read; an object that differs from its digest is crossed.
DigestInv ==
  /\ \A c \in Changer : ~sync[c].stale =>
       /\ sync[c].at \in {"stat", "open"} => sync[c].digest = volume[sync[c].file]
       /\ sync[c].at = "send" => sync[c].body = sync[c].digest
  /\ \A f \in File \ crossed : BodyOf(mirror[f]) = DigestOf(mirror[f])

MirrorIInv == MirrorTypeOK /\ PutInv /\ HandlersInv /\ DigestInv /\ MirrorInv

----------------------------------------------------------------------------
(* Types                                                                   *)

\* What a handler can be doing.
Doing == [at : {"idle", "collect", "put", "stat", "open", "send", "remove"},
          todo : SUBSET File, keep : SUBSET File, alone : BOOLEAN,
          file : File \cup {Absent}, digest : Stored, body : Stored, stale : BOOLEAN]

\* The start of a synchronisation.
Begun == [Idle EXCEPT !.at = "collect"]

\* The record a handler has after one of its steps is one of Doing.
LEMMA DoingRecords ==
  /\ Idle \in Doing
  /\ Begun \in Doing
  /\ \A r \in Doing : \A a \in BOOLEAN, b \in BOOLEAN :
       [r EXCEPT !.alone = a, !.stale = b] \in Doing
  /\ \A r \in Doing : \A m \in SUBSET File, a \in BOOLEAN :
       [r EXCEPT !.at = "put", !.todo = m, !.keep = m, !.alone = a] \in Doing
  /\ \A r \in Doing : \A f \in File, s \in Stored :
       [r EXCEPT !.at = "stat", !.file = f, !.digest = s] \in Doing
  /\ \A r \in Doing : \A m \in SUBSET File :
       [r EXCEPT !.at = "put", !.todo = m, !.file = Absent,
                 !.digest = Absent, !.body = Absent, !.stale = FALSE] \in Doing
  /\ \A r \in Doing : [r EXCEPT !.at = "open"] \in Doing
  /\ \A r \in Doing : \A s \in Stored : [r EXCEPT !.at = "send", !.body = s] \in Doing
  /\ \A r \in Doing : \A m \in SUBSET File : [r EXCEPT !.at = "remove", !.todo = m] \in Doing
  /\ \A r \in Doing : \A m \in SUBSET File : [r EXCEPT !.todo = m] \in Doing
<1>1. Idle \in Doing
  BY DEF Idle, Doing, Stored
<1>2. Begun \in Doing
  BY DEF Idle, Begun, Doing, Stored
<1>3. ASSUME NEW r \in Doing, NEW a \in BOOLEAN, NEW b \in BOOLEAN
      PROVE  [r EXCEPT !.alone = a, !.stale = b] \in Doing
  BY DEF Doing
<1>4. ASSUME NEW r \in Doing, NEW m \in SUBSET File, NEW a \in BOOLEAN
      PROVE  [r EXCEPT !.at = "put", !.todo = m, !.keep = m, !.alone = a] \in Doing
  BY DEF Doing
<1>5. ASSUME NEW r \in Doing, NEW f \in File, NEW s \in Stored
      PROVE  [r EXCEPT !.at = "stat", !.file = f, !.digest = s] \in Doing
  BY DEF Doing
<1>6. ASSUME NEW r \in Doing, NEW m \in SUBSET File
      PROVE  [r EXCEPT !.at = "put", !.todo = m, !.file = Absent,
                       !.digest = Absent, !.body = Absent, !.stale = FALSE] \in Doing
  BY DEF Doing, Stored
<1>7. ASSUME NEW r \in Doing
      PROVE  [r EXCEPT !.at = "open"] \in Doing
  BY DEF Doing
<1>8. ASSUME NEW r \in Doing, NEW s \in Stored
      PROVE  [r EXCEPT !.at = "send", !.body = s] \in Doing
  BY DEF Doing
<1>9. ASSUME NEW r \in Doing, NEW m \in SUBSET File
      PROVE  [r EXCEPT !.at = "remove", !.todo = m] \in Doing
  BY DEF Doing
<1>10. ASSUME NEW r \in Doing, NEW m \in SUBSET File
       PROVE  [r EXCEPT !.todo = m] \in Doing
  BY DEF Doing
<1> QED BY <1>1, <1>2, <1>3, <1>4, <1>5, <1>6, <1>7, <1>8, <1>9, <1>10

\* One handler takes a step, the others stay as they are.
LEMMA OneHandler ==
  ASSUME sync \in [Changer -> Doing], NEW c \in Changer, NEW r \in Doing,
         sync' = [sync EXCEPT ![c] = r]
  PROVE  /\ sync' \in [Changer -> Doing]
         /\ sync'[c] = r
         /\ \A d \in Changer \ {c} : sync'[d] = sync[d]
OBVIOUS

\* What a handler has after it has put a file.
LEMMA AfterFile ==
  ASSUME MirrorTypeOK, NEW c \in Changer
  PROVE  /\ NextFile(c) \in Doing
         /\ NextFile(c).at = "put" /\ NextFile(c).keep = sync[c].keep
         /\ NextFile(c).todo = sync[c].todo \ {sync[c].file}
         /\ NextFile(c).alone = sync[c].alone /\ NextFile(c).stale = FALSE
<1>0. sync \in [Changer -> Doing]
  BY DEF MirrorTypeOK, Doing
<1>1. PICK r \in Doing : r = sync[c]
  BY <1>0
<1>2. NextFile(c) = [r EXCEPT !.at = "put", !.todo = r.todo \ {r.file}, !.file = Absent,
                         !.digest = Absent, !.body = Absent, !.stale = FALSE]
  BY <1>1 DEF NextFile
<1>3. r.todo \ {r.file} \in SUBSET File
  BY DEF Doing
<1>4. \A m \in SUBSET File : [r EXCEPT !.at = "put", !.todo = m, !.file = Absent,
                                      !.digest = Absent, !.body = Absent, !.stale = FALSE] \in Doing
  BY DoingRecords
<1>6. NextFile(c) \in Doing
  BY <1>2, <1>3, <1>4, Zenon
<1>5. NextFile(c).alone = r.alone
  BY <1>2, Zenon DEF Doing
<1> QED BY <1>1, <1>2, <1>5, <1>6 DEF Doing

\* What a change of a file makes of a handler.
LEMMA AfterChange ==
  ASSUME MirrorTypeOK, NEW d \in Changer, NEW f \in File
  PROVE  /\ Disturbed(d, f) \in Doing
         /\ Disturbed(d, f).at = sync[d].at
         /\ Disturbed(d, f).todo = sync[d].todo
         /\ Disturbed(d, f).keep = sync[d].keep
         /\ Disturbed(d, f).file = sync[d].file
         /\ Disturbed(d, f).digest = sync[d].digest
         /\ Disturbed(d, f).body = sync[d].body
         /\ Disturbed(d, f).alone = (sync[d].alone /\ ~Active(d))
         /\ Disturbed(d, f).stale =
              (sync[d].stale \/ (sync[d].at \in {"stat", "open"} /\ sync[d].file = f))
<1>0. sync \in [Changer -> Doing]
  BY DEF MirrorTypeOK, Doing
<1>1. PICK r \in Doing : r = sync[d]
  BY <1>0
<1> DEFINE a == r.alone /\ ~Active(d)
           b == r.stale \/ (r.at \in {"stat", "open"} /\ r.file = f)
<1>2. Disturbed(d, f) = [r EXCEPT !.alone = a, !.stale = b]
  BY <1>1, Zenon DEF Disturbed
<1>3. a \in BOOLEAN /\ b \in BOOLEAN
  OBVIOUS
<1> HIDE DEF a, b
<1>4. [r EXCEPT !.alone = a, !.stale = b] \in Doing
  BY <1>3, DoingRecords
<1>5. /\ [r EXCEPT !.alone = a, !.stale = b].at = r.at
      /\ [r EXCEPT !.alone = a, !.stale = b].todo = r.todo
      /\ [r EXCEPT !.alone = a, !.stale = b].keep = r.keep
      /\ [r EXCEPT !.alone = a, !.stale = b].file = r.file
      /\ [r EXCEPT !.alone = a, !.stale = b].digest = r.digest
      /\ [r EXCEPT !.alone = a, !.stale = b].body = r.body
  BY DEF Doing
<1>6. /\ [r EXCEPT !.alone = a, !.stale = b].alone = a
      /\ [r EXCEPT !.alone = a, !.stale = b].stale = b
  BY Zenon DEF Doing
<1> QED BY <1>1, <1>2, <1>4, <1>5, <1>6, Zenon DEF a, b

\* The steps of a handler that change more than one of its fields.
LEMMA CollectStep ==
  ASSUME MirrorTypeOK, NEW c \in Changer, Collect(c)
  PROVE  /\ sync' \in [Changer -> Doing]
         /\ sync'[c].at = "put" /\ sync'[c].todo = Present(volume)
         /\ sync'[c].keep = Present(volume)
         /\ sync'[c].alone = \A d \in Changer : Active(d) => sync[d].alone
         /\ sync'[c].stale = sync[c].stale
         /\ \A d \in Changer \ {c} : sync'[d] = sync[d]
<1>0. sync \in [Changer -> Doing]
  BY DEF MirrorTypeOK, Doing
<1>1. PICK r \in Doing : r = sync[c]
  BY <1>0
<1> DEFINE a == \A d \in Changer : Active(d) => sync[d].alone
           m == Present(volume)
           q == [r EXCEPT !.at = "put", !.todo = m, !.keep = m, !.alone = a]
<1>2. sync' = [sync EXCEPT ![c] = q]
  BY <1>1, Zenon DEF Collect
<1>3. m \in SUBSET File /\ a \in BOOLEAN
  BY DEF Present
<1> HIDE DEF a, m
<1>4. q \in Doing
  BY <1>3, DoingRecords
<1>5. q.at = "put" /\ q.todo = m /\ q.keep = m
  BY DEF Doing
<1>6. q.alone = a /\ q.stale = r.stale
  BY Zenon DEF Doing
<1> HIDE DEF q
<1>7. /\ sync' \in [Changer -> Doing]
      /\ sync'[c] = q
      /\ \A d \in Changer \ {c} : sync'[d] = sync[d]
  BY <1>0, <1>2, <1>4, OneHandler
<1> QED BY <1>1, <1>5, <1>6, <1>7, Zenon DEF a, m

LEMMA DigestStep ==
  ASSUME MirrorTypeOK, NEW c \in Changer, NEW f \in File, Digest(c, f)
  PROVE  /\ sync' \in [Changer -> Doing]
         /\ sync'[c].at = "stat" /\ sync'[c].file = f /\ sync'[c].digest = volume[f]
         /\ sync'[c].todo = sync[c].todo /\ sync'[c].keep = sync[c].keep
         /\ sync'[c].alone = sync[c].alone
         /\ \A d \in Changer \ {c} : sync'[d] = sync[d]
<1>0. sync \in [Changer -> Doing] /\ volume[f] \in Stored
  BY DEF MirrorTypeOK, Doing
<1>1. PICK r \in Doing : r = sync[c]
  BY <1>0
<1> DEFINE q == [r EXCEPT !.at = "stat", !.file = f, !.digest = volume[f]]
<1>2. sync' = [sync EXCEPT ![c] = q]
  BY <1>1 DEF Digest
<1>3. q \in Doing
  BY <1>0, DoingRecords
<1>4. /\ q.at = "stat" /\ q.file = f /\ q.digest = volume[f]
      /\ q.todo = r.todo /\ q.keep = r.keep
  BY DEF Doing
<1>5. q.alone = r.alone
  BY Zenon DEF Doing
<1> HIDE DEF q
<1>6. /\ sync' \in [Changer -> Doing]
      /\ sync'[c] = q
      /\ \A d \in Changer \ {c} : sync'[d] = sync[d]
  BY <1>0, <1>2, <1>3, OneHandler
<1> QED BY <1>1, <1>4, <1>5, <1>6

LEMMA OpenStep ==
  ASSUME MirrorTypeOK, NEW c \in Changer, NEW s \in Stored, NEW a \in {"open", "send"},
         sync' = IF a = "open" THEN [sync EXCEPT ![c].at = "open"]
                 ELSE [sync EXCEPT ![c].at = "send", ![c].body = s]
  PROVE  /\ sync' \in [Changer -> Doing]
         /\ sync'[c].at = a /\ sync'[c].file = sync[c].file /\ sync'[c].digest = sync[c].digest
         /\ sync'[c].todo = sync[c].todo /\ sync'[c].keep = sync[c].keep
         /\ a = "send" => sync'[c].body = s
         /\ sync'[c].alone = sync[c].alone /\ sync'[c].stale = sync[c].stale
         /\ \A d \in Changer \ {c} : sync'[d] = sync[d]
<1>0. sync \in [Changer -> Doing]
  BY DEF MirrorTypeOK, Doing
<1>1. PICK r \in Doing : r = sync[c]
  BY <1>0
<1>2. CASE a = "open"
  <2> DEFINE q == [r EXCEPT !.at = "open"]
  <2>1. sync' = [sync EXCEPT ![c] = q]
    BY <1>1, <1>2
  <2>2. q \in Doing
    BY DoingRecords
  <2>3. /\ q.at = "open" /\ q.file = r.file /\ q.digest = r.digest
        /\ q.todo = r.todo /\ q.keep = r.keep
    BY DEF Doing
  <2>4. q.alone = r.alone /\ q.stale = r.stale
    BY Zenon DEF Doing
  <2> HIDE DEF q
  <2>5. /\ sync' \in [Changer -> Doing]
        /\ sync'[c] = q
        /\ \A d \in Changer \ {c} : sync'[d] = sync[d]
    BY <1>0, <2>1, <2>2, OneHandler
  <2> QED BY <1>1, <1>2, <2>3, <2>4, <2>5
<1>3. CASE a = "send"
  <2> DEFINE q == [r EXCEPT !.at = "send", !.body = s]
  <2>1. sync' = [sync EXCEPT ![c] = q]
    BY <1>1, <1>3
  <2>2. q \in Doing
    BY DoingRecords
  <2>3. /\ q.at = "send" /\ q.file = r.file /\ q.digest = r.digest
        /\ q.todo = r.todo /\ q.keep = r.keep /\ q.body = s
    BY DEF Doing
  <2>4. q.alone = r.alone /\ q.stale = r.stale
    BY Zenon DEF Doing
  <2> HIDE DEF q
  <2>5. /\ sync' \in [Changer -> Doing]
        /\ sync'[c] = q
        /\ \A d \in Changer \ {c} : sync'[d] = sync[d]
    BY <1>0, <2>1, <2>2, OneHandler
  <2> QED BY <1>1, <1>3, <2>3, <2>4, <2>5
<1> QED BY <1>2, <1>3

\* An Open sends what it reads; no other handler moves.
LEMMA OpenedStep ==
  ASSUME MirrorTypeOK, PutInv, NEW c \in Changer, Open(c)
  PROVE  /\ sync' \in [Changer -> Doing]
         /\ sync'[c].at = "send" /\ sync'[c].file = sync[c].file /\ sync'[c].digest = sync[c].digest
         /\ sync'[c].todo = sync[c].todo /\ sync'[c].keep = sync[c].keep
         /\ sync'[c].body = volume[sync[c].file]
         /\ sync'[c].alone = sync[c].alone /\ sync'[c].stale = sync[c].stale
         /\ \A d \in Changer \ {c} : sync'[d] = sync[d]
<1>1. sync[c].file \in File
  BY DEF Open, PutInv, Putting
<1>2. PICK s \in Stored : s = volume[sync[c].file]
  BY <1>1 DEF MirrorTypeOK
<1>3. PICK a \in {"open", "send"} : a = "send"
  OBVIOUS
<1>4. sync' = [sync EXCEPT ![c].at = "send", ![c].body = s]
  BY <1>2 DEF Open
<1>5. sync' = IF a = "open" THEN [sync EXCEPT ![c].at = "open"]
              ELSE [sync EXCEPT ![c].at = "send", ![c].body = s]
  BY <1>3, <1>4
<1>6. /\ sync' \in [Changer -> Doing]
      /\ sync'[c].at = a /\ sync'[c].file = sync[c].file /\ sync'[c].digest = sync[c].digest
      /\ sync'[c].todo = sync[c].todo /\ sync'[c].keep = sync[c].keep
      /\ a = "send" => sync'[c].body = s
      /\ sync'[c].alone = sync[c].alone /\ sync'[c].stale = sync[c].stale
      /\ \A d \in Changer \ {c} : sync'[d] = sync[d]
  BY <1>5, OpenStep
<1> QED BY <1>2, <1>3, <1>6

LEMMA ListStep ==
  ASSUME MirrorTypeOK, NEW c \in Changer, NEW m \in SUBSET File, sync[c].at \in {"put", "remove"},
         sync' = [sync EXCEPT ![c].at = "remove", ![c].todo = m]
  PROVE  /\ sync' \in [Changer -> Doing]
         /\ sync'[c].at = "remove" /\ sync'[c].todo = m /\ sync'[c].keep = sync[c].keep
         /\ sync'[c].alone = sync[c].alone
         /\ \A d \in Changer \ {c} : sync'[d] = sync[d]
<1>0. sync \in [Changer -> Doing]
  BY DEF MirrorTypeOK, Doing
<1>1. PICK r \in Doing : r = sync[c]
  BY <1>0
<1> DEFINE q == [r EXCEPT !.at = "remove", !.todo = m]
<1>2. sync' = [sync EXCEPT ![c] = q]
  BY <1>1
<1>3. q \in Doing
  BY DoingRecords
<1>4. q.at = "remove" /\ q.todo = m /\ q.keep = r.keep
  BY DEF Doing
<1>5. q.alone = r.alone
  BY Zenon DEF Doing
<1> HIDE DEF q
<1>6. /\ sync' \in [Changer -> Doing]
      /\ sync'[c] = q
      /\ \A d \in Changer \ {c} : sync'[d] = sync[d]
  BY <1>0, <1>2, <1>3, OneHandler
<1> QED BY <1>1, <1>4, <1>5, <1>6

\* A List leaves what is listed and not kept; no other handler moves.
LEMMA ListedStep ==
  ASSUME MirrorTypeOK, NEW c \in Changer, List(c)
  PROVE  /\ sync' \in [Changer -> Doing]
         /\ sync'[c].at = "remove" /\ sync'[c].todo = Present(mirror) \ sync[c].keep
         /\ sync'[c].keep = sync[c].keep /\ sync'[c].alone = sync[c].alone
         /\ \A d \in Changer \ {c} : sync'[d] = sync[d]
<1>1. PICK m \in SUBSET File : m = Present(mirror) \ sync[c].keep
  BY DEF Present
<1>2. sync[c].at \in {"put", "remove"} /\ sync' = [sync EXCEPT ![c].at = "remove", ![c].todo = m]
  BY <1>1 DEF List
<1> QED BY <1>1, <1>2, ListStep

LEMMA RemoveStep ==
  ASSUME MirrorTypeOK, NEW c \in Changer, NEW f \in File, RemoveObsolete(c, f)
  PROVE  /\ sync' \in [Changer -> Doing]
         /\ sync'[c].at = "remove" /\ sync'[c].todo = sync[c].todo \ {f}
         /\ sync'[c].keep = sync[c].keep /\ sync'[c].alone = sync[c].alone
         /\ \A d \in Changer \ {c} : sync'[d] = sync[d]
<1>0. sync \in [Changer -> Doing]
  BY DEF MirrorTypeOK, Doing
<1>1. PICK r \in Doing : r = sync[c]
  BY <1>0
<1>2. r.at = "remove"
  BY <1>1 DEF RemoveObsolete
<1>3. r = [r EXCEPT !.at = "remove"]
  BY <1>2 DEF Doing
<1>4. [r EXCEPT !.todo = r.todo \ {f}] = [r EXCEPT !.at = "remove", !.todo = r.todo \ {f}]
  BY <1>3
<1>5. sync' = [sync EXCEPT ![c].at = "remove", ![c].todo = r.todo \ {f}]
  BY <1>1, <1>4 DEF RemoveObsolete
<1>6. r.todo \ {f} \in SUBSET File
  BY DEF Doing
<1> QED BY <1>1, <1>2, <1>5, <1>6, ListStep

LEMMA MirrorTypeNext ==
  ASSUME MirrorTypeOK, PutInv, [MirrorNext]_mirrorVars
  PROVE  MirrorTypeOK'
<1>0. sync \in [Changer -> Doing]
  BY DEF MirrorTypeOK, Doing
<1>00. ASSUME sync' \in [Changer -> Doing], UNCHANGED <<volume, mirror, crossed>>,
              server' \in {"down", "starting", "up"}, adrift' \in BOOLEAN
       PROVE  MirrorTypeOK'
  BY <1>00 DEF MirrorTypeOK, Doing
<1>1. ASSUME NEW c \in Changer, NEW f \in File, NEW s \in Stored, Change(c, f, s)
      PROVE  MirrorTypeOK'
  <2>1. volume' \in [File -> Stored]
    BY <1>1 DEF Change, MirrorTypeOK
  <2>2. sync' = [d \in Changer |-> IF d = c THEN Begun ELSE Disturbed(d, f)]
    BY <1>1 DEF Change, Begun
  <2>3. sync' \in [Changer -> Doing]
    BY <2>2, AfterChange, DoingRecords
  <2> QED BY <1>1, <2>1, <2>3 DEF Change, MirrorTypeOK, Doing
<1>2. ASSUME NEW f \in File, NEW s \in Stored, ChangeUnmirrored(f, s)
      PROVE  MirrorTypeOK'
  <2>1. volume' \in [File -> Stored]
    BY <1>2 DEF ChangeUnmirrored, MirrorTypeOK
  <2>2. sync' = [d \in Changer |-> Disturbed(d, f)]
    BY <1>2 DEF ChangeUnmirrored
  <2>3. sync' \in [Changer -> Doing]
    BY <2>2, AfterChange
  <2> QED BY <1>2, <2>1, <2>3 DEF ChangeUnmirrored, MirrorTypeOK, Doing
<1>3. ASSUME NEW f \in File, NEW s \in Stored, Recover(f, s)
      PROVE  MirrorTypeOK'
  BY <1>3 DEF Recover, MirrorTypeOK
<1>4. ASSUME NEW c \in Changer, Collect(c)
      PROVE  MirrorTypeOK'
  <2>1. sync' \in [Changer -> Doing]
    BY <1>4, CollectStep
  <2> QED BY <1>4, <1>00, <2>1 DEF Collect, MirrorTypeOK
<1>5. ASSUME NEW c \in Changer, NEW f \in File, Digest(c, f)
      PROVE  MirrorTypeOK'
  <2>1. sync' \in [Changer -> Doing]
    BY <1>5, DigestStep
  <2> QED BY <1>5, <1>00, <2>1 DEF Digest, MirrorTypeOK
<1>6. ASSUME NEW c \in Changer, StatObject(c)
      PROVE  MirrorTypeOK'
  <2>1. CASE sync' = [sync EXCEPT ![c] = NextFile(c)]
    <3>1. sync' \in [Changer -> Doing]
      BY <1>0, <2>1, AfterFile, OneHandler
    <3> QED BY <1>6, <1>00, <3>1 DEF StatObject, MirrorTypeOK
  <2>2. CASE sync' = [sync EXCEPT ![c].at = "open"]
    <3>1. Absent \in Stored
      BY DEF Stored
    <3>2. sync' \in [Changer -> Doing]
      BY <2>2, <3>1, OpenStep
    <3> QED BY <1>6, <1>00, <3>2 DEF StatObject, MirrorTypeOK
  <2> QED BY <1>6, <2>1, <2>2 DEF StatObject
<1>7. ASSUME NEW c \in Changer, Open(c)
      PROVE  MirrorTypeOK'
  <2>1. sync[c].file \in File
    BY <1>7 DEF Open, PutInv, Putting
  <2>2. sync' \in [Changer -> Doing]
    BY <1>7, OpenedStep
  <2> QED BY <1>7, <1>00, <2>2 DEF Open, MirrorTypeOK
<1>8. ASSUME NEW c \in Changer, PutObject(c)
      PROVE  MirrorTypeOK'
  <2>1. sync' \in [Changer -> Doing]
    BY <1>0, <1>8, AfterFile, OneHandler DEF PutObject
  <2>2. sync[c].file \in File /\ sync[c].digest \in Content /\ sync[c].body \in Content
    BY <1>8 DEF PutObject, PutInv, Putting
  <2>3. [body |-> sync[c].body, digest |-> sync[c].digest] \in Object
    BY <2>2 DEF Object
  <2>4. mirror' \in [File -> Object \cup {Absent}]
    BY <1>8, <2>3 DEF PutObject, MirrorTypeOK
  <2>5. crossed' \in SUBSET File
    BY <1>8, <2>2 DEF PutObject, MirrorTypeOK
  <2> QED BY <1>8, <2>1, <2>4, <2>5 DEF PutObject, MirrorTypeOK, Doing
<1>9. ASSUME NEW c \in Changer, List(c)
      PROVE  MirrorTypeOK'
  <2>1. sync' \in [Changer -> Doing]
    BY <1>9, ListedStep
  <2> QED BY <1>9, <1>00, <2>1 DEF List, MirrorTypeOK
<1>10. ASSUME NEW c \in Changer, NEW f \in File, RemoveObsolete(c, f)
       PROVE  MirrorTypeOK'
  <2>1. sync' \in [Changer -> Doing]
    BY <1>10, RemoveStep
  <2> QED BY <1>10, <2>1 DEF RemoveObsolete, MirrorTypeOK, Doing
<1>11. ASSUME NEW c \in Changer, Synced(c)
       PROVE  MirrorTypeOK'
  <2>1. sync' \in [Changer -> Doing]
    BY <1>0, <1>11, DoingRecords, OneHandler DEF Synced
  <2> QED BY <1>11, <1>00, <2>1 DEF Synced
<1>12. ASSUME NEW c \in Changer, Retry(c)
       PROVE  MirrorTypeOK'
  <2>1. sync' \in [Changer -> Doing]
    BY <1>0, <1>12, DoingRecords, OneHandler DEF Retry, Begun
  <2> QED BY <1>12, <1>00, <2>1 DEF Retry, MirrorTypeOK
<1>13. ASSUME NEW c \in Changer, Abandon(c)
       PROVE  MirrorTypeOK'
  <2>1. sync' \in [Changer -> Doing]
    BY <1>0, <1>13, DoingRecords, OneHandler DEF Abandon
  <2> QED BY <1>13, <1>00, <2>1 DEF Abandon, MirrorTypeOK
<1>14. ASSUME NEW c \in Changer, Startup(c)
       PROVE  MirrorTypeOK'
  <2>1. sync' \in [Changer -> Doing]
    BY <1>0, <1>14, DoingRecords, OneHandler DEF Startup, Begun
  <2> QED BY <1>14, <1>00, <2>1 DEF Startup, MirrorTypeOK
<1>15. CASE Crash
  <2>1. sync' \in [Changer -> Doing]
    BY <1>15, DoingRecords DEF Crash
  <2> QED BY <1>15, <1>00, <2>1 DEF Crash
<1>16. CASE UNCHANGED mirrorVars
  BY <1>16 DEF mirrorVars, MirrorTypeOK
<1> QED
  BY <1>1, <1>2, <1>3, <1>4, <1>5, <1>6, <1>7, <1>8, <1>9, <1>10, <1>11, <1>12, <1>13,
     <1>14, <1>15, <1>16 DEF MirrorNext

----------------------------------------------------------------------------
(* Files being put                                                         *)

LEMMA PutInvNext ==
  ASSUME MirrorTypeOK, PutInv, [MirrorNext]_mirrorVars
  PROVE  PutInv'
<1>0. sync \in [Changer -> Doing]
  BY DEF MirrorTypeOK, Doing
<1>00. ASSUME NEW c \in Changer, \A d \in Changer \ {c} : sync'[d] = sync[d],
              sync'[c].at \in Putting => sync'[c].file \in File /\ sync'[c].digest \in Content,
              sync'[c].at = "send" => sync'[c].body \in Content
       PROVE  PutInv'
  BY <1>00 DEF PutInv
<1>1. ASSUME NEW f \in File,
             \A d \in Changer : sync'[d] = Disturbed(d, f) \/ sync'[d] = Begun
      PROVE  PutInv'
  <2> SUFFICES ASSUME NEW d \in Changer
               PROVE  /\ sync'[d].at \in Putting =>
                           sync'[d].file \in File /\ sync'[d].digest \in Content
                      /\ sync'[d].at = "send" => sync'[d].body \in Content
    BY DEF PutInv
  <2>1. CASE sync'[d] = Begun
    BY <2>1 DEF Begun, Idle, Putting
  <2>2. CASE sync'[d] = Disturbed(d, f)
    BY <2>2, AfterChange DEF PutInv
  <2> QED BY <1>1, <2>1, <2>2
<1>2. ASSUME NEW c \in Changer, NEW r \in {Idle, Begun}, sync' = [sync EXCEPT ![c] = r]
      PROVE  PutInv'
  <2>1. sync'[c] = r /\ \A d \in Changer \ {c} : sync'[d] = sync[d]
    BY <1>0, <1>2
  <2> QED BY <1>00, <2>1 DEF Idle, Begun, Putting
<1>3. ASSUME NEW c \in Changer, NEW f \in File, NEW s \in Stored, Change(c, f, s)
      PROVE  PutInv'
  BY <1>1, <1>3 DEF Change, Begun
<1>4. ASSUME NEW f \in File, NEW s \in Stored, ChangeUnmirrored(f, s)
      PROVE  PutInv'
  BY <1>1, <1>4 DEF ChangeUnmirrored
<1>5. ASSUME NEW c \in Changer, Collect(c)
      PROVE  PutInv'
  BY <1>00, <1>5, CollectStep DEF Putting
<1>6. ASSUME NEW c \in Changer, NEW f \in File, Digest(c, f)
      PROVE  PutInv'
  <2>1. volume[f] \in Content
    BY <1>6 DEF Digest, MirrorTypeOK, Stored
  <2> QED BY <1>00, <1>6, <2>1, DigestStep
<1>7. ASSUME NEW c \in Changer, StatObject(c)
      PROVE  PutInv'
  <2>1. CASE sync' = [sync EXCEPT ![c] = NextFile(c)]
    <3>1. sync'[c].at = "put" /\ \A d \in Changer \ {c} : sync'[d] = sync[d]
      BY <1>0, <2>1, AfterFile, OneHandler
    <3> QED BY <1>00, <3>1 DEF Putting
  <2>2. CASE sync' = [sync EXCEPT ![c].at = "open"]
    <3>1. Absent \in Stored
      BY DEF Stored
    <3>2. /\ sync'[c].at = "open" /\ sync'[c].file = sync[c].file
          /\ sync'[c].digest = sync[c].digest
          /\ \A d \in Changer \ {c} : sync'[d] = sync[d]
      BY <2>2, <3>1, OpenStep
    <3>3. sync[c].file \in File /\ sync[c].digest \in Content
      BY <1>7 DEF StatObject, PutInv, Putting
    <3> QED BY <1>00, <3>2, <3>3
  <2> QED BY <1>7, <2>1, <2>2 DEF StatObject
<1>8. ASSUME NEW c \in Changer, Open(c)
      PROVE  PutInv'
  <2>1. sync[c].file \in File /\ sync[c].digest \in Content
    BY <1>8 DEF Open, PutInv, Putting
  <2>2. volume[sync[c].file] \in Content /\ volume[sync[c].file] \in Stored
    BY <1>8, <2>1 DEF Open, MirrorTypeOK, Stored
  <2>3. /\ sync'[c].file = sync[c].file /\ sync'[c].digest = sync[c].digest
        /\ sync'[c].body = volume[sync[c].file]
        /\ \A d \in Changer \ {c} : sync'[d] = sync[d]
    BY <1>8, OpenedStep
  <2> QED BY <1>00, <2>1, <2>2, <2>3
<1>9. ASSUME NEW c \in Changer, PutObject(c)
      PROVE  PutInv'
  <2>1. sync'[c].at = "put" /\ \A d \in Changer \ {c} : sync'[d] = sync[d]
    BY <1>0, <1>9, AfterFile, OneHandler DEF PutObject
  <2> QED BY <1>00, <2>1 DEF Putting
<1>10. ASSUME NEW c \in Changer, List(c)
       PROVE  PutInv'
  <2>1. sync'[c].at = "remove" /\ \A d \in Changer \ {c} : sync'[d] = sync[d]
    BY <1>10, ListedStep
  <2> QED BY <1>00, <2>1 DEF Putting
<1>11. ASSUME NEW c \in Changer, NEW f \in File, RemoveObsolete(c, f)
       PROVE  PutInv'
  BY <1>00, <1>11, RemoveStep DEF Putting
<1>12. ASSUME NEW c \in Changer, Synced(c) \/ Retry(c) \/ Abandon(c) \/ Startup(c)
       PROVE  PutInv'
  BY <1>2, <1>12 DEF Synced, Retry, Abandon, Startup, Begun
<1>13. CASE Crash
  BY <1>13 DEF Crash, PutInv, Idle, Putting
<1>14. CASE UNCHANGED sync
  BY <1>14 DEF PutInv
<1> QED
  BY <1>3, <1>4, <1>5, <1>6, <1>7, <1>8, <1>9, <1>10, <1>11, <1>12, <1>13, <1>14
     DEF MirrorNext, Recover, mirrorVars

----------------------------------------------------------------------------
(* Handlers                                                                *)

\* A step that leaves the volume and the mirror alone, and a handler as it was,
\* leaves what this handler has achieved.
LEMMA StillUndisturbed ==
  ASSUME NEW d \in Changer, Undisturbed(d),
         sync'[d] = sync[d], UNCHANGED <<volume, mirror>>
  PROVE  Undisturbed(d)'
BY DEF Undisturbed, Present

\* Handlers that become idle, the others as they were, keep the invariant.
LEMMA Retiring ==
  ASSUME MirrorTypeOK, MirrorTypeOK', HandlersInv,
         UNCHANGED <<volume, mirror>>,
         \A d \in Changer : sync'[d] \in {sync[d], Idle},
         server' = "down" => \A d \in Changer : sync'[d].at = "idle",
         server' = "starting" => server = "starting"
  PROVE  HandlersInv'
<1>1. \A d \in Changer : sync'[d].at # "idle" => sync'[d] = sync[d]
  BY DEF Idle
<1>2. \A d \in Changer : Active(d)' => sync'[d] = sync[d] /\ Active(d)
  BY <1>1 DEF Active
<1>3. \A d \in Changer : sync'[d].at = "idle" => sync'[d].alone
  BY DEF HandlersInv, Idle
<1>4. server' = "starting" =>
        \A d, e \in Changer : sync'[d].at # "idle" /\ sync'[e].at # "idle" => d = e
  BY <1>1 DEF HandlersInv
<1>5. \A d, e \in Changer : Active(d)' /\ Active(e)' => (sync'[d].alone <=> sync'[e].alone)
  BY <1>2 DEF HandlersInv
<1>6. \A d \in Changer : Active(d)' /\ sync'[d].alone => Undisturbed(d)'
  <2> SUFFICES ASSUME NEW d \in Changer, Active(d)', sync'[d].alone
               PROVE  Undisturbed(d)'
    OBVIOUS
  <2>1. sync'[d] = sync[d] /\ Active(d)
    BY <1>2
  <2>2. Undisturbed(d)
    BY <2>1 DEF HandlersInv
  <2> QED BY <2>1, <2>2, StillUndisturbed
<1> QED BY <1>3, <1>4, <1>5, <1>6 DEF HandlersInv

\* One handler starts to collect, the others as they were.
LEMMA Collecting ==
  ASSUME MirrorTypeOK, MirrorTypeOK', HandlersInv,
         NEW c \in Changer,
         UNCHANGED <<volume, mirror>>,
         sync'[c].at = "collect",
         \A d \in Changer \ {c} : sync'[d] = sync[d],
         server' # "down",
         server' = "starting" => \A d \in Changer \ {c} : sync[d].at = "idle"
  PROVE  HandlersInv'
<1>1. ~Active(c)'
  BY DEF Active
<1>2. \A d \in Changer : Active(d)' => d # c /\ sync'[d] = sync[d] /\ Active(d)
  BY <1>1 DEF Active
<1>3. \A d \in Changer : sync'[d].at = "idle" => sync'[d].alone
  BY DEF HandlersInv
<1>4. server' = "starting" =>
        \A d, e \in Changer : sync'[d].at # "idle" /\ sync'[e].at # "idle" => d = e
  OBVIOUS
<1>5. \A d, e \in Changer : Active(d)' /\ Active(e)' => (sync'[d].alone <=> sync'[e].alone)
  BY <1>2 DEF HandlersInv
<1>6. \A d \in Changer : Active(d)' /\ sync'[d].alone => Undisturbed(d)'
  <2> SUFFICES ASSUME NEW d \in Changer, Active(d)', sync'[d].alone
               PROVE  Undisturbed(d)'
    OBVIOUS
  <2>1. sync'[d] = sync[d] /\ Active(d)
    BY <1>2
  <2>2. Undisturbed(d)
    BY <2>1 DEF HandlersInv
  <2> QED BY <2>1, <2>2, StillUndisturbed
<1> QED BY <1>3, <1>4, <1>5, <1>6 DEF HandlersInv

\* A file changes below handlers, which may also start to collect.
LEMMA Disturbing ==
  ASSUME MirrorTypeOK, HandlersInv, NEW f \in File, server' = "up",
         \A d \in Changer : sync'[d] = Disturbed(d, f) \/ sync'[d] = Begun
  PROVE  HandlersInv'
<1>1. Begun.at = "collect"
  BY DEF Begun, Idle
<1>2. \A d \in Changer : Active(d)' => ~sync'[d].alone
  <2> SUFFICES ASSUME NEW d \in Changer, Active(d)' PROVE ~sync'[d].alone
    OBVIOUS
  <2>1. sync'[d] = Disturbed(d, f)
    BY <1>1 DEF Active
  <2>2. Active(d)
    BY <2>1, AfterChange DEF Active
  <2>3. Disturbed(d, f).alone = (sync[d].alone /\ ~Active(d))
    BY AfterChange, Zenon
  <2>4. ~Disturbed(d, f).alone
    BY <2>2, <2>3, Zenon
  <2> QED BY <2>1, <2>4, Zenon
<1>3. \A d \in Changer : sync'[d].at = "idle" => sync'[d].alone
  <2> SUFFICES ASSUME NEW d \in Changer, sync'[d].at = "idle" PROVE sync'[d].alone
    OBVIOUS
  <2>1. sync'[d] = Disturbed(d, f)
    BY <1>1
  <2>2. sync[d].at = "idle" /\ ~Active(d)
    BY <2>1, AfterChange DEF Active
  <2>3. sync[d].alone
    BY <2>2 DEF HandlersInv
  <2>4. Disturbed(d, f).alone = (sync[d].alone /\ ~Active(d))
    BY AfterChange, Zenon
  <2>5. Disturbed(d, f).alone
    BY <2>2, <2>3, <2>4, Zenon
  <2> QED BY <2>1, <2>5, Zenon
<1> QED BY <1>2, <1>3 DEF HandlersInv

\* One handler goes on, the server and the others as they were; whether it has had
\* the prefix for itself is what the other active handlers say of it.
LEMMA GoingOn ==
  ASSUME MirrorTypeOK, MirrorTypeOK', HandlersInv,
         NEW c \in Changer,
         UNCHANGED <<volume, server>>,
         sync[c].at # "idle", sync'[c].at \in PutLoop \cup {"remove"},
         \A d \in Changer \ {c} : sync'[d] = sync[d],
         \A d \in Changer \ {c} : Active(d) => (sync'[c].alone <=> sync[d].alone),
         \A d \in Changer : Active(d)' /\ sync'[d].alone => Undisturbed(d)'
  PROVE  HandlersInv'
<1>2. \A d \in Changer \ {c} : Active(d)' => Active(d)
  BY DEF Active
<1>3. \A d \in Changer : sync'[d].at = "idle" => sync'[d].alone
  BY DEF HandlersInv, PutLoop, Putting
<1>5. server' # "down"
  BY DEF HandlersInv
<1>6. server' = "starting" =>
        \A d, e \in Changer : sync'[d].at # "idle" /\ sync'[e].at # "idle" => d = e
  BY DEF HandlersInv
<1>7. ASSUME NEW d \in Changer, NEW e \in Changer, Active(d)', Active(e)'
      PROVE  sync'[d].alone <=> sync'[e].alone
  <2>1. CASE d = c /\ e = c
    BY <2>1
  <2>2. CASE d = c /\ e # c
    BY <1>2, <1>7, <2>2
  <2>3. CASE d # c /\ e = c
    BY <1>2, <1>7, <2>3
  <2>4. CASE d # c /\ e # c
    BY <1>2, <1>7, <2>4 DEF HandlersInv
  <2> QED BY <2>1, <2>2, <2>3, <2>4
<1> QED BY <1>3, <1>5, <1>6, <1>7 DEF HandlersInv

\* The same of an active handler that leaves the mirror alone.
LEMMA GoingOnQuietly ==
  ASSUME MirrorTypeOK, MirrorTypeOK', HandlersInv,
         NEW c \in Changer,
         UNCHANGED <<volume, mirror, server>>,
         Active(c), sync'[c].at \in PutLoop \cup {"remove"},
         sync'[c].alone = sync[c].alone,
         \A d \in Changer \ {c} : sync'[d] = sync[d],
         Undisturbed(c) => Undisturbed(c)'
  PROVE  HandlersInv'
<1>1. \A d \in Changer \ {c} : Active(d) => (sync'[c].alone <=> sync[d].alone)
  BY DEF HandlersInv
<1>2. ASSUME NEW d \in Changer, Active(d)', sync'[d].alone
      PROVE  Undisturbed(d)'
  <2>1. CASE d = c
    BY <1>2, <2>1 DEF HandlersInv
  <2>2. CASE d # c
    <3>1. sync'[d] = sync[d] /\ Active(d)
      BY <1>2, <2>2 DEF Active
    <3>2. Undisturbed(d)
      BY <1>2, <3>1 DEF HandlersInv
    <3> QED BY <3>1, <3>2, StillUndisturbed
  <2> QED BY <2>1, <2>2
<1> QED BY <1>1, <1>2, GoingOn DEF Active

LEMMA HandlersNext ==
  ASSUME MirrorTypeOK, MirrorTypeOK', PutInv, HandlersInv, StartupIsAlone,
         [MirrorNext]_mirrorVars
  PROVE  HandlersInv'
<1>0. sync \in [Changer -> Doing]
  BY DEF MirrorTypeOK, Doing
<1>1. ASSUME NEW c \in Changer, NEW f \in File, NEW s \in Stored, Change(c, f, s)
      PROVE  HandlersInv'
  BY <1>1, Disturbing DEF Change, Begun
<1>2. ASSUME NEW f \in File, NEW s \in Stored, ChangeUnmirrored(f, s)
      PROVE  HandlersInv'
  BY <1>2, Disturbing DEF ChangeUnmirrored
<1>3. ASSUME NEW f \in File, NEW s \in Stored, Recover(f, s)
      PROVE  HandlersInv'
  <2>1. \A d \in Changer : sync'[d].at = "idle" /\ ~Active(d)'
    BY <1>3 DEF Recover, HandlersInv, Active
  <2> QED BY <1>3, <2>1 DEF Recover, HandlersInv
<1>4. ASSUME NEW c \in Changer, Collect(c)
      PROVE  HandlersInv'
  <2>1. sync[c].at = "collect" /\ UNCHANGED <<volume, mirror, server>>
    BY <1>4 DEF Collect
  <2>2. /\ sync'[c].at = "put"
        /\ sync'[c].todo = Present(volume) /\ sync'[c].keep = Present(volume)
        /\ sync'[c].alone = \A d \in Changer : Active(d) => sync[d].alone
        /\ \A d \in Changer \ {c} : sync'[d] = sync[d]
    BY <1>4, CollectStep
  <2>3. \A d \in Changer \ {c} : Active(d) => (sync'[c].alone <=> sync[d].alone)
    BY <2>2 DEF HandlersInv
  <2>4. Undisturbed(c)'
    BY <2>1, <2>2 DEF Undisturbed, Present, Putting
  <2>5. ASSUME NEW d \in Changer, Active(d)', sync'[d].alone
        PROVE  Undisturbed(d)'
    <3>1. CASE d = c
      BY <2>4, <3>1
    <3>2. CASE d # c
      <4>1. sync'[d] = sync[d] /\ Active(d)
        BY <2>2, <2>5, <3>2 DEF Active
      <4>2. Undisturbed(d)
        BY <2>5, <4>1 DEF HandlersInv
      <4> QED BY <2>1, <4>1, <4>2, StillUndisturbed
    <3> QED BY <3>1, <3>2
  <2> QED BY <2>1, <2>2, <2>3, <2>5, GoingOn DEF PutLoop
<1>5. ASSUME NEW c \in Changer, NEW f \in File, Digest(c, f)
      PROVE  HandlersInv'
  <2>1. /\ sync[c].at = "put" /\ Active(c) /\ UNCHANGED <<volume, mirror, server>>
    BY <1>5 DEF Digest, Active
  <2>2. /\ sync'[c].at = "stat" /\ sync'[c].file = f /\ sync'[c].digest = volume[f]
        /\ sync'[c].todo = sync[c].todo /\ sync'[c].keep = sync[c].keep
        /\ sync'[c].alone = sync[c].alone
        /\ \A d \in Changer \ {c} : sync'[d] = sync[d]
    BY <1>5, DigestStep
  <2>3. Undisturbed(c) => Undisturbed(c)'
    BY <2>1, <2>2 DEF Undisturbed, Present, PutLoop, Putting
  <2> QED BY <2>1, <2>2, <2>3, GoingOnQuietly DEF PutLoop, Putting
<1>6. ASSUME NEW c \in Changer, StatObject(c)
      PROVE  HandlersInv'
  <2>1. /\ sync[c].at = "stat" /\ Active(c) /\ UNCHANGED <<volume, mirror, server>>
    BY <1>6 DEF StatObject, Active
  <2>2. CASE DigestOf(mirror[sync[c].file]) = sync[c].digest
    <3>1. /\ sync'[c].at = "put" /\ sync'[c].keep = sync[c].keep
          /\ sync'[c].todo = sync[c].todo \ {sync[c].file}
          /\ sync'[c].alone = sync[c].alone
          /\ \A d \in Changer \ {c} : sync'[d] = sync[d]
      BY <1>0, <1>6, <2>2, AfterFile, OneHandler DEF StatObject
    <3>2. Undisturbed(c) => Undisturbed(c)'
      BY <2>1, <2>2, <3>1 DEF Undisturbed, Present, PutLoop, Putting
    <3> QED BY <2>1, <3>1, <3>2, GoingOnQuietly DEF PutLoop, Putting
  <2>3. CASE DigestOf(mirror[sync[c].file]) # sync[c].digest
    <3>1. /\ sync'[c].at = "open" /\ sync'[c].keep = sync[c].keep
          /\ sync'[c].todo = sync[c].todo
          /\ sync'[c].file = sync[c].file /\ sync'[c].digest = sync[c].digest
          /\ sync'[c].alone = sync[c].alone
          /\ \A d \in Changer \ {c} : sync'[d] = sync[d]
      <4>1. Absent \in Stored
        BY DEF Stored
      <4> QED BY <1>6, <2>3, <4>1, OpenStep DEF StatObject
    <3>2. Undisturbed(c) => Undisturbed(c)'
      BY <2>1, <3>1 DEF Undisturbed, Present, PutLoop, Putting
    <3> QED BY <2>1, <3>1, <3>2, GoingOnQuietly DEF PutLoop, Putting
  <2> QED BY <2>2, <2>3
<1>7. ASSUME NEW c \in Changer, Open(c)
      PROVE  HandlersInv'
  <2>1. /\ sync[c].at = "open" /\ Active(c) /\ UNCHANGED <<volume, mirror, server>>
    BY <1>7 DEF Open, Active
  <2>2. /\ sync'[c].at = "send" /\ sync'[c].keep = sync[c].keep
        /\ sync'[c].todo = sync[c].todo
        /\ sync'[c].file = sync[c].file /\ sync'[c].digest = sync[c].digest
        /\ sync'[c].alone = sync[c].alone
        /\ \A d \in Changer \ {c} : sync'[d] = sync[d]
    BY <1>7, OpenedStep
  <2>3. Undisturbed(c) => Undisturbed(c)'
    BY <2>1, <2>2 DEF Undisturbed, Present, PutLoop, Putting
  <2> QED BY <2>1, <2>2, <2>3, GoingOnQuietly DEF PutLoop, Putting
<1>8. ASSUME NEW c \in Changer, PutObject(c)
      PROVE  HandlersInv'
  <2> DEFINE f == sync[c].file
  <2>1. /\ sync[c].at = "send" /\ Active(c) /\ UNCHANGED <<volume, server>>
        /\ mirror' = [mirror EXCEPT ![f] = [body |-> sync[c].body, digest |-> sync[c].digest]]
    BY <1>8 DEF PutObject, Active
  <2>2. /\ sync'[c].at = "put" /\ sync'[c].keep = sync[c].keep
        /\ sync'[c].todo = sync[c].todo \ {f}
        /\ sync'[c].alone = sync[c].alone
        /\ \A d \in Changer \ {c} : sync'[d] = sync[d]
    BY <1>0, <1>8, AfterFile, OneHandler DEF PutObject
  <2>3. f \in File /\ sync[c].digest \in Content /\ sync[c].body \in Content
    BY <2>1 DEF PutInv, Putting
  <2>4. /\ DigestOf(mirror'[f]) = sync[c].digest
        /\ \A g \in File \ {f} : mirror'[g] = mirror[g]
    BY <2>1, <2>3, ObjectMirrorAssumption DEF MirrorTypeOK, DigestOf
  <2>5. \A d \in Changer \ {c} : Active(d) => (sync'[c].alone <=> sync[d].alone)
    BY <2>1, <2>2 DEF HandlersInv
  <2>6. ASSUME NEW d \in Changer, Active(d)', sync'[d].alone
        PROVE  Undisturbed(d)'
    <3>1. Active(d) /\ sync[d].alone
      BY <2>1, <2>2, <2>6 DEF Active
    <3>2. Undisturbed(d) /\ Undisturbed(c)
      BY <2>1, <3>1 DEF HandlersInv
    <3>3. DigestOf(mirror'[f]) = volume[f]
      BY <2>1, <2>4, <3>2 DEF Undisturbed, Putting
    <3>4. f \in Present(volume)
      BY <2>1, <2>3, <3>2, ObjectMirrorAssumption DEF Undisturbed, Putting, Present
    <3>5. Present(volume)' = Present(volume) /\ Present(volume) \in SUBSET File
      BY <2>1 DEF Present
    <3> HIDE DEF f
    <3>6. CASE d = c
      <4>1. \A g \in Present(volume) : g \in sync'[c].todo \/ DigestOf(mirror'[g]) = volume[g]
        BY <2>1, <2>2, <2>4, <3>2, <3>3, <3>5 DEF Undisturbed, PutLoop, Putting
      <4> QED BY <2>1, <2>2, <3>2, <3>5, <3>6, <4>1 DEF Undisturbed, PutLoop, Putting
    <3>7. CASE d # c
      <4>1. sync'[d] = sync[d]
        BY <2>2, <3>7
      <4> QED BY <2>1, <2>4, <3>2, <3>3, <3>4, <3>5, <4>1 DEF Undisturbed
    <3> QED BY <3>6, <3>7
  <2> HIDE DEF f
  <2> QED BY <2>1, <2>2, <2>5, <2>6, GoingOn DEF PutLoop, Active
<1>9. ASSUME NEW c \in Changer, List(c)
      PROVE  HandlersInv'
  <2>1. /\ sync[c].at = "put" /\ Active(c) /\ sync[c].todo = {}
        /\ UNCHANGED <<volume, mirror, server>>
    BY <1>9 DEF List, Active
  <2>2. Present(mirror) \ sync[c].keep \in SUBSET File
    BY DEF Present
  <2>3. /\ sync'[c].at = "remove" /\ sync'[c].alone = sync[c].alone
        /\ sync'[c].todo = Present(mirror) \ sync[c].keep /\ sync'[c].keep = sync[c].keep
        /\ \A d \in Changer \ {c} : sync'[d] = sync[d]
    <3> DEFINE m == Present(mirror) \ sync[c].keep
    <3>1. sync' = [sync EXCEPT ![c].at = "remove", ![c].todo = m]
      BY <1>9 DEF List
    <3>2. m \in SUBSET File
      BY <2>2
    <3> HIDE DEF m
    <3>3. /\ sync'[c].at = "remove" /\ sync'[c].alone = sync[c].alone
          /\ sync'[c].todo = m /\ sync'[c].keep = sync[c].keep
          /\ \A d \in Changer \ {c} : sync'[d] = sync[d]
      BY <2>1, <3>1, <3>2, ListStep
    <3> QED BY <3>3 DEF m
  <2>4. Undisturbed(c) => Undisturbed(c)'
    BY <2>1, <2>3 DEF Undisturbed, Present, PutLoop, Putting
  <2> QED BY <2>1, <2>3, <2>4, GoingOnQuietly
<1>10. ASSUME NEW c \in Changer, NEW f \in File, RemoveObsolete(c, f)
       PROVE  HandlersInv'
  <2>1. /\ sync[c].at = "remove" /\ Active(c) /\ f \in sync[c].todo
        /\ UNCHANGED <<volume, server>>
        /\ mirror' = [mirror EXCEPT ![f] = Absent]
    BY <1>10 DEF RemoveObsolete, Active
  <2>2. /\ sync'[c].at = "remove" /\ sync'[c].alone = sync[c].alone
        /\ sync'[c].todo = sync[c].todo \ {f} /\ sync'[c].keep = sync[c].keep
        /\ \A d \in Changer \ {c} : sync'[d] = sync[d]
    BY <1>10, RemoveStep
  <2>3. \A d \in Changer \ {c} : Active(d) => (sync'[c].alone <=> sync[d].alone)
    BY <2>1, <2>2 DEF HandlersInv
  <2>4. ASSUME NEW d \in Changer, Active(d)', sync'[d].alone
        PROVE  Undisturbed(d)'
    <3>1. Active(d) /\ sync[d].alone
      BY <2>1, <2>2, <2>4 DEF Active
    <3>2. Undisturbed(d) /\ Undisturbed(c)
      BY <2>1, <3>1 DEF HandlersInv
    <3>3. f \notin Present(volume)
      BY <2>1, <3>2 DEF Undisturbed
    <3>4. mirror'[f] = Absent /\ \A g \in File \ {f} : mirror'[g] = mirror[g]
      BY <2>1 DEF MirrorTypeOK
    <3>5. Present(volume)' = Present(volume) /\ Present(volume) \in SUBSET File
      BY <2>1 DEF Present
    <3>6. CASE d = c
      BY <2>1, <2>2, <3>2, <3>3, <3>4, <3>5, <3>6 DEF Undisturbed, PutLoop, Putting
    <3>7. CASE d # c
      <4>1. sync'[d] = sync[d]
        BY <2>2, <3>7
      <4> QED BY <2>1, <3>2, <3>3, <3>4, <3>5, <4>1 DEF Undisturbed
    <3> QED BY <3>6, <3>7
  <2> QED BY <2>1, <2>2, <2>3, <2>4, GoingOn
<1>11. ASSUME NEW c \in Changer, Synced(c)
       PROVE  HandlersInv'
  <2>1. UNCHANGED <<volume, mirror>> /\ server' = "up"
    BY <1>11 DEF Synced
  <2>2. \A d \in Changer : sync'[d] \in {sync[d], Idle}
    BY <1>11 DEF Synced, MirrorTypeOK
  <2> QED BY <2>1, <2>2, Retiring
<1>12. ASSUME NEW c \in Changer, Retry(c)
       PROVE  HandlersInv'
  <2>1. UNCHANGED <<volume, mirror>> /\ server' = "up"
    BY <1>12 DEF Retry
  <2>2. sync'[c].at = "collect" /\ \A d \in Changer \ {c} : sync'[d] = sync[d]
    BY <1>12 DEF Retry, MirrorTypeOK, Idle
  <2> QED BY <2>1, <2>2, Collecting
<1>13. ASSUME NEW c \in Changer, Abandon(c)
       PROVE  HandlersInv'
  <2>1. UNCHANGED <<volume, mirror>> /\ sync[c].at # "idle" /\ server # "down"
    BY <1>13 DEF Abandon, HandlersInv
  <2>2. sync'[c] = Idle /\ \A d \in Changer \ {c} : sync'[d] = sync[d]
    BY <1>13 DEF Abandon, MirrorTypeOK
  <2>3. \A d \in Changer : sync'[d] \in {sync[d], Idle}
    BY <2>2
  <2>4. server' = "down" => server = "starting"
    BY <1>13, <2>1 DEF Abandon
  <2>5. server' = "starting" => server = "starting"
    BY <1>13 DEF Abandon
  <2>6. server' = "down" => \A d \in Changer : sync'[d].at = "idle"
    BY <2>1, <2>2, <2>4 DEF HandlersInv, Idle
  <2> QED BY <2>1, <2>3, <2>5, <2>6, Retiring
<1>14. ASSUME NEW c \in Changer, Startup(c)
       PROVE  HandlersInv'
  <2>1. /\ sync'[c].at = "collect" /\ server' = "starting"
        /\ UNCHANGED <<volume, mirror>>
        /\ \A d \in Changer \ {c} : sync'[d] = sync[d]
    BY <1>14 DEF Startup, MirrorTypeOK, Idle
  <2>2. \A d \in Changer \ {c} : sync[d].at = "idle"
    BY <1>14 DEF Startup, HandlersInv
  <2> QED BY <2>1, <2>2, Collecting
<1>15. CASE Crash
  <2>1. \A d \in Changer : sync'[d] = Idle
    BY <1>15 DEF Crash
  <2>2. UNCHANGED <<volume, mirror>> /\ server' = "down"
    BY <1>15 DEF Crash
  <2> QED BY <2>1, <2>2, Retiring DEF Idle
<1>16. CASE UNCHANGED mirrorVars
  <2>1. UNCHANGED <<volume, mirror, server, sync>>
    BY <1>16 DEF mirrorVars
  <2> QED BY <2>1 DEF HandlersInv, Active, Undisturbed, Present
<1> QED
  BY <1>1, <1>2, <1>3, <1>4, <1>5, <1>6, <1>7, <1>8, <1>9, <1>10, <1>11, <1>12, <1>13,
     <1>14, <1>15, <1>16 DEF MirrorNext

----------------------------------------------------------------------------
(* Digests                                                                 *)

LEMMA DigestInvNext ==
  ASSUME MirrorTypeOK, PutInv, HandlersInv, DigestInv, [MirrorNext]_mirrorVars
  PROVE  DigestInv'
<1>0. sync \in [Changer -> Doing]
  BY DEF MirrorTypeOK, Doing
<1> DEFINE Current(d) ==
      ~sync[d].stale =>
        /\ sync[d].at \in {"stat", "open"} => sync[d].digest = volume[sync[d].file]
        /\ sync[d].at = "send" => sync[d].body = sync[d].digest
<1>00. ASSUME UNCHANGED <<mirror, crossed>>, \A d \in Changer : Current(d)'
       PROVE  DigestInv'
  BY <1>00 DEF DigestInv
<1>01. ASSUME NEW c \in Changer, UNCHANGED volume, Current(c)',
              \A d \in Changer \ {c} : sync'[d] = sync[d]
       PROVE  \A d \in Changer : Current(d)'
  BY <1>01 DEF DigestInv
<1>1. ASSUME NEW f \in File, NEW s \in Stored, volume' = [volume EXCEPT ![f] = s],
             \A d \in Changer : sync'[d] = Disturbed(d, f) \/ sync'[d] = Begun
      PROVE  \A d \in Changer : Current(d)'
  <2> SUFFICES ASSUME NEW d \in Changer PROVE Current(d)'
    OBVIOUS
  <2>1. CASE sync'[d] = Begun
    BY <2>1 DEF Begun, Idle
  <2>2. CASE sync'[d] = Disturbed(d, f)
    <3> SUFFICES ASSUME ~sync'[d].stale PROVE Current(d)'
      OBVIOUS
    <3>1. /\ sync'[d].at = sync[d].at /\ sync'[d].file = sync[d].file
          /\ sync'[d].digest = sync[d].digest /\ sync'[d].body = sync[d].body
      BY <2>2, AfterChange
    <3>2. Disturbed(d, f).stale =
            (sync[d].stale \/ (sync[d].at \in {"stat", "open"} /\ sync[d].file = f))
      BY AfterChange, Zenon
    <3>3. ~(sync[d].stale \/ (sync[d].at \in {"stat", "open"} /\ sync[d].file = f))
      BY <2>2, <3>2, Zenon
    <3>4. ~sync[d].stale
      BY <3>3, Zenon
    <3>5. sync[d].at \in {"stat", "open"} => sync[d].file # f
      BY <3>3, Zenon
    <3>6. sync[d].at \in {"stat", "open"} => sync[d].file \in File
      BY DEF PutInv, Putting
    <3>7. sync[d].at \in {"stat", "open"} => volume'[sync[d].file] = volume[sync[d].file]
      BY <1>1, <3>5, <3>6 DEF MirrorTypeOK
    <3> QED BY <3>1, <3>4, <3>7 DEF DigestInv
  <2> QED BY <1>1, <2>1, <2>2
<1>2. ASSUME NEW c \in Changer, NEW r \in {Idle, Begun}, sync' = [sync EXCEPT ![c] = r],
             UNCHANGED <<volume, mirror, crossed>>
      PROVE  DigestInv'
  <2>1. sync'[c] = r /\ \A d \in Changer \ {c} : sync'[d] = sync[d]
    BY <1>0, <1>2
  <2>2. Current(c)'
    BY <2>1 DEF Idle, Begun
  <2> QED BY <1>00, <1>01, <1>2, <2>1, <2>2
<1>3. ASSUME NEW c \in Changer, NEW f \in File, NEW s \in Stored, Change(c, f, s)
      PROVE  DigestInv'
  BY <1>00, <1>1, <1>3 DEF Change, Begun
<1>4. ASSUME NEW f \in File, NEW s \in Stored, ChangeUnmirrored(f, s)
      PROVE  DigestInv'
  BY <1>00, <1>1, <1>4 DEF ChangeUnmirrored
<1>5. ASSUME NEW f \in File, NEW s \in Stored, Recover(f, s)
      PROVE  DigestInv'
  <2>1. \A d \in Changer : sync'[d] = sync[d] /\ sync[d].at = "idle"
    BY <1>5 DEF Recover, HandlersInv
  <2>2. \A d \in Changer : Current(d)'
    BY <2>1
  <2> QED BY <1>00, <1>5, <2>2 DEF Recover
<1>6. ASSUME NEW c \in Changer, Collect(c)
      PROVE  DigestInv'
  <2>1. sync'[c].at = "put" /\ \A d \in Changer \ {c} : sync'[d] = sync[d]
    BY <1>6, CollectStep
  <2> QED BY <1>00, <1>01, <1>6, <2>1 DEF Collect
<1>7. ASSUME NEW c \in Changer, NEW f \in File, Digest(c, f)
      PROVE  DigestInv'
  <2>1. /\ sync'[c].at = "stat" /\ sync'[c].file = f /\ sync'[c].digest = volume[f]
        /\ \A d \in Changer \ {c} : sync'[d] = sync[d]
    BY <1>7, DigestStep
  <2> QED BY <1>00, <1>01, <1>7, <2>1 DEF Digest
<1>8. ASSUME NEW c \in Changer, StatObject(c)
      PROVE  DigestInv'
  <2>1. CASE sync' = [sync EXCEPT ![c] = NextFile(c)]
    <3>1. sync'[c].at = "put" /\ \A d \in Changer \ {c} : sync'[d] = sync[d]
      BY <1>0, <2>1, AfterFile, OneHandler
    <3> QED BY <1>00, <1>01, <1>8, <3>1 DEF StatObject
  <2>2. CASE sync' = [sync EXCEPT ![c].at = "open"]
    <3>1. Absent \in Stored
      BY DEF Stored
    <3>2. /\ sync'[c].at = "open" /\ sync'[c].file = sync[c].file
          /\ sync'[c].digest = sync[c].digest
          /\ \A d \in Changer \ {c} : sync'[d] = sync[d]
      BY <2>2, <3>1, OpenStep
    <3>3. sync'[c].stale = sync[c].stale
      BY <2>2, <3>1, OpenStep
    <3>4. Current(c)'
      BY <1>8, <3>2, <3>3 DEF StatObject, DigestInv
    <3> QED BY <1>00, <1>01, <1>8, <3>2, <3>4 DEF StatObject
  <2> QED BY <1>8, <2>1, <2>2 DEF StatObject
<1>9. ASSUME NEW c \in Changer, Open(c)
      PROVE  DigestInv'
  <2>1. /\ sync'[c].at = "send" /\ sync'[c].digest = sync[c].digest
        /\ sync'[c].body = volume[sync[c].file]
        /\ \A d \in Changer \ {c} : sync'[d] = sync[d]
    BY <1>9, OpenedStep
  <2>2. sync'[c].stale = sync[c].stale
    BY <1>9, OpenedStep
  <2>3. Current(c)'
    BY <1>9, <2>1, <2>2 DEF Open, DigestInv
  <2> QED BY <1>00, <1>01, <1>9, <2>1, <2>3 DEF Open
<1>10. ASSUME NEW c \in Changer, PutObject(c)
       PROVE  DigestInv'
  <2> DEFINE f == sync[c].file
             o == [body |-> sync[c].body, digest |-> sync[c].digest]
  <2>1. sync'[c].at = "put" /\ \A d \in Changer \ {c} : sync'[d] = sync[d]
    BY <1>0, <1>10, AfterFile, OneHandler DEF PutObject
  <2>2. \A d \in Changer : Current(d)'
    BY <1>01, <1>10, <2>1 DEF PutObject
  <2>3. f \in File /\ o \in [body : Content, digest : Content]
    BY <1>10 DEF PutObject, PutInv, Putting
  <2>4. o # Absent
    BY <2>3, ObjectMirrorAssumption
  <2>5. mirror'[f] = o /\ \A g \in File \ {f} : mirror'[g] = mirror[g]
    BY <1>10, <2>3 DEF PutObject, MirrorTypeOK
  <2>6. ~sync[c].stale => BodyOf(o) = DigestOf(o)
    BY <1>10, <2>4 DEF PutObject, DigestInv, BodyOf, DigestOf
  <2>7. \A g \in File \ crossed' : BodyOf(mirror'[g]) = DigestOf(mirror'[g])
    <3> SUFFICES ASSUME NEW g \in File \ crossed'
                 PROVE  BodyOf(mirror'[g]) = DigestOf(mirror'[g])
      OBVIOUS
    <3>1. CASE g = f
      <4>1. ~sync[c].stale
        BY <1>10, <3>1 DEF PutObject
      <4> QED BY <2>5, <2>6, <3>1, <4>1
    <3>2. CASE g # f
      <4>1. g \notin crossed
        BY <1>10, <3>2 DEF PutObject
      <4> QED BY <2>5, <3>2, <4>1 DEF DigestInv
    <3> QED BY <3>1, <3>2
  <2> QED BY <2>2, <2>7 DEF DigestInv
<1>11. ASSUME NEW c \in Changer, List(c)
       PROVE  DigestInv'
  <2>1. sync'[c].at = "remove" /\ \A d \in Changer \ {c} : sync'[d] = sync[d]
    BY <1>11, ListedStep
  <2> QED BY <1>00, <1>01, <1>11, <2>1 DEF List
<1>12. ASSUME NEW c \in Changer, NEW f \in File, RemoveObsolete(c, f)
       PROVE  DigestInv'
  <2>1. sync'[c].at = "remove" /\ \A d \in Changer \ {c} : sync'[d] = sync[d]
    BY <1>12, RemoveStep
  <2>2. \A d \in Changer : Current(d)'
    BY <1>01, <1>12, <2>1 DEF RemoveObsolete
  <2>3. mirror'[f] = Absent /\ \A g \in File \ {f} : mirror'[g] = mirror[g]
    BY <1>12 DEF RemoveObsolete, MirrorTypeOK
  <2>4. \A g \in File \ crossed' : BodyOf(mirror'[g]) = DigestOf(mirror'[g])
    <3>1. BodyOf(Absent) = DigestOf(Absent)
      BY DEF BodyOf, DigestOf
    <3> QED BY <1>12, <2>3, <3>1 DEF RemoveObsolete, DigestInv
  <2> QED BY <2>2, <2>4 DEF DigestInv
<1>13. ASSUME NEW c \in Changer, Synced(c) \/ Retry(c) \/ Abandon(c) \/ Startup(c)
       PROVE  DigestInv'
  BY <1>2, <1>13 DEF Synced, Retry, Abandon, Startup, Begun
<1>14. CASE Crash
  <2>1. \A d \in Changer : Current(d)'
    BY <1>14 DEF Crash, Idle
  <2> QED BY <1>00, <1>14, <2>1 DEF Crash
<1>15. CASE UNCHANGED mirrorVars
  BY <1>15 DEF DigestInv, mirrorVars
<1> QED
  BY <1>3, <1>4, <1>5, <1>6, <1>7, <1>8, <1>9, <1>10, <1>11, <1>12, <1>13, <1>14, <1>15
     DEF MirrorNext

----------------------------------------------------------------------------
(* The mirror                                                              *)

LEMMA MirrorInvNext ==
  ASSUME MirrorTypeOK, MirrorTypeOK', PutInv, HandlersInv, HandlersInv', DigestInv', MirrorInv,
         [MirrorNext]_mirrorVars
  PROVE  MirrorInv'
<1>0. sync \in [Changer -> Doing]
  BY DEF MirrorTypeOK, Doing
<1>1. ASSUME NEW c \in Changer, sync'[c].at # "idle", server' = "up"
      PROVE  MirrorInv'
  BY <1>1 DEF MirrorInv, MirrorFollows, StartupIsAlone
<1>2. ASSUME NEW c \in Changer, sync'[c].at # "idle",
             server' = server,
             \A d \in Changer \ {c} : sync'[d] = sync[d],
             server = "starting" => sync'[c].alone
      PROVE  MirrorInv'
  BY <1>2 DEF MirrorInv, MirrorFollows, StartupIsAlone
<1>3. ASSUME server' # "starting", server' = "up" => adrift'
      PROVE  MirrorInv'
  BY <1>3 DEF MirrorInv, MirrorFollows, StartupIsAlone
<1>4. ASSUME NEW c \in Changer, NEW f \in File, NEW s \in Stored, Change(c, f, s)
      PROVE  MirrorInv'
  <2>1. sync'[c].at = "collect" /\ server' = "up"
    BY <1>4 DEF Change, MirrorTypeOK, Idle
  <2> QED BY <1>1, <2>1
<1>5. ASSUME NEW f \in File, NEW s \in Stored, ChangeUnmirrored(f, s) \/ Recover(f, s)
      PROVE  MirrorInv'
  BY <1>3, <1>5 DEF ChangeUnmirrored, Recover
<1>6. ASSUME NEW c \in Changer, Collect(c)
      PROVE  MirrorInv'
  <2>1. /\ sync'[c].at = "put"
        /\ sync'[c].alone = \A d \in Changer : Active(d) => sync[d].alone
        /\ \A d \in Changer \ {c} : sync'[d] = sync[d]
    BY <1>6, CollectStep
  <2>2. server = "starting" => sync'[c].alone
    BY <2>1 DEF MirrorInv, StartupIsAlone
  <2> QED BY <1>2, <1>6, <2>1, <2>2 DEF Collect
<1>7. ASSUME NEW c \in Changer, server' = server, sync'[c].at # "idle",
             sync'[c].alone = sync[c].alone,
             \A d \in Changer \ {c} : sync'[d] = sync[d]
      PROVE  MirrorInv'
  BY <1>2, <1>7 DEF MirrorInv, StartupIsAlone
<1>8. ASSUME NEW c \in Changer, NEW f \in File, Digest(c, f)
      PROVE  MirrorInv'
  BY <1>7, <1>8, DigestStep DEF Digest
<1>9. ASSUME NEW c \in Changer, StatObject(c)
      PROVE  MirrorInv'
  <2>1. CASE sync' = [sync EXCEPT ![c] = NextFile(c)]
    <3>1. /\ sync'[c].at = "put" /\ sync'[c].alone = sync[c].alone
          /\ \A d \in Changer \ {c} : sync'[d] = sync[d]
      BY <1>0, <2>1, AfterFile, OneHandler
    <3> QED BY <1>7, <1>9, <3>1 DEF StatObject
  <2>2. CASE sync' = [sync EXCEPT ![c].at = "open"]
    <3>1. Absent \in Stored
      BY DEF Stored
    <3>2. /\ sync'[c].at = "open" /\ sync'[c].alone = sync[c].alone
          /\ \A d \in Changer \ {c} : sync'[d] = sync[d]
      BY <2>2, <3>1, OpenStep
    <3> QED BY <1>7, <1>9, <3>2 DEF StatObject
  <2> QED BY <1>9, <2>1, <2>2 DEF StatObject
<1>10. ASSUME NEW c \in Changer, Open(c)
       PROVE  MirrorInv'
  <2>1. /\ sync'[c].at = "send" /\ sync'[c].alone = sync[c].alone
        /\ \A d \in Changer \ {c} : sync'[d] = sync[d]
    BY <1>10, OpenedStep
  <2> QED BY <1>7, <1>10, <2>1 DEF Open
<1>11. ASSUME NEW c \in Changer, PutObject(c)
       PROVE  MirrorInv'
  <2>1. /\ sync'[c].at = "put" /\ sync'[c].alone = sync[c].alone
        /\ \A d \in Changer \ {c} : sync'[d] = sync[d]
    BY <1>0, <1>11, AfterFile, OneHandler DEF PutObject
  <2> QED BY <1>7, <1>11, <2>1 DEF PutObject
<1>12. ASSUME NEW c \in Changer, List(c)
       PROVE  MirrorInv'
  <2>1. /\ sync'[c].at = "remove" /\ sync'[c].alone = sync[c].alone
        /\ \A d \in Changer \ {c} : sync'[d] = sync[d]
    BY <1>12, ListedStep
  <2> QED BY <1>7, <1>12, <2>1 DEF List
<1>13. ASSUME NEW c \in Changer, NEW f \in File, RemoveObsolete(c, f)
       PROVE  MirrorInv'
  BY <1>7, <1>13, RemoveStep DEF RemoveObsolete
<1>14. ASSUME NEW c \in Changer, Synced(c)
       PROVE  MirrorInv'
  <2>1. /\ sync[c].at = "remove" /\ sync[c].todo = {} /\ server' = "up"
        /\ UNCHANGED <<volume, mirror>>
    BY <1>14 DEF Synced
  <2>2. adrift' = ~sync[c].alone
    BY <1>14, Zenon DEF Synced
  <2>3. ASSUME sync[c].alone
        PROVE  \A f \in File : /\ DigestOf(mirror'[f]) = volume'[f]
                               /\ f \notin crossed' => BodyOf(mirror'[f]) = volume'[f]
    <3>1. Undisturbed(c)
      BY <2>1, <2>3 DEF HandlersInv, Active
    <3>2. \A f \in File : DigestOf(mirror[f]) = volume[f]
      BY <2>1, <3>1 DEF Undisturbed, Present, DigestOf
    <3>3. \A f \in File \ crossed' : BodyOf(mirror'[f]) = DigestOf(mirror'[f])
      BY DEF DigestInv
    <3> QED BY <2>1, <3>2, <3>3
  <2> QED BY <2>1, <2>2, <2>3 DEF MirrorInv, MirrorFollows, StartupIsAlone
<1>15. ASSUME NEW c \in Changer, Retry(c)
       PROVE  MirrorInv'
  <2>1. sync'[c].at = "collect" /\ server' = "up"
    BY <1>15 DEF Retry, MirrorTypeOK, Idle
  <2> QED BY <1>1, <2>1
<1>16. ASSUME NEW c \in Changer, Abandon(c)
       PROVE  MirrorInv'
  BY <1>3, <1>16 DEF Abandon
<1>17. ASSUME NEW c \in Changer, Startup(c)
       PROVE  MirrorInv'
  <2>1. server' = "starting"
    BY <1>17 DEF Startup
  <2>2. \A d \in Changer : sync'[d].alone
    BY <1>17 DEF Startup, HandlersInv, MirrorTypeOK, Idle
  <2> QED BY <2>1, <2>2 DEF MirrorInv, MirrorFollows, StartupIsAlone
<1>18. CASE Crash
  BY <1>3, <1>18 DEF Crash
<1>19. CASE UNCHANGED mirrorVars
  BY <1>19 DEF mirrorVars, MirrorInv, MirrorFollows, StartupIsAlone
<1> QED
  BY <1>4, <1>5, <1>6, <1>8, <1>9, <1>10, <1>11, <1>12, <1>13, <1>14, <1>15, <1>16, <1>17,
     <1>18, <1>19 DEF MirrorNext

LEMMA MirrorInitIInv == MirrorInit => MirrorIInv
<1> SUFFICES ASSUME MirrorInit PROVE MirrorIInv
  OBVIOUS
<1>1. MirrorTypeOK
  <2>1. sync \in [Changer -> Doing]
    BY DoingRecords DEF MirrorInit
  <2> QED BY <2>1 DEF MirrorInit, MirrorTypeOK, Doing
<1>2. HandlersInv /\ PutInv
  BY DEF MirrorInit, HandlersInv, PutInv, Putting, Active, Idle
<1>3. DigestInv
  BY DEF MirrorInit, DigestInv, Idle, BodyOf, DigestOf
<1> QED
  BY <1>1, <1>2, <1>3 DEF MirrorInit, MirrorIInv, MirrorInv, MirrorFollows, StartupIsAlone

\* The inductive invariant of the mirror: one process works at a startup; handlers
\* at work agree on whether they have been disturbed, and one that has not been has
\* put, under their digests, and kept what the volume holds; an object differs from
\* its digest only if its file changed between the digest and the opening.
THEOREM MirrorInvariant == MirrorSpec => []MirrorIInv
<1>1. MirrorIInv /\ [MirrorNext]_mirrorVars => MirrorIInv'
  <2> SUFFICES ASSUME MirrorIInv, [MirrorNext]_mirrorVars
               PROVE  MirrorIInv'
    OBVIOUS
  <2>1. MirrorTypeOK'
    BY MirrorTypeNext DEF MirrorIInv
  <2>2. PutInv'
    BY PutInvNext DEF MirrorIInv
  <2>3. HandlersInv'
    BY <2>1, HandlersNext DEF MirrorIInv, MirrorInv
  <2>4. DigestInv'
    BY DigestInvNext DEF MirrorIInv
  <2>5. MirrorInv'
    BY <2>1, <2>3, <2>4, MirrorInvNext DEF MirrorIInv
  <2> QED BY <2>1, <2>2, <2>3, <2>4, <2>5 DEF MirrorIInv
<1> QED BY <1>1, MirrorInitIInv, PTL DEF MirrorSpec

\* Handlers are at a step of SyncGameDirectory, with the files that are left, and
\* objects have a body and a digest.
THEOREM MirrorTypeCorrect == MirrorSpec => []MirrorTypeOK
<1>1. MirrorIInv => MirrorTypeOK
  BY DEF MirrorIInv
<1> QED BY <1>1, MirrorInvariant, PTL

\* For any files, any number of handlers and of attempts: when nothing is under way
\* and the last synchronisation was neither crossed nor followed by a change that
\* nobody mirrors, the digests of the objects are those of the files, and so are the
\* contents but for files that changed while they were put; and the reconciliation
\* of a startup is never crossed.
THEOREM MirrorCorrect == MirrorSpec => []MirrorInv
<1>1. MirrorIInv => MirrorInv
  BY DEF MirrorIInv
<1> QED BY <1>1, MirrorInvariant, PTL

----------------------------------------------------------------------------
(* PlayerServices                                                          *)

\* The keys that hold a value.
KeysOf(f) == {k \in DataKey : f[k] # 0}

\* A request that has been authorised is about a game and a key, and one that
\* writes has a value to write.
CallsInv ==
  \A c \in Client :
    call[c].at # "none" => /\ call[c].game # 0 /\ call[c].key \in DataKey
                           /\ call[c].op = "put" => call[c].size # 0

\* A transaction that has counted holds the write lock, and what it has counted
\* is so when it writes.
CountedInv ==
  \A c \in Client :
    call[c].at = "counted" =>
      /\ writer /\ call[c].op = "put"
      /\ call[c].yes /\ call[c].game = id => HasRoom(rows, call[c].key, call[c].size)

OneWriter ==
  \A c, d \in Client : call[c].at = "counted" /\ call[d].at = "counted" => c = d

\* The quota counts finite sets, and a published game has an id.
Countable == /\ IsFiniteSet(KeysOf(rows)) /\ IsFiniteSet(BytesOf(rows))
             /\ public => id # 0

ServicesIInv == /\ ServicesTypeOK /\ CallsInv /\ CountedInv /\ OneWriter
                /\ Countable /\ PlayerDataInv

----------------------------------------------------------------------------
(* Counting keys and bytes                                                 *)

LEMMA Bounds ==
  /\ MaxKeys \in Nat /\ MaxValue \in Nat /\ MaxTotal \in Nat
  /\ MaxIds \in Nat /\ MaxTickets \in Nat
BY PlayerServicesAssumption

\* A value of n bytes counts as n.
LEMMA ValueCounts ==
  ASSUME NEW k, NEW n \in Nat
  PROVE  IsFiniteSet({k} \X (1 .. n)) /\ Cardinality({k} \X (1 .. n)) = n
<1>1. IsFiniteSet(1 .. n) /\ Cardinality(1 .. n) = n
  <2>1. 1 \in Int /\ n \in Int
    OBVIOUS
  <2> QED BY <2>1, FS_Interval
<1>2. IsFiniteSet({k}) /\ Cardinality({k}) = 1
  BY FS_Singleton
<1> DEFINE K == {k}
           B == 1 .. n
<1>3. IsFiniteSet(K) /\ IsFiniteSet(B)
  BY <1>1, <1>2
<1>5. IsFiniteSet(K \X B) /\ Cardinality(K \X B) = Cardinality(K) * Cardinality(B)
  <2> HIDE DEF K, B
  <2> QED BY <1>3, FS_Product
<1> QED BY <1>1, <1>2, <1>5

\* The bytes are those of one key and those of the others.
LEMMA BytesSplit ==
  ASSUME NEW f \in [DataKey -> 0 .. MaxValue], NEW k \in DataKey,
         IsFiniteSet({b \in BytesOf(f) : b[1] # k})
  PROVE  /\ IsFiniteSet(BytesOf(f))
         /\ TotalOf(f) = f[k] + Cardinality({b \in BytesOf(f) : b[1] # k})
<1> DEFINE Own == {k} \X (1 .. f[k])
           Rest == {b \in BytesOf(f) : b[1] # k}
<1>0. f[k] \in Nat /\ f[k] <= MaxValue
  BY Bounds
<1>1. BytesOf(f) = Own \cup Rest
  BY <1>0, Bounds DEF BytesOf
<1>2. Own \cap Rest = {}
  OBVIOUS
<1>3. IsFiniteSet(Own) /\ Cardinality(Own) = f[k]
  BY <1>0, ValueCounts
<1>4. Cardinality(Own \cap Rest) = 0
  BY <1>2, FS_EmptySet
<1>5. /\ IsFiniteSet(Own \cup Rest)
      /\ Cardinality(Own \cup Rest)
           = Cardinality(Own) + Cardinality(Rest) - Cardinality(Own \cap Rest)
  <2> HIDE DEF Own, Rest
  <2> QED BY <1>3, FS_Union DEF Rest
<1>6. Cardinality(Rest) \in Nat
  BY FS_CardinalityType
<1> HIDE DEF Own, Rest
<1>7. IsFiniteSet(BytesOf(f)) /\ TotalOf(f) = f[k] + Cardinality(Rest)
  BY <1>0, <1>1, <1>3, <1>4, <1>5, <1>6 DEF TotalOf
<1> QED BY <1>7 DEF Rest

\* Replacing a value changes the total by the difference.
LEMMA TotalAfterWrite ==
  ASSUME NEW f \in [DataKey -> 0 .. MaxValue], IsFiniteSet(BytesOf(f)),
         NEW k \in DataKey, NEW n \in 0 .. MaxValue
  PROVE  /\ IsFiniteSet(BytesOf([f EXCEPT ![k] = n]))
         /\ TotalOf([f EXCEPT ![k] = n]) = TotalOf(f) - f[k] + n
         /\ TotalOf(f) \in Nat /\ f[k] <= TotalOf(f)
<1> DEFINE g == [f EXCEPT ![k] = n]
           Rest == {b \in BytesOf(f) : b[1] # k}
<1>1. g \in [DataKey -> 0 .. MaxValue] /\ g[k] = n
  OBVIOUS
<1>2. {b \in BytesOf(g) : b[1] # k} = Rest
  BY DEF BytesOf
<1>3. IsFiniteSet(Rest)
  <2>1. Rest \in SUBSET BytesOf(f)
    OBVIOUS
  <2> QED BY <2>1, FS_Subset
<1>4. Cardinality(Rest) \in Nat
  BY <1>3, FS_CardinalityType
<1>5. TotalOf(f) = f[k] + Cardinality(Rest)
  BY <1>3, BytesSplit
<1>6. IsFiniteSet(BytesOf(g)) /\ TotalOf(g) = n + Cardinality(Rest)
  <2> HIDE DEF g, Rest
  <2>1. IsFiniteSet({b \in BytesOf(g) : b[1] # k})
    BY <1>2, <1>3
  <2> QED BY <1>1, <1>2, <2>1, BytesSplit
<1>7. f[k] \in Nat /\ n \in Nat
  BY Bounds
<1> HIDE DEF Rest
<1> QED BY <1>4, <1>5, <1>6, <1>7

\* Writing one key adds at most this key, and none that had a value.
LEMMA KeysAfterWrite ==
  ASSUME NEW f \in [DataKey -> 0 .. MaxValue], IsFiniteSet(KeysOf(f)),
         NEW k \in DataKey, NEW n \in 0 .. MaxValue
  PROVE  /\ Cardinality(KeysOf(f)) \in Nat
         /\ IsFiniteSet(KeysOf([f EXCEPT ![k] = n]))
         /\ n = 0 \/ f[k] # 0 =>
              Cardinality(KeysOf([f EXCEPT ![k] = n])) <= Cardinality(KeysOf(f))
         /\ Cardinality(KeysOf([f EXCEPT ![k] = n])) <= Cardinality(KeysOf(f)) + 1
<1> DEFINE g == [f EXCEPT ![k] = n]
<1>1. Cardinality(KeysOf(f)) \in Nat
  BY FS_CardinalityType
<1>2. /\ IsFiniteSet(KeysOf(f) \cup {k})
      /\ Cardinality(KeysOf(f) \cup {k}) =
           IF k \in KeysOf(f) THEN Cardinality(KeysOf(f)) ELSE Cardinality(KeysOf(f)) + 1
  BY FS_AddElement
<1>3. KeysOf(g) \in SUBSET (KeysOf(f) \cup {k})
  BY DEF KeysOf
<1>4. n = 0 \/ f[k] # 0 => KeysOf(g) \in SUBSET KeysOf(f)
  BY DEF KeysOf
<1> HIDE DEF g
<1>5. IsFiniteSet(KeysOf(g)) /\ Cardinality(KeysOf(g)) <= Cardinality(KeysOf(f) \cup {k})
  BY <1>2, <1>3, FS_Subset
<1>6. KeysOf(g) \in SUBSET KeysOf(f) => Cardinality(KeysOf(g)) <= Cardinality(KeysOf(f))
  BY FS_Subset
<1>7. Cardinality(KeysOf(g)) \in Nat
  BY <1>5, FS_CardinalityType
<1>8. Cardinality(KeysOf(g)) <= Cardinality(KeysOf(f)) + 1
  BY <1>1, <1>2, <1>5, <1>7
<1> QED BY <1>1, <1>4, <1>5, <1>6, <1>8 DEF g

\* Nothing counts as nothing.
LEMMA EmptyCounts ==
  ASSUME NEW f, \A k \in DataKey : f[k] = 0
  PROVE  /\ IsFiniteSet(KeysOf(f)) /\ Cardinality(KeysOf(f)) = 0
         /\ IsFiniteSet(BytesOf(f)) /\ TotalOf(f) = 0
<1>1. KeysOf(f) = {}
  BY DEF KeysOf
<1>2. BytesOf(f) = {}
  BY Bounds DEF BytesOf
<1> QED BY <1>1, <1>2, FS_EmptySet DEF TotalOf

\* A write that has room keeps the quota.
LEMMA RoomKeepsQuota ==
  ASSUME rows \in [DataKey -> 0 .. MaxValue], Countable, QuotaHolds,
         NEW k \in DataKey, NEW n \in 0 .. MaxValue,
         HasRoom(rows, k, n) \/ n = 0,
         rows' = [rows EXCEPT ![k] = n]
  PROVE  /\ QuotaHolds' /\ IsFiniteSet(KeysOf(rows')) /\ IsFiniteSet(BytesOf(rows'))
<1>1. /\ IsFiniteSet(BytesOf(rows'))
      /\ TotalOf(rows') = TotalOf(rows) - rows[k] + n
      /\ TotalOf(rows) \in Nat /\ rows[k] <= TotalOf(rows)
  BY TotalAfterWrite DEF Countable
<1>2. /\ IsFiniteSet(KeysOf(rows')) /\ Cardinality(KeysOf(rows)) \in Nat
      /\ n = 0 \/ rows[k] # 0 => Cardinality(KeysOf(rows')) <= Cardinality(KeysOf(rows))
      /\ Cardinality(KeysOf(rows')) <= Cardinality(KeysOf(rows)) + 1
  BY KeysAfterWrite DEF Countable
<1>3. Cardinality(KeysOf(rows')) \in Nat
  BY <1>2, FS_CardinalityType
<1>4. rows[k] \in Nat /\ n \in Nat
  BY Bounds
<1>5. Cardinality(KeysOf(rows)) <= MaxKeys /\ TotalOf(rows) <= MaxTotal
  BY DEF QuotaHolds, KeysOf
<1>6. TotalOf(rows') <= MaxTotal
  <2>1. CASE n = 0
    BY <1>1, <1>4, <1>5, <2>1, Bounds
  <2>2. CASE HasRoom(rows, k, n)
    BY <1>1, <2>2 DEF HasRoom
  <2> QED BY <2>1, <2>2
<1>7. Cardinality(KeysOf(rows')) <= MaxKeys
  <2>1. CASE n = 0 \/ rows[k] # 0
    BY <1>2, <1>3, <1>5, <2>1, Bounds
  <2>2. CASE n # 0 /\ rows[k] = 0
    <3>1. Cardinality(KeysOf(rows)) < MaxKeys
      BY <2>2 DEF HasRoom, KeysOf
    <3> QED BY <1>2, <1>3, <3>1, Bounds
  <2> QED BY <2>1, <2>2
<1> QED BY <1>1, <1>2, <1>6, <1>7 DEF QuotaHolds, KeysOf

----------------------------------------------------------------------------
(* Capabilities                                                            *)

LEMMA HintsMatch == HintsMatchServices
<1> SUFFICES ASSUME NEW k \in {"static", "external"}, NEW m \in Manifest
             PROVE  /\ Scopes(k, m) # {} => k = "static"
                    /\ "storage" \in Scopes(k, m) /\ Storable(k, m) => RequiresLogin(k, m)
                    /\ "matchmaking" \in Scopes(k, m) => RequiresLogin(k, m)
                    /\ RequiresLogin(k, m) => Scopes(k, m) # {}
  BY DEF HintsMatchServices, Kind
<1>1. Scopes(k, m) # {} => k = "static"
  BY DEF Scopes
<1>2. "storage" \in Scopes(k, m) /\ Storable(k, m) => RequiresLogin(k, m)
  BY DEF Storable, RequiresLogin
<1>3. "matchmaking" \in Scopes(k, m) => RequiresLogin(k, m)
  BY <1>1 DEF RequiresLogin
<1>4. Identity(m) = "required" /\ k = "static" => "identity" \in Scopes(k, m)
  BY DEF Scopes, Scope
<1>5. RequiresLogin(k, m) => Scopes(k, m) # {}
  BY <1>4 DEF RequiresLogin
<1> QED BY <1>1, <1>2, <1>3, <1>5

----------------------------------------------------------------------------
(* Types                                                                   *)

\* What a request can be doing.
Calling == [at : {"none", "authorized", "counted"}, op : {"none", "put", "delete"},
            game : 0 .. MaxIds, key : DataKey \cup {NoKey}, size : 0 .. MaxValue,
            yes : BOOLEAN]

LEMMA WaitingType == Waiting \in Calling
<1>1. 0 \in 0 .. MaxIds /\ 0 \in 0 .. MaxValue
  BY Bounds
<1> QED BY <1>1 DEF Waiting, Calling

LEMMA GrantedType == Granted \in SUBSET Scope
BY DEF Granted, Scopes

LEMMA ServicesTypeNext ==
  ASSUME ServicesTypeOK, Countable, [ServicesNext]_servicesVars
  PROVE  ServicesTypeOK'
<1> USE Bounds
<1>0. /\ id \in 0 .. MaxIds /\ used \in 0 .. MaxIds /\ package \in Package
      /\ public \in BOOLEAN /\ tickets \in SUBSET Ticket
      /\ rows \in [DataKey -> 0 .. MaxValue] /\ author \in [DataKey -> 0 .. MaxIds]
      /\ call \in [Client -> Calling] /\ writer \in BOOLEAN
  BY DEF ServicesTypeOK, Calling
<1>a. 0 \in 0 .. MaxIds /\ 0 \in 0 .. MaxValue
  OBVIOUS
<1>w. \A c \in Client : [call EXCEPT ![c] = Waiting] \in [Client -> Calling]
  BY <1>0, WaitingType
<1>1. ASSUME NEW p \in Package, Import(p)
      PROVE  ServicesTypeOK'
  <2>1. id' \in 0 .. MaxIds /\ used' \in 0 .. MaxIds
    BY <1>0, <1>1 DEF Import
  <2> QED BY <1>0, <1>1, <2>1 DEF Import, ServicesTypeOK, Calling
<1>2. CASE DeleteHolder
  <2>1. rows' \in [DataKey -> 0 .. MaxValue] /\ author' \in [DataKey -> 0 .. MaxIds]
    BY <1>a, <1>2 DEF DeleteHolder
  <2> QED BY <1>0, <1>a, <1>2, <2>1 DEF DeleteHolder, ServicesTypeOK, Calling
<1>3. CASE GameTicket
  <2>1. id \in 1 .. MaxIds
    BY <1>0, <1>3 DEF GameTicket, Countable
  <2>2. [game |-> id, scopes |-> Granted, first |-> Granted] \in Ticket
    BY <2>1, GrantedType DEF Ticket
  <2>3. tickets' \in SUBSET Ticket
    BY <1>0, <1>3, <2>2 DEF GameTicket, Issue
  <2> QED BY <1>0, <1>3, <2>3 DEF GameTicket, ServicesTypeOK, Calling
<1>4. ASSUME NEW t \in tickets, Expire(t)
      PROVE  ServicesTypeOK'
  BY <1>0, <1>4 DEF Expire, ServicesTypeOK, Calling
<1>5. ASSUME NEW t \in tickets, RefreshGameTicket(t)
      PROVE  ServicesTypeOK'
  <2>1. [t EXCEPT !.scopes = @ \cap Granted] \in Ticket
    BY <1>0 DEF Ticket
  <2>2. tickets' \in SUBSET Ticket
    BY <1>0, <1>5, <2>1 DEF RefreshGameTicket, Issue
  <2> QED BY <1>0, <1>5, <2>2 DEF RefreshGameTicket, ServicesTypeOK, Calling
<1>6. ASSUME NEW c \in Client, NEW t \in tickets, NEW k \in DataKey, NEW o \in {"put", "delete"},
             NEW n \in 0 .. MaxValue, Authorize(c, t, o, k, n)
      PROVE  ServicesTypeOK'
  <2>1. Storable(package.kind, package.manifest) \in BOOLEAN
    BY DEF Storable
  <2>2. \A b \in BOOLEAN : [at |-> "authorized", op |-> o, game |-> id, key |-> k, size |-> n,
                            yes |-> b] \in Calling
    BY <1>0 DEF Calling
  <2>3. [at |-> "authorized", op |-> o, game |-> id, key |-> k, size |-> n,
         yes |-> Storable(package.kind, package.manifest)] \in Calling
    BY <2>1, <2>2, Zenon
  <2>4. call' \in [Client -> Calling]
    BY <1>0, <1>6, <2>3, Zenon DEF Authorize
  <2> QED BY <1>0, <1>6, <2>4 DEF Authorize, ServicesTypeOK, Calling
<1>7. ASSUME NEW c \in Client, CountData(c)
      PROVE  ServicesTypeOK'
  <2>1. HasRoom(Sees(call[c]), call[c].key, call[c].size) \in BOOLEAN
    BY DEF HasRoom
  <2>2. \A b \in BOOLEAN :
          [call EXCEPT ![c].at = "counted", ![c].yes = b] \in [Client -> Calling]
    <3> SUFFICES ASSUME NEW b \in BOOLEAN
                 PROVE  [call EXCEPT ![c].at = "counted", ![c].yes = b]
                          \in [Client -> Calling]
      OBVIOUS
    <3> DEFINE counting == [call EXCEPT ![c].at = "counted"]
    <3>1. counting \in [Client -> Calling]
      BY <1>0 DEF Calling
    <3>2. [counting EXCEPT ![c].yes = b] \in [Client -> Calling]
      <4> HIDE DEF counting
      <4> QED BY <3>1 DEF Calling
    <3> QED BY <3>2
  <2>3. call' \in [Client -> Calling]
    BY <1>7, <2>1, <2>2, Zenon DEF CountData
  <2> QED BY <1>0, <1>7, <2>3 DEF CountData, ServicesTypeOK, Calling
<1>8. ASSUME NEW c \in Client, PutGameData(c)
      PROVE  ServicesTypeOK'
  <2>1. call' \in [Client -> Calling] /\ writer' \in BOOLEAN
    BY <1>w, <1>8 DEF PutGameData
  <2>2. rows' \in [DataKey -> 0 .. MaxValue] /\ author' \in [DataKey -> 0 .. MaxIds]
    <3>1. call[c].size \in 0 .. MaxValue /\ call[c].game \in 0 .. MaxIds
      BY <1>0 DEF Calling
    <3> QED BY <1>0, <1>8, <3>1 DEF PutGameData
  <2> QED BY <1>0, <1>8, <2>1, <2>2 DEF PutGameData, ServicesTypeOK, Calling
<1>9. ASSUME NEW c \in Client, DeleteGameData(c)
      PROVE  ServicesTypeOK'
  <2>1. call' \in [Client -> Calling]
    BY <1>w, <1>9 DEF DeleteGameData
  <2>2. rows' \in [DataKey -> 0 .. MaxValue] /\ author' \in [DataKey -> 0 .. MaxIds]
    BY <1>0, <1>a, <1>9 DEF DeleteGameData
  <2> QED BY <1>0, <1>9, <2>1, <2>2 DEF DeleteGameData, ServicesTypeOK, Calling
<1>10. ASSUME NEW c \in Client, StorageDisabled(c)
       PROVE  ServicesTypeOK'
  <2>1. call' \in [Client -> Calling]
    BY <1>w, <1>10 DEF StorageDisabled
  <2> QED BY <1>0, <1>10, <2>1 DEF StorageDisabled, ServicesTypeOK, Calling
<1>11. CASE UNCHANGED servicesVars
  BY <1>11 DEF servicesVars, ServicesTypeOK
<1>12. ASSUME NEW n \in 1 .. MaxValue
       PROVE  n \in 0 .. MaxValue
  OBVIOUS
<1> QED
  BY <1>1, <1>2, <1>3, <1>4, <1>5, <1>6, <1>7, <1>8, <1>9, <1>10, <1>11, <1>12, <1>a
     DEF ServicesNext

----------------------------------------------------------------------------
(* Requests                                                                *)

\* A step that lets one request go on to something else than a count, does not
\* touch rows or game, and gives the lock back only if nobody else has it.
LEMMA OtherCallsKeep ==
  ASSUME CallsInv, CountedInv, OneWriter, NEW c \in Client,
         \A d \in Client \ {c} : call'[d] = call[d],
         call'[c].at # "none" => /\ call'[c].game # 0 /\ call'[c].key \in DataKey
                                 /\ call'[c].op = "put" => call'[c].size # 0,
         call'[c].at # "counted",
         \A d \in Client \ {c} : call[d].at = "counted" => UNCHANGED <<id, rows, writer>>
  PROVE  CallsInv' /\ CountedInv' /\ OneWriter'
<1>1. CallsInv'
  BY DEF CallsInv
<1>2. OneWriter'
  BY DEF OneWriter
<1>3. ASSUME NEW d \in Client, call'[d].at = "counted"
      PROVE  /\ writer' /\ call'[d].op = "put"
             /\ call'[d].yes /\ call'[d].game = id'
                  => HasRoom(rows', call'[d].key, call'[d].size)
  <2>1. d # c /\ call'[d] = call[d]
    BY <1>3
  <2>2. UNCHANGED <<id, rows, writer>>
    BY <1>3, <2>1
  <2>3. /\ writer /\ call[d].op = "put"
        /\ call[d].yes /\ call[d].game = id => HasRoom(rows, call[d].key, call[d].size)
    BY <1>3, <2>1 DEF CountedInv
  <2> QED BY <2>1, <2>2, <2>3
<1> QED BY <1>1, <1>2, <1>3 DEF CountedInv, HasRoom, TotalOf, BytesOf

LEMMA CallsNext ==
  ASSUME ServicesTypeOK, ServicesTypeOK', Countable, CallsInv, CountedInv, OneWriter,
         [ServicesNext]_servicesVars
  PROVE  CallsInv' /\ CountedInv' /\ OneWriter'
<1>f. ASSUME UNCHANGED call,
             ~writer \/ UNCHANGED <<id, rows, writer>>
      PROVE  CallsInv' /\ CountedInv' /\ OneWriter'
  <2>1. CallsInv' /\ OneWriter'
    BY <1>f DEF CallsInv, OneWriter
  <2>2. CASE ~writer
    BY <1>f, <2>1, <2>2 DEF CountedInv
  <2>3. CASE UNCHANGED <<id, rows, writer>>
    BY <1>f, <2>1, <2>3 DEF CountedInv, HasRoom, TotalOf, BytesOf
  <2> QED BY <1>f, <2>1, <2>2, <2>3
<1>1. ASSUME NEW p \in Package, Import(p)
      PROVE  CallsInv' /\ CountedInv' /\ OneWriter'
  BY <1>1, <1>f DEF Import, WriterFree
<1>2. CASE DeleteHolder
  BY <1>2, <1>f DEF DeleteHolder, WriterFree
<1>3. CASE GameTicket
  BY <1>3, <1>f DEF GameTicket
<1>4. ASSUME NEW t \in tickets, Expire(t) \/ RefreshGameTicket(t)
      PROVE  CallsInv' /\ CountedInv' /\ OneWriter'
  BY <1>4, <1>f DEF Expire, RefreshGameTicket
<1>6. ASSUME NEW c \in Client, NEW t \in tickets, NEW k \in DataKey, NEW o \in {"put", "delete"},
             NEW n \in 0 .. MaxValue, o = "put" => n # 0, Authorize(c, t, o, k, n)
      PROVE  CallsInv' /\ CountedInv' /\ OneWriter'
  <2>1. /\ call'[c].at = "authorized" /\ call'[c].op = o /\ call'[c].game = id
        /\ call'[c].key = k /\ call'[c].size = n
        /\ \A d \in Client \ {c} : call'[d] = call[d]
        /\ UNCHANGED <<id, rows, writer>>
    BY <1>6 DEF Authorize, ServicesTypeOK
  <2>2. id # 0
    BY <1>6 DEF Authorize, Honoured, Countable
  <2> QED BY <1>6, <2>1, <2>2, OtherCallsKeep
<1>7. ASSUME NEW c \in Client, CountData(c)
      PROVE  CallsInv' /\ CountedInv' /\ OneWriter'
  <2>1. /\ call[c].at = "authorized" /\ call[c].op = "put"
        /\ ~writer /\ writer'
        /\ call'[c].at = "counted" /\ call'[c].op = call[c].op /\ call'[c].game = call[c].game
        /\ call'[c].key = call[c].key /\ call'[c].size = call[c].size
        /\ \A d \in Client \ {c} : call'[d] = call[d]
        /\ UNCHANGED <<id, rows>>
    BY <1>7 DEF CountData, WriterFree, ServicesTypeOK
  <2>2. call'[c].yes = HasRoom(Sees(call[c]), call[c].key, call[c].size)
    <3>1. \A b \in BOOLEAN :
            [call EXCEPT ![c].at = "counted", ![c].yes = b][c].yes = b
      BY DEF ServicesTypeOK
    <3>2. HasRoom(Sees(call[c]), call[c].key, call[c].size) \in BOOLEAN
      BY DEF HasRoom
    <3> QED BY <1>7, <3>1, <3>2, Zenon DEF CountData
  <2>3. \A d \in Client \ {c} : call'[d].at # "counted"
    BY <2>1 DEF CountedInv
  <2>4. CallsInv' /\ OneWriter'
    BY <2>1, <2>3 DEF CallsInv, OneWriter
  <2>5. call[c].game = id => Sees(call[c]) = rows
    BY DEF Sees, ServicesTypeOK
  <2>6. call'[c].yes /\ call'[c].game = id'
          => HasRoom(rows, call'[c].key, call'[c].size)
    BY <2>1, <2>2, <2>5
  <2>7. HasRoom(rows, call'[c].key, call'[c].size)
          => HasRoom(rows', call'[c].key, call'[c].size)
    BY <2>1
  <2> QED BY <2>1, <2>3, <2>4, <2>6, <2>7 DEF CountedInv, HasRoom, TotalOf, BytesOf
<1>8. ASSUME NEW c \in Client, PutGameData(c)
      PROVE  CallsInv' /\ CountedInv' /\ OneWriter'
  <2>1. /\ call[c].at = "counted" /\ call'[c] = Waiting
        /\ \A d \in Client \ {c} : call'[d] = call[d]
    BY <1>8 DEF PutGameData, ServicesTypeOK
  <2>2. \A d \in Client \ {c} : call[d].at # "counted"
    BY <2>1 DEF OneWriter
  <2> QED BY <2>1, <2>2, OtherCallsKeep DEF Waiting
<1>9. ASSUME NEW c \in Client, DeleteGameData(c)
      PROVE  CallsInv' /\ CountedInv' /\ OneWriter'
  <2>1. /\ ~writer /\ call'[c] = Waiting
        /\ \A d \in Client \ {c} : call'[d] = call[d]
    BY <1>9 DEF DeleteGameData, WriterFree, ServicesTypeOK
  <2>2. \A d \in Client : call[d].at # "counted"
    BY <2>1 DEF CountedInv
  <2> QED BY <2>1, <2>2, OtherCallsKeep DEF Waiting
<1>10. ASSUME NEW c \in Client, StorageDisabled(c)
       PROVE  CallsInv' /\ CountedInv' /\ OneWriter'
  <2>1. /\ call'[c] = Waiting /\ UNCHANGED <<id, rows, writer>>
        /\ \A d \in Client \ {c} : call'[d] = call[d]
    BY <1>10 DEF StorageDisabled, ServicesTypeOK
  <2> QED BY <2>1, OtherCallsKeep DEF Waiting
<1>11. CASE UNCHANGED servicesVars
  BY <1>11, <1>f DEF servicesVars
<1>12. ASSUME NEW n \in 1 .. MaxValue
       PROVE  n \in 0 .. MaxValue /\ n # 0
  BY Bounds
<1>13. 0 \in 0 .. MaxValue
  BY Bounds
<1> QED
  BY <1>1, <1>2, <1>3, <1>4, <1>6, <1>7, <1>8, <1>9, <1>10, <1>11, <1>12, <1>13
     DEF ServicesNext

----------------------------------------------------------------------------
(* Player data                                                             *)

\* The rows of a game without any count as the quota allows.
LEMMA RowsKept ==
  ASSUME Countable, QuotaHolds, UNCHANGED rows
  PROVE  QuotaHolds' /\ IsFiniteSet(KeysOf(rows')) /\ IsFiniteSet(BytesOf(rows'))
BY DEF Countable, QuotaHolds, KeysOf, TotalOf, BytesOf

\* What the history has to say of a row survives the steps that keep rows, authors
\* and the game.
LEMMA DataNext ==
  ASSUME ServicesTypeOK, Countable, CallsInv, CountedInv, OneWriter,
         QuotaHolds, DataFollowsGame, [ServicesNext]_servicesVars
  PROVE  Countable' /\ QuotaHolds' /\ DataFollowsGame'
<1> USE DEF ServicesTypeOK
<1>f. ASSUME UNCHANGED <<rows, author, id, public>>
      PROVE  Countable' /\ QuotaHolds' /\ DataFollowsGame'
  <2>1. QuotaHolds' /\ IsFiniteSet(KeysOf(rows')) /\ IsFiniteSet(BytesOf(rows'))
    BY <1>f, RowsKept
  <2>2. public' => id' # 0
    BY <1>f DEF Countable
  <2> QED BY <1>f, <2>1, <2>2 DEF Countable, KeysOf, BytesOf, DataFollowsGame
<1>1. ASSUME NEW p \in Package, Import(p)
      PROVE  Countable' /\ QuotaHolds' /\ DataFollowsGame'
  <2>1. QuotaHolds' /\ IsFiniteSet(KeysOf(rows')) /\ IsFiniteSet(BytesOf(rows'))
    BY <1>1, RowsKept DEF Import
  <2>2. id' # 0 /\ (id # 0 => id' = id)
    BY <1>1, Bounds DEF Import
  <2>3. DataFollowsGame'
    BY <1>1, <2>2 DEF Import, DataFollowsGame
  <2> QED BY <2>1, <2>2, <2>3 DEF Countable, KeysOf, BytesOf
<1>2. CASE DeleteHolder
  <2>1. \A k \in DataKey : rows'[k] = 0
    BY <1>2 DEF DeleteHolder
  <2>2. /\ IsFiniteSet(KeysOf(rows')) /\ Cardinality(KeysOf(rows')) = 0
        /\ IsFiniteSet(BytesOf(rows')) /\ TotalOf(rows') = 0
    BY <2>1, EmptyCounts
  <2>3. QuotaHolds'
    BY <2>2, Bounds DEF QuotaHolds, KeysOf
  <2>4. ~public'
    BY <1>2 DEF DeleteHolder
  <2> QED BY <2>1, <2>2, <2>3, <2>4 DEF Countable, KeysOf, BytesOf, DataFollowsGame
<1>3. CASE GameTicket
  BY <1>3, <1>f DEF GameTicket
<1>4. ASSUME NEW t \in tickets, Expire(t) \/ RefreshGameTicket(t)
      PROVE  Countable' /\ QuotaHolds' /\ DataFollowsGame'
  BY <1>4, <1>f DEF Expire, RefreshGameTicket
<1>6. ASSUME NEW c \in Client, NEW t \in tickets, NEW k \in DataKey, NEW o, NEW n,
             Authorize(c, t, o, k, n)
      PROVE  Countable' /\ QuotaHolds' /\ DataFollowsGame'
  BY <1>6, <1>f DEF Authorize
<1>7. ASSUME NEW c \in Client, CountData(c)
      PROVE  Countable' /\ QuotaHolds' /\ DataFollowsGame'
  BY <1>7, <1>f DEF CountData
<1>8. ASSUME NEW c \in Client, PutGameData(c)
      PROVE  Countable' /\ QuotaHolds' /\ DataFollowsGame'
  <2>1. CASE call[c].yes /\ call[c].game = id
    <3>1. /\ rows' = [rows EXCEPT ![call[c].key] = call[c].size]
          /\ author' = [author EXCEPT ![call[c].key] = call[c].game]
          /\ call[c].at = "counted" /\ UNCHANGED <<id, public>>
      BY <1>8, <2>1 DEF PutGameData
    <3>2. /\ call[c].game # 0 /\ call[c].key \in DataKey
          /\ HasRoom(rows, call[c].key, call[c].size)
      BY <2>1, <3>1 DEF CallsInv, CountedInv
    <3>3. rows \in [DataKey -> 0 .. MaxValue] /\ call[c].size \in 0 .. MaxValue
      OBVIOUS
    <3>4. QuotaHolds' /\ IsFiniteSet(KeysOf(rows')) /\ IsFiniteSet(BytesOf(rows'))
      BY <3>1, <3>2, <3>3, RoomKeepsQuota
    <3>5. DataFollowsGame'
      BY <2>1, <3>1, <3>2 DEF DataFollowsGame
    <3>6. public' => id' # 0
      BY <3>1 DEF Countable
    <3> QED BY <3>4, <3>5, <3>6 DEF Countable, KeysOf, BytesOf
  <2>2. CASE ~(call[c].yes /\ call[c].game = id)
    <3>1. UNCHANGED <<rows, author, id, public>>
      BY <1>8, <2>2 DEF PutGameData
    <3> QED BY <3>1, <1>f
  <2> QED BY <2>1, <2>2
<1>9. ASSUME NEW c \in Client, DeleteGameData(c)
      PROVE  Countable' /\ QuotaHolds' /\ DataFollowsGame'
  <2>1. CASE call[c].game = id
    <3>1. /\ rows' = [rows EXCEPT ![call[c].key] = 0]
          /\ author' = [author EXCEPT ![call[c].key] = 0]
          /\ UNCHANGED <<id, public>>
      BY <1>9, <2>1 DEF DeleteGameData
    <3>2. call[c].key \in DataKey
      BY <1>9 DEF DeleteGameData, CallsInv
    <3>3. rows \in [DataKey -> 0 .. MaxValue] /\ 0 \in 0 .. MaxValue
      BY Bounds
    <3>4. QuotaHolds' /\ IsFiniteSet(KeysOf(rows')) /\ IsFiniteSet(BytesOf(rows'))
      BY <3>1, <3>2, <3>3, RoomKeepsQuota
    <3>5. DataFollowsGame'
      BY <3>1, <3>2 DEF DataFollowsGame
    <3>6. public' => id' # 0
      BY <3>1 DEF Countable
    <3> QED BY <3>4, <3>5, <3>6 DEF Countable, KeysOf, BytesOf
  <2>2. CASE call[c].game # id
    <3>1. UNCHANGED <<rows, author, id, public>>
      BY <1>9, <2>2 DEF DeleteGameData
    <3> QED BY <3>1, <1>f
  <2> QED BY <2>1, <2>2
<1>10. ASSUME NEW c \in Client, StorageDisabled(c)
       PROVE  Countable' /\ QuotaHolds' /\ DataFollowsGame'
  BY <1>10, <1>f DEF StorageDisabled
<1>11. CASE UNCHANGED servicesVars
  BY <1>11, <1>f DEF servicesVars
<1> QED
  BY <1>1, <1>2, <1>3, <1>4, <1>6, <1>7, <1>8, <1>9, <1>10, <1>11 DEF ServicesNext

LEMMA RefreshNext ==
  ASSUME ServicesTypeOK, RefreshNeverWidens, [ServicesNext]_servicesVars
  PROVE  RefreshNeverWidens'
<1>1. CASE GameTicket
  BY <1>1 DEF GameTicket, Issue, RefreshNeverWidens
<1>2. ASSUME NEW t \in tickets, Expire(t)
      PROVE  RefreshNeverWidens'
  BY <1>2 DEF Expire, RefreshNeverWidens
<1>3. ASSUME NEW t \in tickets, RefreshGameTicket(t)
      PROVE  RefreshNeverWidens'
  <2>1. t.scopes \subseteq t.first
    BY DEF RefreshNeverWidens
  <2>2. t \in Ticket
    BY DEF ServicesTypeOK
  <2>3. [t EXCEPT !.scopes = @ \cap Granted].scopes
          \subseteq [t EXCEPT !.scopes = @ \cap Granted].first
    BY <2>1, <2>2 DEF Ticket
  <2> QED BY <1>3, <2>3 DEF RefreshGameTicket, Issue, RefreshNeverWidens
<1>4. CASE UNCHANGED tickets
  BY <1>4 DEF RefreshNeverWidens
<1> QED
  BY <1>1, <1>2, <1>3, <1>4
     DEF ServicesNext, Import, DeleteHolder, Authorize, CountData, PutGameData,
         DeleteGameData, StorageDisabled, servicesVars

LEMMA ServicesInitIInv == ServicesInit => ServicesIInv
<1> SUFFICES ASSUME ServicesInit PROVE ServicesIInv
  OBVIOUS
<1> USE DEF ServicesInit
<1>1. 0 \in 0 .. MaxIds /\ 0 \in 0 .. MaxValue
  BY Bounds
<1>2. ServicesTypeOK
  BY <1>1, WaitingType DEF ServicesTypeOK, Calling
<1>3. CallsInv /\ CountedInv /\ OneWriter
  BY DEF CallsInv, CountedInv, OneWriter, Waiting
<1>4. /\ IsFiniteSet(KeysOf(rows)) /\ Cardinality(KeysOf(rows)) = 0
      /\ IsFiniteSet(BytesOf(rows)) /\ TotalOf(rows) = 0
  BY EmptyCounts
<1>5. Countable /\ QuotaHolds
  BY <1>4, Bounds DEF Countable, QuotaHolds, KeysOf
<1>6. DataFollowsGame /\ RefreshNeverWidens
  BY DEF DataFollowsGame, RefreshNeverWidens
<1> QED BY <1>2, <1>3, <1>5, <1>6, HintsMatch DEF ServicesIInv, PlayerDataInv

\* The inductive invariant of player services: a transaction that has counted is
\* alone, and what it has counted is so until it writes.
THEOREM ServicesInvariant == ServicesSpec => []ServicesIInv
<1>1. ServicesIInv /\ [ServicesNext]_servicesVars => ServicesIInv'
  <2> SUFFICES ASSUME ServicesIInv, [ServicesNext]_servicesVars
               PROVE  ServicesIInv'
    OBVIOUS
  <2>0. /\ ServicesTypeOK /\ CallsInv /\ CountedInv /\ OneWriter /\ Countable
        /\ QuotaHolds /\ DataFollowsGame /\ RefreshNeverWidens
    BY DEF ServicesIInv, PlayerDataInv
  <2>1. ServicesTypeOK'
    BY <2>0, ServicesTypeNext
  <2>2. CallsInv' /\ CountedInv' /\ OneWriter'
    BY <2>0, <2>1, CallsNext
  <2>3. Countable' /\ QuotaHolds' /\ DataFollowsGame'
    BY <2>0, DataNext
  <2>4. RefreshNeverWidens'
    BY <2>0, RefreshNext
  <2>5. HintsMatchServices'
    BY HintsMatch
  <2> QED BY <2>1, <2>2, <2>3, <2>4, <2>5 DEF ServicesIInv, PlayerDataInv
<1> QED BY <1>1, ServicesInitIInv, PTL DEF ServicesSpec

\* Tickets, rows and requests keep the shapes that the handlers give them.
THEOREM ServicesTypeCorrect == ServicesSpec => []ServicesTypeOK
<1>1. ServicesIInv => ServicesTypeOK
  BY DEF ServicesIInv
<1> QED BY <1>1, ServicesInvariant, PTL

\* For any keys, limits, packages and any number of concurrent requests: the quota
\* of PutGameData holds in keys and in bytes, no row outlives the game it was
\* written for, refreshGameTicket never widens a ticket, and what a visitor is told
\* of a package agrees with what its tickets can do.
THEOREM PlayerDataIsSound == ServicesSpec => []PlayerDataInv
<1>1. ServicesIInv => PlayerDataInv
  BY DEF ServicesIInv
<1> QED BY <1>1, ServicesInvariant, PTL

----------------------------------------------------------------------------
(* The composition                                                         *)

\* A behaviour of the composition is one of each component.
THEOREM CatalogueRunsComponents ==
  CatalogueSpec => /\ PublicationSpec /\ AccountsSpec /\ AvatarsSpec
                   /\ MirrorSpec /\ ServicesSpec
<1>1. CatalogueInit => /\ PublicationInit /\ AccountsInit /\ AvatarsInit
                       /\ MirrorInit /\ ServicesInit
  BY DEF CatalogueInit
<1>2. [CatalogueNext]_catalogueVars => /\ [PublicationNext]_publicationVars
                                       /\ [AccountsNext]_accountsVars
                                       /\ [AvatarsNext]_avatarsVars
                                       /\ [MirrorNext]_mirrorVars
                                       /\ [ServicesNext]_servicesVars
  BY DEF CatalogueNext, catalogueVars
<1> QED
  BY <1>1, <1>2, PTL
     DEF CatalogueSpec, PublicationSpec, AccountsSpec, AvatarsSpec, MirrorSpec, ServicesSpec

\* Rows, files, objects, tickets and requests of the five components keep their
\* shapes.
THEOREM CatalogueTypeCorrect == CatalogueSpec => []CatalogueTypeOK
<1>1. /\ PublicationTypeOK /\ AccountsTypeOK /\ AvatarsTypeOK
      /\ MirrorTypeOK /\ ServicesTypeOK
      => CatalogueTypeOK
  BY DEF CatalogueTypeOK
<1> QED
  BY <1>1, CatalogueRunsComponents, PublicationTypeCorrect, AccountsTypeCorrect,
     AvatarsTypeCorrect, MirrorTypeCorrect, ServicesTypeCorrect, PTL
=============================================================================
