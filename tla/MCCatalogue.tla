----------------------------- MODULE MCCatalogue ------------------------------
(***************************************************************************)
(* Instances of Publication, Accounts, Avatars, ObjectMirror and           *)
(* PlayerServices for TLC.  They share no state, so that a behaviour runs  *)
(* one of them, chosen at the start, as in MCSocial.  Publication runs in  *)
(* two ways: concurrent requests about one slug at a time, and one request *)
(* at a time about several.  ObjectMirror runs in two ways as well:        *)
(* concurrent synchronisations of one file at a time, and one at a time of *)
(* several files.                                                          *)
(***************************************************************************)
EXTENDS Publication, Accounts, Avatars, ObjectMirror, PlayerServices, TLC

VARIABLE part

catalogueVars == <<publicationVars, accountsVars, avatarsVars, mirrorVars, servicesVars, part>>

Plain == [identity |-> "absent", storage |-> "absent", namespace |-> "other",
          matchmaking |-> "absent", oldLogin |-> FALSE, oldStorage |-> "", oldMatch |-> FALSE]

\* A package that stores, and one that asks for a player only.
Storing == [kind |-> "static",
            manifest |-> [Plain EXCEPT !.storage = "sqlite", !.identity = "required"]]
Greeting == [kind |-> "static",
             manifest |-> [Plain EXCEPT !.identity = "optional", !.oldStorage = "none"]]
Packages == {Storing, Greeting}

OneSlug ==
  Cardinality(({slug[g] : g \in Game} \cup {clerk[k].slug : k \in Clerk}) \ {NoSlug}) <= 1
OneRequest == Cardinality({k \in Clerk : clerk[k] # AtDesk}) <= 1

OneFile == Cardinality(Present(volume) \cup Present(mirror)) <= 1
OneSync == Cardinality({c \in Changer : sync[c].at # "idle"}) <= 1

\* A component that does not run starts in one state.
CatalogueInit ==
  /\ part \in {"races", "renames", "accounts", "avatars", "syncs", "files", "services"}
  /\ PublicationInit /\ AvatarsInit
  /\ AccountsInit /\ (part = "accounts" \/ exists = {})
  /\ MirrorInit /\ (part \in {"syncs", "files"} \/ volume = mirror)
  /\ part = "syncs" => OneFile
  /\ ServicesInit /\ (part = "services" \/ package = Storing)

CatalogueNext ==
  /\ UNCHANGED part
  /\ \/ /\ part \in {"races", "renames"} /\ PublicationNext
        /\ IF part = "races" THEN OneSlug' ELSE OneRequest'
        /\ UNCHANGED <<accountsVars, avatarsVars, mirrorVars, servicesVars>>
     \/ /\ part = "accounts" /\ AccountsNext
        /\ UNCHANGED <<publicationVars, avatarsVars, mirrorVars, servicesVars>>
     \/ /\ part = "avatars" /\ AvatarsNext
        /\ UNCHANGED <<publicationVars, accountsVars, mirrorVars, servicesVars>>
     \/ /\ part \in {"syncs", "files"} /\ MirrorNext
        /\ IF part = "syncs" THEN OneFile' ELSE OneSync'
        /\ UNCHANGED <<publicationVars, accountsVars, avatarsVars, servicesVars>>
     \/ /\ part = "services" /\ ServicesNext
        /\ UNCHANGED <<publicationVars, accountsVars, avatarsVars, mirrorVars>>

CatalogueSpec == CatalogueInit /\ [][CatalogueNext]_catalogueVars

\* Every variable of the five components keeps its type.
CatalogueTypeOK == /\ PublicationTypeOK /\ AccountsTypeOK /\ AvatarsTypeOK
                   /\ MirrorTypeOK /\ ServicesTypeOK

\* The instance gives the requests of all components the same names.
Symmetry == Permutations(Clerk) \cup Permutations(Slug)
=============================================================================
