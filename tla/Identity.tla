------------------------------- MODULE Identity -------------------------------
(***************************************************************************)
(* device-id: several processes that call LoadOrCreate at the same time.   *)
(* A caller that finds no valid ID writes one of its own to a temporary    *)
(* file and links it into place, or renames it when the file is there but  *)
(* corrupt, or when the file system has no hard links.                     *)
(***************************************************************************)

CONSTANTS
  Process,   \* the callers; a new ID is named after the one that made it
  Missing,   \* there is no file
  Corrupt    \* the file does not hold a valid ID

\* What the constants have to be.
ConstantsOK == Missing # Corrupt /\ {Missing, Corrupt} \cap Process = {}

VARIABLES
  idFile,    \* what device-id holds
  links,     \* the file system has hard links
  spoiled,   \* history variable: the file was corrupt
  temp,      \* the temporary files, named after their process
  where,     \* [Process -> where the call is]
  got        \* [Process -> the ID it returns, Missing before]

vars == <<idFile, links, spoiled, temp, where, got>>

Init ==
  /\ idFile \in {Missing, Corrupt}
  /\ links \in BOOLEAN
  /\ spoiled = (idFile = Corrupt)
  /\ temp = {}
  /\ where = [p \in Process |-> "idle"]
  /\ got = [p \in Process |-> Missing]

Go(p, to) == where' = [where EXCEPT ![p] = to]

Valid(id) == id \in Process

\* readID, before anything is written and after a link that failed.
Read(p) ==
  /\ where[p] \in {"idle", "lost"}
  /\ IF Valid(idFile)
     THEN /\ got' = [got EXCEPT ![p] = idFile]
          /\ Go(p, IF where[p] = "idle" THEN "done" ELSE "clean")
     ELSE /\ Go(p, IF where[p] = "idle" THEN "write" ELSE "rename")
          /\ UNCHANGED got
  /\ UNCHANGED <<idFile, links, spoiled, temp>>

\* The file cannot be read.
ReadFails(p) ==
  /\ where[p] \in {"idle", "lost"}
  /\ Go(p, IF where[p] = "idle" THEN "failed" ELSE "giveUp")
  /\ UNCHANGED <<idFile, links, spoiled, temp, got>>

\* writeTemp removes what it could not write.
WriteTemp(p) ==
  /\ where[p] = "write"
  /\ \/ temp' = temp \cup {p} /\ Go(p, "link")
     \/ Go(p, "failed") /\ UNCHANGED temp
  /\ UNCHANGED <<idFile, links, spoiled, got>>

BadMayLink == links

\* A link never replaces a file.
MayLink == links /\ idFile = Missing

Link(p) ==
  /\ where[p] = "link"
  /\ IF MayLink
     THEN /\ idFile' = p /\ got' = [got EXCEPT ![p] = p]
          /\ Go(p, "clean")
     ELSE /\ Go(p, IF links THEN "lost" ELSE "rename")
          /\ UNCHANGED <<idFile, got>>
  /\ UNCHANGED <<links, spoiled, temp>>

Rename(p) ==
  /\ where[p] = "rename"
  /\ \/ /\ idFile' = p /\ temp' = temp \ {p}
        /\ got' = [got EXCEPT ![p] = p]
        /\ Go(p, "clean")
     \/ Go(p, "giveUp") /\ UNCHANGED <<idFile, temp, got>>
  /\ UNCHANGED <<links, spoiled>>

\* The deferred Remove.
CleanUp(p) ==
  /\ where[p] \in {"clean", "giveUp"}
  /\ temp' = temp \ {p}
  /\ Go(p, IF where[p] = "clean" THEN "done" ELSE "failed")
  /\ UNCHANGED <<idFile, links, spoiled, got>>

\* A process ends inside the call, and its temporary file stays.
Kill(p) ==
  /\ where[p] \notin {"done", "failed", "dead"}
  /\ Go(p, "dead")
  /\ got' = [got EXCEPT ![p] = Missing]
  /\ UNCHANGED <<idFile, links, spoiled, temp>>

Next ==
  \E p \in Process :
    \/ Read(p) \/ ReadFails(p) \/ WriteTemp(p) \/ Link(p) \/ Rename(p)
    \/ CleanUp(p) \/ Kill(p)

Spec == Init /\ [][Next]_vars

----------------------------------------------------------------------------
(* Properties.                                                              *)

\* The types of the variables.
TypeOK ==
  /\ idFile \in Process \cup {Missing, Corrupt}
  /\ links \in BOOLEAN /\ spoiled \in BOOLEAN
  /\ temp \subseteq Process
  /\ where \in [Process -> {"idle", "write", "link", "lost", "rename", "clean",
                            "giveUp", "done", "failed", "dead"}]
  /\ got \in [Process -> Process \cup {Missing}]

Returned(p) == where[p] = "done"

\* On a file system with hard links the callers return the ID the file holds,
\* unless it was corrupt; and no call that has returned leaves a temporary file
\* (LoadOrCreate).
CallersShareOneId ==
  \A p \in Process :
    /\ Returned(p) /\ links /\ ~spoiled => got[p] = idFile
    /\ where[p] \in {"done", "failed"} => p \notin temp
=============================================================================
