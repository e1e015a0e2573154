----------------------------- MODULE FileStore ------------------------------
(***************************************************************************)
(* What the file system of Assignment 5 promises to its user: a file is    *)
(* what was copied in, whatever happens to other files, and a process that *)
(* is stopped at any moment leaves the files that were on the image, apart *)
(* from those it had removed or created again.  FileShell implements it.   *)
(*                                                                         *)
(* A file is its number and its contents, a function on 0 .. n - 1.        *)
(***************************************************************************)
EXTENDS Integers

VARIABLES
  files,   \* the files of the mounted image, as a function on their numbers
  saved,   \* the files a mount of the image would find now
  unsaved, \* the numbers of `files` whose file the image does not have
  closed   \* exit has saved everything

vars == <<files, saved, unsaved, closed>>

NoFiles == [i \in {} |-> <<>>]

Init == files = NoFiles /\ saved = NoFiles /\ unsaved = {} /\ closed = FALSE

OnlyUnsaved(i) == unsaved' \ {i} = unsaved \ {i}

(* The saved files that no step but Save may touch.                        *)
SafeFilesKept ==
  /\ DOMAIN saved' = DOMAIN saved
  /\ \A i \in DOMAIN saved \ unsaved : i \in DOMAIN files => saved'[i] = saved[i]

(* The session's files become those of the image.                          *)
Mount ==
  /\ ~closed /\ files' = saved /\ unsaved' = {}
  /\ UNCHANGED <<saved, closed>>

Create ==
  /\ ~closed
  /\ \E i \in DOMAIN files' \ DOMAIN files :
       /\ files' = [j \in DOMAIN files \cup {i} |->
                      IF j = i THEN <<>> ELSE files[j]]
       /\ OnlyUnsaved(i)
  /\ UNCHANGED <<saved, closed>>

(* One file gets longer by a chunk.  The room may come from removed files. *)
Append ==
  /\ ~closed
  /\ DOMAIN files' = DOMAIN files
  /\ \E i \in DOMAIN files :
       LET n == DOMAIN files[i] IN
       /\ files' = [files EXCEPT ![i] = files'[i]]
       /\ \A k \in n : files'[i][k] = files[i][k]
       /\ \E k \in DOMAIN files'[i] \ n : DOMAIN files'[i] = n \cup {k}
       /\ OnlyUnsaved(i)
  /\ SafeFilesKept
  /\ UNCHANGED closed

(* A file that is on the image as it is in the session may be called so.   *)
Settle ==
  /\ ~closed
  /\ \E i \in unsaved :
       /\ i \in DOMAIN saved /\ saved[i] = files[i]
       /\ unsaved' = unsaved \ {i}
  /\ UNCHANGED <<files, saved, closed>>

Remove ==
  /\ ~closed
  /\ \E i \in DOMAIN files :
       /\ files' = [j \in DOMAIN files \ {i} |-> files[j]]
       /\ unsaved' = unsaved \ {i}
  /\ UNCHANGED <<saved, closed>>

(* Exit writes some of the session's files and of its removals.            *)
Save ==
  /\ ~closed
  /\ \A i \in DOMAIN saved \cup DOMAIN saved' :
       \/ i \in DOMAIN files \cap DOMAIN saved' /\ saved'[i] = files[i]
       \/ i \notin DOMAIN files \cup DOMAIN saved'
       \/ i \in DOMAIN saved \cap DOMAIN saved' /\ saved'[i] = saved[i]
  /\ unsaved' \subseteq unsaved
  /\ \A i \in unsaved \ unsaved' : i \in DOMAIN saved' /\ saved'[i] = files[i]
  /\ closed' => unsaved' = {}
  /\ UNCHANGED files

(* Without a session: formatting takes files away, and changes none.       *)
Erase ==
  /\ files = NoFiles
  /\ DOMAIN saved' \subseteq DOMAIN saved
  /\ \A i \in DOMAIN saved' : saved'[i] = saved[i]
  /\ UNCHANGED <<files, unsaved, closed>>

(* The session ends, after Save or at any other moment.                    *)
End ==
  /\ files' = NoFiles /\ unsaved' = {} /\ closed' = FALSE
  /\ UNCHANGED saved

Next ==
  Mount \/ Create \/ Append \/ Settle \/ Remove \/ Save \/ Erase \/ End

Spec == Init /\ [][Next]_vars
=============================================================================
