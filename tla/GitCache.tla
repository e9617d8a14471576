------------------------------ MODULE GitCache ------------------------------
(* GitHandler of internal/handlers/git.go: a stored repository is unpacked   *)
(* once per capture into a cache directory, under one mutex, and every clone *)
(* is served from there by git http-backend.                                 *)
EXTENDS Naturals

CONSTANTS Request,    \* clone requests
          Entries,    \* members of the tar
          Versions    \* artifacts the item may come to name one after another

ASSUME EntriesAssumption == Entries \in Nat \ {0}
ASSUME VersionsAssumption == Versions \in Nat \ {0}

VARIABLES current,    \* the artifact of the completed item, 0 while it has none
          cacheDir,   \* the directory: the artifact it is of and the entries it has
          mutex,      \* the request that holds cacheMutex, or Nobody
          cloning,    \* request -> where it is
          keyRead,        \* request -> the artifact its item row named
          died        \* the process died inside unpackGit

gitVars == <<current, cacheDir, mutex, cloning, keyRead, died>>

CONSTANT Nobody
ASSUME NobodyAssumption == Nobody \notin Request

NoDir == [of |-> 0, entries |-> 0]
Exists == cacheDir # NoDir

GitInit ==
  /\ current = 0 /\ cacheDir = NoDir /\ mutex = Nobody /\ died = FALSE
  /\ cloning = [r \in Request |-> "idle"] /\ keyRead = [r \in Request |-> 0]

\* The archive worker completes the item, and again when its job is run again.
Completed ==
  /\ current < Versions
  /\ current' = current + 1
  /\ UNCHANGED <<cacheDir, mutex, cloning, keyRead, died>>

\* The job that runs again takes the item out of "completed" meanwhile: 404.
ReadRow(r) ==
  /\ cloning[r] = "idle" /\ current > 0
  /\ keyRead' = [keyRead EXCEPT ![r] = current]
  /\ cloning' = [cloning EXCEPT ![r] = "locking"]
  /\ UNCHANGED <<current, cacheDir, mutex, died>>

\* The stat gate; a reader that cannot be opened leaves no directory.
Gate(r) ==
  /\ cloning[r] = "locking" /\ mutex = Nobody
  /\ \/ /\ Exists
        /\ cloning' = [cloning EXCEPT ![r] = "serving"]
        /\ UNCHANGED <<cacheDir, mutex>>
     \/ /\ ~Exists
        /\ cloning' = [cloning EXCEPT ![r] = "unpacking"]
        /\ cacheDir' = [of |-> keyRead[r], entries |-> 0] /\ mutex' = r
     \/ /\ ~Exists
        /\ cloning' = [cloning EXCEPT ![r] = "idle"]
        /\ UNCHANGED <<cacheDir, mutex>>
  /\ UNCHANGED <<current, keyRead, died>>

UnpackEntry(r) ==
  /\ cloning[r] = "unpacking" /\ cacheDir.entries < Entries
  /\ cacheDir' = [cacheDir EXCEPT !.entries = @ + 1]
  /\ UNCHANGED <<current, mutex, cloning, keyRead, died>>

UnpackFails_kept(r) ==   \* mutant: what was unpacked stays
  /\ cloning[r] = "unpacking"
  /\ mutex' = Nobody /\ UNCHANGED cacheDir
  /\ cloning' = [cloning EXCEPT ![r] = "idle"]
  /\ UNCHANGED <<current, keyRead, died>>

\* The deferred call removes what was unpacked and the request fails.
UnpackFails(r) ==
  /\ cloning[r] = "unpacking"
  /\ cacheDir' = NoDir /\ mutex' = Nobody
  /\ cloning' = [cloning EXCEPT ![r] = "idle"]
  /\ UNCHANGED <<current, keyRead, died>>

Unpacked(r) ==
  /\ cloning[r] = "unpacking" /\ cacheDir.entries = Entries
  /\ mutex' = Nobody
  /\ cloning' = [cloning EXCEPT ![r] = "serving"]
  /\ UNCHANGED <<current, cacheDir, keyRead, died>>

\* git http-backend ends.
Served(r) ==
  /\ cloning[r] = "serving"
  /\ cloning' = [cloning EXCEPT ![r] = "idle"]
  /\ UNCHANGED <<current, cacheDir, mutex, keyRead, died>>

\* The directory outlives the process, the requests and the mutex do not.
GitCrash ==
  /\ cloning' = [r \in Request |-> "idle"] /\ mutex' = Nobody
  /\ died' = (died \/ mutex # Nobody)
  /\ UNCHANGED <<current, cacheDir, keyRead>>

GitNext ==
  \/ Completed \/ GitCrash
  \/ \E r \in Request : ReadRow(r) \/ Gate(r) \/ UnpackEntry(r) \/ UnpackFails(r) \/ Unpacked(r) \/ Served(r)

GitSpec == GitInit /\ [][GitNext]_gitVars

---------------------------------------------------------------------------

\* Types of the cache's state.
GitTypeOK ==
  /\ current \in 0..Versions /\ cacheDir \in [of : 0..Versions, entries : 0..Entries]
  /\ mutex \in Request \cup {Nobody} /\ keyRead \in [Request -> 0..Versions] /\ died \in BOOLEAN
  /\ cloning \in [Request -> {"idle", "locking", "unpacking", "serving"}]

\* Every clone is served a whole repository that was once stored for the
\* capture, and it stays in place while it is served, whoever unpacks, fails
\* or completes meanwhile (git.go:53-64, 92-98). The exceptions are kept in
\* view: a process that dies inside unpackGit leaves a partial directory the
\* gate then accepts, and a later artifact never replaces the first.
ClonesAreWhole ==
  \A r \in Request : cloning[r] = "serving" =>
    /\ cacheDir.of \in 1..current
    /\ ~died => cacheDir.entries = Entries
=============================================================================
