------------------------------- MODULE Update -------------------------------
(***************************************************************************)
(* "ageni update" (cmd/ageni/update.go): the latest release is looked up,  *)
(* its archive fetched and, if the release has a checksum, verified, the   *)
(* binary extracted to a temporary file, written to a staging file beside  *)
(* the executable and renamed over it.  The process may die between any    *)
(* two steps, and the next update starts over what it left.                *)
(*                                                                         *)
(* A binary is [release, state]; a "part" has been written in part, a      *)
(* "bad" one is not what was released.  Names of files lead to files, so   *)
(* that a file may be written through a name that is gone.                 *)
(***************************************************************************)
EXTENDS Naturals

CONSTANTS
  Updaters,   (* processes that may run at the same time                   *)
  Releases,   (* bound of the model: the releases there will be            *)
  MaxRuns     (* bound of the model: updates started                       *)

UpdateConstants == Releases \in Nat \ {0} /\ MaxRuns \in Nat

Binary == [release : 0..Releases, state : {"whole", "part", "bad"}]
NoFile == [release |-> 0, state |-> "none"]
Whole(n) == [release |-> n, state |-> "whole"]
Part(n) == [release |-> n, state |-> "part"]

VARIABLES
  content,    (* per file: what is in it; file 0 is the first executable,  *)
              (* one other may be made by each updater                     *)
  target,     (* the file that is the executable                           *)
  staged,     (* the files named .ageni-update-staged, at most one         *)
  sums,       (* the releases that come with a checksum                    *)
  latest,     (* the latest release                                        *)
  at,         (* per updater: the next step, or how it ended               *)
  release,    (* per updater: the release it has looked up                 *)
  archive,    (* per updater: the archive in its temporary file            *)
  binary,     (* per updater: the binary in its temporary file             *)
  handle,     (* per updater: the file it is writing, when at "staging"    *)
  before,     (* history, per updater: the executable's content when it    *)
              (* began                                                     *)
  runs        (* updates started                                           *)

files == <<content, target, staged>>
vars == <<files, sums, latest, at, release, archive, binary, handle, before, runs>>

Steps == {"check", "download", "verify", "extract", "replace", "stage", "staging", "staged"}
Ends == {"off", "current", "updated", "failed"}

\* One file for each update that may be made, and the first executable.
Files == 0..MaxRuns

TypeOK ==
  /\ content \in [Files -> Binary \cup {NoFile}]
  /\ target \in Files /\ staged \in SUBSET Files
  /\ sums \subseteq 1..Releases /\ latest \in 1..Releases
  /\ at \in [Updaters -> Steps \cup Ends]
  /\ release \in [Updaters -> 0..Releases]
  /\ archive \in [Updaters -> {"none", "whole", "bad"}]
  /\ binary \in [Updaters -> Binary \cup {NoFile}]
  /\ handle \in [Updaters -> Files] /\ before \in [Updaters -> Binary]
  /\ runs \in 0..MaxRuns

Init ==
  /\ content = [f \in Files |-> IF f = 0 THEN Whole(0) ELSE NoFile]
  /\ target = 0 /\ staged = {}
  /\ sums \in SUBSET (1..Releases) /\ latest = 1
  /\ at = [u \in Updaters |-> "off"]
  /\ release = [u \in Updaters |-> 0]
  /\ archive = [u \in Updaters |-> "none"]
  /\ binary = [u \in Updaters |-> NoFile]
  /\ handle = [u \in Updaters |-> 0]
  /\ before = [u \in Updaters |-> Whole(0)]
  /\ runs = 0

-----------------------------------------------------------------------------
\* A release is published.
Publish ==
  /\ latest < Releases /\ latest' = latest + 1
  /\ UNCHANGED <<files, sums, at, release, archive, binary, handle, before, runs>>

Goes(u, step) == at' = [at EXCEPT ![u] = step]

\* What is on the disk can be run when it is whole.
Start(u) ==
  /\ at[u] \in Ends /\ runs < MaxRuns /\ runs' = runs + 1
  /\ content[target].state = "whole"
  /\ before' = [before EXCEPT ![u] = content[target]]
  /\ Goes(u, "check")
  /\ UNCHANGED <<files, sums, latest, release, archive, binary, handle>>

\* fetchLatestRelease; the names are compared, not their order.  Its archive may be
\* missing for this platform.
Check(u) ==
  /\ at[u] = "check"
  /\ release' = [release EXCEPT ![u] = latest]
  /\ \/ before[u].release = latest /\ Goes(u, "current")
     \/ before[u].release # latest /\ (Goes(u, "download") \/ Goes(u, "failed"))
     \/ Goes(u, "failed")
  /\ UNCHANGED <<files, sums, latest, archive, binary, handle, before, runs>>

\* downloadAndExtract: the archive may not be what was released; one that is cut
\* short is noticed.
Download(u) ==
  /\ at[u] = "download"
  /\ \/ /\ \E a \in {"whole", "bad"} : archive' = [archive EXCEPT ![u] = a]
        /\ Goes(u, IF release[u] \in sums THEN "verify" ELSE "extract")
     \/ Goes(u, "failed") /\ UNCHANGED archive
  /\ UNCHANGED <<files, sums, latest, release, binary, handle, before, runs>>

\* Mutant of Verified: a checksum that could not be fetched is passed over.
VerifiedIfFetched(u) == {"extract"} \cup (IF archive[u] = "bad" THEN {"failed"} ELSE {})

\* verifyChecksum; the checksum itself may not come.
Verified(u) == {"failed"} \cup (IF archive[u] = "whole" THEN {"extract"} ELSE {})

Verify(u) ==
  /\ at[u] = "verify"
  /\ \E step \in Verified(u) :
       /\ Goes(u, step)
       /\ archive' = [archive EXCEPT ![u] = IF step = "failed" THEN "none" ELSE @]
  /\ UNCHANGED <<files, sums, latest, release, binary, handle, before, runs>>

\* extractTarGz, extractZip, writeTempBinary: the file is given a name when all of it
\* is written, and taken away when not.  A bad archive may be found to be one.  The
\* archive goes in either case.
Extract(u) ==
  /\ at[u] = "extract"
  /\ archive' = [archive EXCEPT ![u] = "none"]
  /\ \/ /\ binary' = [binary EXCEPT ![u] = [release |-> release[u], state |-> archive[u]]]
        /\ Goes(u, "replace")
     \/ Goes(u, "failed") /\ UNCHANGED binary
  /\ UNCHANGED <<files, sums, latest, release, handle, before, runs>>

\* replaceExecutable reads the binary and takes a staging file that is there out of the
\* way, unless the path of the executable or the binary cannot be read.
Replace(u) ==
  /\ at[u] = "replace"
  /\ \/ Goes(u, "stage") /\ staged' = {} /\ UNCHANGED binary
     \/ Goes(u, "failed") /\ binary' = [binary EXCEPT ![u] = NoFile] /\ UNCHANGED staged
  /\ UNCHANGED <<content, target, sums, latest, release, archive, handle, before, runs>>

Unused == CHOOSE f \in Files \ ({target} \cup staged) : \A u \in Updaters : at[u] = "staging" => handle[u] # f

\* WriteFile opens the staging file, empties one that is there, ...
Stage(u) ==
  /\ at[u] = "stage"
  /\ \E f \in (IF staged = {} THEN {Unused} ELSE staged) :
       /\ staged' = {f}
       /\ content' = [content EXCEPT ![f] = Part(binary[u].release)]
       /\ handle' = [handle EXCEPT ![u] = f]
  /\ Goes(u, "staging")
  /\ UNCHANGED <<target, sums, latest, release, archive, binary, before, runs>>

\* ... and writes it, and sets its mode; after an error the staging file is removed.
Staged(u) ==
  /\ at[u] = "staging"
  /\ \/ /\ content' = [content EXCEPT ![handle[u]] = binary[u]]
        /\ Goes(u, "staged") /\ UNCHANGED <<staged, binary>>
     \/ /\ staged' = {} /\ binary' = [binary EXCEPT ![u] = NoFile]
        /\ Goes(u, "failed") /\ UNCHANGED content
  /\ UNCHANGED <<target, sums, latest, release, archive, handle, before, runs>>

\* The staging file has the executable's name from now on, or is removed.  The
\* temporary binary goes in either case (runUpdate's defer).
Rename(u) ==
  /\ at[u] = "staged"
  /\ \/ staged # {} /\ target' \in staged /\ Goes(u, "updated")
     \/ Goes(u, "failed") /\ UNCHANGED target
  /\ staged' = {} /\ binary' = [binary EXCEPT ![u] = NoFile]
  /\ UNCHANGED <<content, sums, latest, release, archive, handle, before, runs>>

\* The process dies; what it wrote stays.
Crash(u) ==
  /\ at[u] \in Steps
  /\ Goes(u, "off")
  /\ archive' = [archive EXCEPT ![u] = "none"]
  /\ binary' = [binary EXCEPT ![u] = NoFile]
  /\ UNCHANGED <<files, sums, latest, release, handle, before, runs>>

Next ==
  \/ Publish
  \/ \E u \in Updaters :
       \/ Start(u) \/ Check(u) \/ Download(u) \/ Verify(u) \/ Extract(u)
       \/ Replace(u) \/ Stage(u) \/ Staged(u) \/ Rename(u) \/ Crash(u)

Spec == Init /\ [][Next]_vars

-----------------------------------------------------------------------------
(* Properties. *)

\* Whatever fails and whenever the process dies, the executable is a whole one, or a bad
\* one of a release without a checksum; an update that failed has left what was there,
\* and one that says it is done has left the release that it looked up and no staging
\* file, not even one of an update that died.
ExecutableIsWhole ==
  /\ \/ content[target].state = "whole"
     \/ content[target].state = "bad" /\ content[target].release \notin sums
  /\ \A u \in Updaters :
       /\ at[u] = "failed" => content[target] = before[u]
       /\ at[u] = "updated" => content[target].release = release[u] /\ staged = {}

\* What the comment on replaceExecutable says: it "atomically replaces the running
\* binary".
ReplacesAtomically == content[target].state # "part"
=============================================================================
