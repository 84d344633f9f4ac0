---------------------------- MODULE ClientUpgrade ----------------------------
(***************************************************************************)
(* aiagent-ssh-client.exe -upgrade: the process that checks, downloads and *)
(* stages the latest release, and the PowerShell script that replaces the  *)
(* executable once the process has ended. The command may be started while *)
(* an earlier one is still at work. Every step may fail, and process and   *)
(* script may be killed after any step.                                    *)
(*                                                                         *)
(* An executable is its version and the CA it was built with; releases     *)
(* have none. The client looks for a CA also in the file beside it, which  *)
(* may be there from an earlier deployment.                                *)
(***************************************************************************)
EXTENDS Integers, FiniteSetsExt, Files

CONSTANTS
    Upgrades,     \* -upgrade commands that may be at work at the same time
    Releases,     \* versions of the releases: <<major, minor, patch>>
    Dev,          \* the version of a build without one
    NoEmbedded,   \* built without a CA
    MaxAttempts   \* attempts of the script (60 in the code)

ASSUME UpgradeAssumption ==
    /\ Releases \subseteq [1..3 -> Nat]
    /\ {Dev, NoFile, Torn} \cap Releases = {}
    /\ MaxAttempts \in Nat \ {0}

VARIABLES
    installed, \* a client was copied to the machine
    latest,    \* the release the API names
    target,    \* the executable
    backup,    \* the executable with .old behind its name
    caFile,    \* the CA beside the executable
    upgrade,   \* per command: its step, what it works on and its temporary file
    history    \* what has gone wrong since then

upgradeVars == <<installed, latest, target, backup, caFile, upgrade, history>>

-----------------------------------------------------------------------------
Client(CAs) == [version : Releases \cup {Dev}, ca : CAs \cup {NoEmbedded}]
Script == {"removeOld", "backUp", "replace", "cleanUp", "restore"}
Steps == {"idle", "metadata", "archive", "create", "extract", "ca", "createCA", "writeCA",
          "schedule"} \cup Script

\* The files hold clients, or what an interrupted write has left.
UpgradeTypeOK(CAs) ==
    /\ installed \in BOOLEAN
    /\ latest \in Releases
    /\ target \in Client(CAs) \cup {NoFile, Torn}
    /\ backup \in Client(CAs) \cup {NoFile, Torn}
    /\ caFile \in CAs \cup {NoFile, Torn}
    /\ upgrade \in [Upgrades -> [pc : Steps, self : Client(CAs) \cup {NoFile},
                                 release : Releases \cup {NoFile, Torn},
                                 staged : Client(CAs) \cup {NoFile, Torn},
                                 attempt : 0..MaxAttempts]]
    /\ history \subseteq {"overlap", "halfway", "notRestored", "notLogged"}

NoUpgrade ==
    [pc |-> "idle", self |-> NoFile, release |-> NoFile, staged |-> NoFile, attempt |-> 0]

-----------------------------------------------------------------------------
(* newerReleaseAvailable *)

\* Mutant of NewerReleaseAvailable: one larger part is enough.
AnyPartLarger(current, release) ==
    current = Dev \/ \E i \in 1..3 : release[i] > current[i]

\* The first part that differs decides; a version that is no release differs.
NewerReleaseAvailable(current, release) ==
    \/ current = Dev
    \/ LET differ == {i \in 1..3 : release[i] # current[i]} IN
       differ # {} /\ release[Min(differ)] > current[Min(differ)]

-----------------------------------------------------------------------------
(* Upgrade. A command that ends on an error removes its temporary file.              *)

Becomes(u, state) == upgrade' = [upgrade EXCEPT ![u] = state]
Goes(u, pc) == Becomes(u, [upgrade[u] EXCEPT !.pc = pc])
SameFiles == UNCHANGED <<target, backup, caFile>>

Start(u) ==
    /\ upgrade[u].pc = "idle"
    /\ Whole(target)
    /\ Becomes(u, [NoUpgrade EXCEPT !.pc = "metadata", !.self = target])
    /\ history' = IF \E o \in Upgrades \ {u} : upgrade[o].pc # "idle"
                  THEN history \cup {"overlap"} ELSE history
    /\ UNCHANGED latest /\ SameFiles

\* A download fails, a file cannot be written, or the script cannot be started.
Fails(u) ==
    /\ upgrade[u].pc \notin {"idle"} \cup Script
    /\ Becomes(u, NoUpgrade)
    /\ UNCHANGED <<latest, history>> /\ SameFiles

ReadMetadata(u) ==
    /\ upgrade[u].pc = "metadata"
    /\ IF NewerReleaseAvailable(upgrade[u].self.version, latest)
       THEN Becomes(u, [upgrade[u] EXCEPT !.pc = "archive", !.release = latest])
       ELSE Becomes(u, NoUpgrade)
    /\ UNCHANGED <<latest, history>> /\ SameFiles

\* The checksum file and the archive, which may not be the one that was published.
ReadArchive(u) ==
    /\ upgrade[u].pc = "archive"
    /\ \E data \in {upgrade[u].release, Torn} :
        Becomes(u, IF data = upgrade[u].release THEN [upgrade[u] EXCEPT !.pc = "create"]
                   ELSE NoUpgrade)
    /\ UNCHANGED <<latest, history>> /\ SameFiles

\* extractClient: the temporary file is created, then written.
CreateStaged(u) ==
    /\ upgrade[u].pc = "create"
    /\ Becomes(u, [upgrade[u] EXCEPT !.pc = "extract", !.staged = Torn])
    /\ UNCHANGED <<latest, history>> /\ SameFiles

Extract(u) ==
    /\ upgrade[u].pc = "extract"
    /\ Becomes(u, [upgrade[u] EXCEPT !.pc = "ca",
            !.staged = IF upgrade[u].release = Torn THEN Torn
                       ELSE [version |-> upgrade[u].release, ca |-> NoEmbedded]])
    /\ UNCHANGED <<latest, history>> /\ SameFiles

\* Mutant of PreserveEmbeddedCA: nothing is saved.
PreserveNothing(u) ==
    /\ upgrade[u].pc = "ca"
    /\ Goes(u, "schedule")
    /\ UNCHANGED <<latest, target, backup, caFile, history>>

\* preserveEmbeddedCA: an invalid file refuses the upgrade, a valid one is kept.
PreserveEmbeddedCA(u) ==
    /\ upgrade[u].pc = "ca"
    /\ \/ /\ upgrade[u].self.ca = NoEmbedded \/ Whole(caFile)
          /\ Goes(u, "schedule")
       \/ /\ upgrade[u].self.ca # NoEmbedded /\ caFile = Torn
          /\ Becomes(u, NoUpgrade)
       \/ /\ upgrade[u].self.ca # NoEmbedded /\ caFile = NoFile
          /\ Goes(u, "createCA")
    /\ UNCHANGED <<latest, history>> /\ SameFiles

\* os.WriteFile: the file is emptied, by now perhaps that of another command, then written.
CreateCA(u) ==
    /\ upgrade[u].pc = "createCA"
    /\ caFile' = Torn
    /\ Goes(u, "writeCA")
    /\ UNCHANGED <<latest, target, backup, history>>

WriteCA(u) ==
    /\ upgrade[u].pc = "writeCA"
    /\ caFile' = upgrade[u].self.ca
    /\ Goes(u, "schedule")
    /\ UNCHANGED <<latest, target, backup, history>>

\* scheduleExecutableReplacement; the process ends, and the script waits for that.
Schedule(u) ==
    /\ upgrade[u].pc = "schedule"
    /\ Becomes(u, [upgrade[u] EXCEPT !.pc = "removeOld", !.attempt = 1,
                                     !.self = NoFile, !.release = NoFile])
    /\ UNCHANGED <<latest, history>> /\ SameFiles

-----------------------------------------------------------------------------
(* replacementScript. A file that some program has open cannot be moved or removed.  *)

RemoveOld(u) ==
    /\ upgrade[u].pc = "removeOld"
    /\ backup' \in {NoFile, backup}
    /\ Goes(u, "backUp")
    /\ UNCHANGED <<latest, target, caFile, history>>

BackUp(u) ==
    /\ upgrade[u].pc = "backUp"
    /\ \/ /\ target # NoFile
          /\ backup' = target
          /\ target' = NoFile
          /\ Goes(u, "replace")
       \/ /\ Goes(u, "restore")
          /\ UNCHANGED <<target, backup>>
    /\ UNCHANGED <<latest, caFile, history>>

Replace(u) ==
    /\ upgrade[u].pc = "replace"
    /\ \/ /\ upgrade[u].staged # NoFile
          /\ target' = upgrade[u].staged
          /\ Becomes(u, [upgrade[u] EXCEPT !.pc = "cleanUp", !.staged = NoFile])
       \/ /\ Goes(u, "restore")
          /\ UNCHANGED target
    /\ UNCHANGED <<latest, backup, caFile, history>>

\* The client is in its place. The script ends when it has logged that; if the log cannot
\* be written, the failure is that of the attempt, and others follow with nothing staged.
CleanUp(u) ==
    /\ upgrade[u].pc = "cleanUp"
    /\ backup' \in {NoFile, backup}
    /\ \/ Becomes(u, NoUpgrade) /\ UNCHANGED history
       \/ Goes(u, "restore") /\ history' = history \cup {"notLogged"}
    /\ UNCHANGED <<latest, target, caFile>>

\* Mutant of Again: the temporary file is removed after the last attempt.
AgainOrRemove(u) ==
    Becomes(u, IF upgrade[u].attempt < MaxAttempts
               THEN [upgrade[u] EXCEPT !.pc = "removeOld", !.attempt = @ + 1]
               ELSE NoUpgrade)

\* Mutant of Again: one attempt more.
AgainOnceMore(u) ==
    Becomes(u, IF upgrade[u].attempt <= MaxAttempts
               THEN [upgrade[u] EXCEPT !.pc = "removeOld", !.attempt = @ + 1]
               ELSE [NoUpgrade EXCEPT !.staged = upgrade[u].staged])

\* The next attempt; after the last one the temporary file stays behind.
Again(u) ==
    Becomes(u, IF upgrade[u].attempt < MaxAttempts
               THEN [upgrade[u] EXCEPT !.pc = "removeOld", !.attempt = @ + 1]
               ELSE [NoUpgrade EXCEPT !.staged = upgrade[u].staged])

\* Mutant of Restore: the executable is not put back.
RestoreNothing(u) ==
    /\ upgrade[u].pc = "restore"
    /\ Again(u)
    /\ UNCHANGED <<latest, target, backup, caFile, history>>

\* Mutant of Restore: an attempt that could not move the executable is not counted.
RestoreForEver(u) ==
    /\ upgrade[u].pc = "restore"
    /\ Goes(u, "removeOld")
    /\ IF target = NoFile /\ backup # NoFile
       THEN target' = backup /\ backup' = NoFile
       ELSE UNCHANGED <<target, backup>>
    /\ UNCHANGED <<latest, caFile, history>>

\* The catch block of an attempt.
Restore(u) ==
    /\ upgrade[u].pc = "restore"
    /\ Again(u)
    /\ \/ /\ target # NoFile \/ backup = NoFile
          /\ UNCHANGED <<target, backup, history>>
       \/ /\ target = NoFile /\ backup # NoFile
          /\ target' = backup
          /\ backup' = NoFile
          /\ UNCHANGED history
       \/ /\ target = NoFile /\ backup # NoFile
          /\ history' = history \cup {"notRestored"}
          /\ UNCHANGED <<target, backup>>
    /\ UNCHANGED <<latest, caFile>>

\* The process or the script is killed, or the machine stops: the temporary file stays.
Kill(u) ==
    /\ upgrade[u].pc # "idle"
    /\ Becomes(u, [NoUpgrade EXCEPT !.staged = upgrade[u].staged])
    /\ history' = IF upgrade[u].pc \in {"replace", "restore"}
                  THEN history \cup {"halfway"} ELSE history
    /\ UNCHANGED latest /\ SameFiles

\* Another release becomes the latest, or is withdrawn.
Publish ==
    /\ latest' \in Releases
    /\ UNCHANGED <<target, backup, caFile, upgrade, history>>

Advance(u) ==
    \/ ReadMetadata(u) \/ ReadArchive(u) \/ CreateStaged(u) \/ Extract(u)
    \/ PreserveEmbeddedCA(u) \/ CreateCA(u) \/ WriteCA(u) \/ Schedule(u) \/ Fails(u)
    \/ RemoveOld(u) \/ BackUp(u) \/ Replace(u) \/ CleanUp(u) \/ Restore(u)

UpgradeStep ==
    /\ (\E u \in Upgrades : Start(u) \/ Advance(u) \/ Kill(u)) \/ Publish
    /\ UNCHANGED installed

\* A client is copied to the machine, in place of the one that is there.
Install(client) ==
    /\ \A u \in Upgrades : upgrade[u].pc = "idle"
    /\ installed' = TRUE
    /\ target' = client
    /\ history' = {}
    /\ UNCHANGED <<latest, backup, caFile, upgrade>>

UpgradeInit(caFiles) ==
    /\ installed = FALSE
    /\ latest \in Releases
    /\ target = NoFile
    /\ backup = NoFile
    /\ caFile \in caFiles
    /\ upgrade = [u \in Upgrades |-> NoUpgrade]
    /\ history = {}

-----------------------------------------------------------------------------
\* The script had replaced the client but could not log it, and then another failure or
\* command met one of its further attempts, which have nothing to install.
Unlogged == "notLogged" \in history /\ history \cap {"notRestored", "overlap"} # {}

\* Whatever fails, is killed or overlaps, the directory holds a whole client under one of
\* its names: an upgrade never destroys the last copy. The exception is a script that was
\* Unlogged: its next attempt removes the backup without looking for another copy.
SomeCopy ==
    installed /\ ~Unlogged =>
        Whole(target) \/ Whole(backup) \/ \E u \in Upgrades : Whole(upgrade[u].staged)

\* The executable is never a file that was not checked or not written to its end, and it
\* is missing only between the two moves of a script, unless two commands overlapped, a
\* script was killed between its moves, or could not put the old client back.
TargetKept ==
    /\ target # Torn
    /\ installed /\ target = NoFile /\ history \subseteq {"notLogged"} =>
        \E u \in Upgrades : upgrade[u].pc \in {"replace", "restore"}

Later(v, w) ==
    \E i \in 1..3 : v[i] > w[i] /\ \A j \in 1..(i - 1) : v[j] = w[j]

\* A command replaces the executable only by itself or a later version, also when the API
\* names an earlier release or withdraws one, unless two commands overlapped.
NeverDowngraded ==
    [][\/ upgrade' = upgrade
       \/ target' = target \/ ~Whole(target') \/ "overlap" \in history'
       \/ LET old == IF Whole(target) THEN target ELSE backup IN
          \/ ~Whole(old) \/ old.version = Dev \/ old.version = target'.version
          \/ target'.version # Dev /\ Later(target'.version, old.version)]_upgradeVars

\* A command that was started ends: the script gives up after its last attempt.
UpgradeEnds == \A u \in Upgrades : upgrade[u].pc # "idle" ~> upgrade[u].pc = "idle"
=============================================================================
