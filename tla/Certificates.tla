----------------------------- MODULE Certificates -----------------------------
(***************************************************************************)
(* agenttls.Generate: the deployment CA in one directory, the identity of  *)
(* the Agent listener in another. Several calls may run at the same time   *)
(* and each may end after any step: an error, a full disk, a killed        *)
(* process. A file is created, empty, in one step and filled in the next.  *)
(*                                                                         *)
(* A private key is the number of its pair; a certificate names the pair   *)
(* of its issuer and the pair it is for, which is the same for the CA.     *)
(***************************************************************************)
EXTENDS Integers, Sequences, Files

CONSTANTS
    Calls,     \* calls of Generate that may run at the same time
    CADir,     \* caDir
    OutDirs,   \* output directories: Generate refuses caDir
    MaxKeys    \* bound on the key pairs ever generated

ASSUME CertAssumption == CADir \notin OutDirs /\ MaxKeys \in Nat

VARIABLES
    disk,      \* the content of every file
    lastKey,   \* key pairs generated so far
    call       \* per call: the files it has still to write, in their order

certVars == <<disk, lastKey, call>>

-----------------------------------------------------------------------------
Keys == 1..MaxKeys
Key(k) == [key |-> k]
Cert(issuer, k) == [issuer |-> issuer, key |-> k]
KeyFiles == {Key(k) : k \in Keys}
CertFiles == {Cert(i, k) : i, k \in Keys}

ASSUME ContentAssumption == {NoFile, Torn} \cap (KeyFiles \cup CertFiles) = {}

CAKey == <<CADir, "ca.key">>
CACert == <<CADir, "ca.crt">>
ServerKey(d) == <<d, "server.key">>
ServerCert(d) == <<d, "server.crt">>
Paths == {CAKey, CACert} \cup {ServerKey(d) : d \in OutDirs} \cup {ServerCert(d) : d \in OutDirs}

Write(path, data) == [path |-> path, data |-> data]
NoCall == [todo |-> <<>>, filling |-> FALSE]

\* Every file holds what belongs into it, if anything, and a call has at most four to write.
CertTypeOK ==
    /\ disk \in [Paths -> KeyFiles \cup CertFiles \cup {NoFile, Torn}]
    /\ \A p \in {CAKey} \cup {ServerKey(d) : d \in OutDirs} : disk[p] \notin CertFiles
    /\ lastKey \in 0..MaxKeys
    /\ \A c \in Calls : Len(call[c].todo) <= 4

CertInit ==
    /\ disk = [p \in Paths |-> NoFile]
    /\ lastKey = 0
    /\ call = [c \in Calls |-> NoCall]

-----------------------------------------------------------------------------
(* Generate up to its first write. It refuses an output directory that has one of the *)
(* files.                                                                             *)

Free(d) == disk[ServerKey(d)] = NoFile /\ disk[ServerCert(d)] = NoFile

\* loadCA finds neither file.
NoCA == disk[CAKey] = NoFile /\ disk[CACert] = NoFile

\* loadCA accepts: both files are whole and belong together. Any other CA is refused.
WholeCA == disk[CAKey] \in KeyFiles /\ disk[CACert] = Cert(disk[CAKey].key, disk[CAKey].key)

Identity(d, issuer, k) ==
    <<Write(ServerKey(d), Key(k)), Write(ServerCert(d), Cert(issuer, k))>>

GenerateCA(c) ==
    LET k == lastKey + 1 IN
    /\ call[c].todo = <<>>
    /\ NoCA
    /\ k + 1 <= MaxKeys
    /\ lastKey' = k + 1
    /\ \E d \in OutDirs :
        /\ Free(d)
        /\ call' = [call EXCEPT ![c].todo =
            <<Write(CAKey, Key(k)), Write(CACert, Cert(k, k))>> \o Identity(d, k, k + 1)]
    /\ UNCHANGED disk

GenerateFromCA(c) ==
    /\ call[c].todo = <<>>
    /\ WholeCA
    /\ lastKey < MaxKeys
    /\ lastKey' = lastKey + 1
    /\ \E d \in OutDirs :
        /\ Free(d)
        /\ call' = [call EXCEPT ![c].todo = Identity(d, disk[CAKey].key, lastKey + 1)]
    /\ UNCHANGED disk

-----------------------------------------------------------------------------
(* writeNew *)

NextFile(c) == Head(call[c].todo)

\* Mutant of CreateNew: a file that is there is truncated.
CreateAny(c) ==
    /\ call[c].todo # <<>> /\ ~call[c].filling
    /\ disk' = [disk EXCEPT ![NextFile(c).path] = Torn]
    /\ call' = [call EXCEPT ![c].filling = TRUE]
    /\ UNCHANGED lastKey

\* O_EXCL: a file that is there ends the call.
CreateNew(c) ==
    /\ call[c].todo # <<>> /\ ~call[c].filling
    /\ IF disk[NextFile(c).path] = NoFile
       THEN /\ disk' = [disk EXCEPT ![NextFile(c).path] = Torn]
            /\ call' = [call EXCEPT ![c].filling = TRUE]
       ELSE /\ call' = [call EXCEPT ![c] = NoCall]
            /\ UNCHANGED disk
    /\ UNCHANGED lastKey

Fill(c) ==
    /\ call[c].filling
    /\ disk' = [disk EXCEPT ![NextFile(c).path] = NextFile(c).data]
    /\ call' = [call EXCEPT ![c] = [todo |-> Tail(call[c].todo), filling |-> FALSE]]
    /\ UNCHANGED lastKey

\* A write fails, or the process is killed: what was created stays.
Stop(c) ==
    /\ call[c].todo # <<>>
    /\ call' = [call EXCEPT ![c] = NoCall]
    /\ UNCHANGED <<disk, lastKey>>

CertStep ==
    \E c \in Calls : GenerateCA(c) \/ GenerateFromCA(c) \/ CreateNew(c) \/ Fill(c) \/ Stop(c)

CertSpec == CertInit /\ [][CertStep]_certVars

-----------------------------------------------------------------------------
\* A server certificate that is whole belongs to the key beside it and is issued by the
\* CA in caDir, whichever calls overlapped or were interrupted: a client that trusts
\* ca.crt accepts every identity that Generate has finished, and a CA that has issued one
\* is never replaced or lost.
Verifiable ==
    \A d \in OutDirs : disk[ServerCert(d)] \in CertFiles =>
        /\ disk[ServerKey(d)] = Key(disk[ServerCert(d)].key)
        /\ WholeCA
        /\ disk[ServerCert(d)].issuer = disk[CAKey].key
=============================================================================
