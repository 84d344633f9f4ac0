------------------------------ MODULE Deployment ------------------------------
(***************************************************************************)
(* The certificates of a deployment and the client that is built for it:   *)
(* agent-cert generates the CA and the identity of the Agent listener,     *)
(* build-client puts ca.crt into the client, and the client upgrades       *)
(* itself to releases that are built without it.                           *)
(***************************************************************************)
EXTENDS Certificates, ClientUpgrade

vars == <<certVars, upgradeVars>>

\* The CA of an earlier deployment, of a pair of its own.
EarlierCA == Cert(0, 0)
CAs == CertFiles \cup {EarlierCA}

ASSUME ClientAssumption ==
    /\ NoEmbedded \notin CAs /\ EarlierCA \notin {NoFile, Torn}
    /\ {NoFile, Torn} \cap Client(CAs) = {}

TypeOK == CertTypeOK /\ UpgradeTypeOK(CAs)

\* A client of an earlier deployment may have saved its CA on the machine.
Init == CertInit /\ UpgradeInit({NoFile, EarlierCA})

\* build-client puts the CA into the client, which is copied to the machine of the agent,
\* and copied again for another version.
Build ==
    /\ WholeCA
    /\ \E v \in Releases \cup {Dev} : Install([version |-> v, ca |-> disk[CACert]])
    /\ UNCHANGED certVars

\* The two tools share no file: of their interleavings, those are enough in which no
\* upgrade is at work while certificates are made.
MakeCertificates ==
    /\ \A u \in Upgrades : upgrade[u].pc = "idle"
    /\ CertStep
    /\ UNCHANGED upgradeVars

UpgradeClient ==
    /\ installed
    /\ \A c \in Calls : call[c].todo = <<>>
    /\ UpgradeStep
    /\ UNCHANGED certVars

Next == MakeCertificates \/ Build \/ UpgradeClient

\* A command that runs goes on; nobody has to start one.
Spec == Init /\ [][Next]_vars /\ \A u \in Upgrades : WF_vars(UpgradeClient /\ Advance(u))

-----------------------------------------------------------------------------
\* clientTLSConfig: what the client trusts besides the system's roots; a file that is not
\* a certificate is an error.
Trusts(cert) ==
    /\ caFile # Torn
    /\ cert.issuer \in {c.key : c \in {target.ca, caFile} \ {NoEmbedded, NoFile}}

Accepts == \A d \in OutDirs : disk[ServerCert(d)] \in CertFiles => Trusts(disk[ServerCert(d)])

\* A client that was built with the CA of the deployment accepts every server identity
\* that was ever generated for it, whatever upgrades it has gone through and however often
\* it was copied again, with two exceptions: the writing of the CA beside it was cut off, or
\* a release has nothing beside it but the CA of an earlier deployment.
StillTrusted ==
    installed /\ Whole(target) /\ caFile # Torn =>
        Accepts \/ (target.ca = NoEmbedded /\ caFile = EarlierCA)

\* docs/20260911-windows-agent.md:139, "so an upgrade does not lose the trust in the current
\* WSS certificate": the later releases load the CA from the file that the first upgrade has
\* saved. preserveEmbeddedCA keeps the file of an earlier deployment instead.
UpgradeKeepsTrust ==
    installed /\ Whole(target) /\ caFile # Torn => Accepts
=============================================================================
