----------------------------- MODULE MCDeployment -----------------------------
(* Small instances of Deployment for TLC. *)
EXTENDS Deployment, TLC

\* The order of the versions is not that of their minor parts as text.
MCReleases == {<<0, 9, 1>>, <<0, 10, 0>>}

\* Of the deployments with a client, one is followed: its first call of Generate has
\* succeeded, and at most one identity is added, after the upgrades. No step of a command
\* at work leaves these states. A client without a version is followed as long as the later
\* release is published.
OneDeployment ==
    installed =>
        /\ \A file \in {target, backup} :
            Whole(file) /\ file.version = Dev => latest = <<0, 10, 0>>
        /\ lastKey <= 3
        /\ disk[ServerCert(CHOOSE d \in OutDirs : TRUE)] = Cert(1, 2)
        /\ lastKey = 3 => \A u \in Upgrades : upgrade[u].pc = "idle"
=============================================================================
