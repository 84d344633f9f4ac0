--------------------------- MODULE DeploymentProofs ---------------------------
(***************************************************************************)
(* Proofs about Certificates, ClientUpgrade and Deployment, for any number *)
(* of calls, output directories, commands and attempts, and any releases.  *)
(***************************************************************************)
EXTENDS Deployment, SequenceTheorems, TLAPS

-----------------------------------------------------------------------------
(* Certificates. O_EXCL makes a file the property of the call that created   *)
(* it: it is torn while that call fills it, and never changes afterwards.    *)

\* What a call has still to write: the end of the four files of a deployment, in which i
\* is the pair of the CA and k that of the identity.
TodoOf(n, d, i, k) ==
    CASE n = 4 -> <<Write(CAKey, Key(i)), Write(CACert, Cert(i, i)),
                    Write(ServerKey(d), Key(k)), Write(ServerCert(d), Cert(i, k))>>
      [] n = 3 -> <<Write(CACert, Cert(i, i)),
                    Write(ServerKey(d), Key(k)), Write(ServerCert(d), Cert(i, k))>>
      [] n = 2 -> <<Write(ServerKey(d), Key(k)), Write(ServerCert(d), Cert(i, k))>>
      [] n = 1 -> <<Write(ServerCert(d), Cert(i, k))>>

\* What it has written is on the disk.
Written(n, d, i, k) ==
    /\ n <= 3 => disk[CAKey] = Key(i)
    /\ n <= 2 => disk[CACert] = Cert(i, i)
    /\ n <= 1 => disk[ServerKey(d)] = Key(k)

Working(c) ==
    \E n \in 1..4, d \in OutDirs, i, k \in Keys :
        call[c].todo = TodoOf(n, d, i, k) /\ Written(n, d, i, k)

CallInv == \A c \in Calls : Working(c) \/ call[c] = NoCall

FillsTorn == \A c \in Calls : call[c].filling => disk[NextFile(c).path] = Torn

OneFills ==
    \A b, c \in Calls : call[b].filling /\ call[c].filling /\ NextFile(b).path = NextFile(c).path
                        => b = c

Writes == [path : Paths, data : KeyFiles \cup CertFiles]

CertInv ==
    /\ CertTypeOK
    /\ call \in [Calls -> [todo : Seq(Writes), filling : BOOLEAN]]
    /\ CallInv /\ FillsTorn /\ OneFills /\ Verifiable

LEMMA Contents ==
    /\ \A k \in Keys : Key(k) \in KeyFiles /\ Whole(Key(k)) /\ Key(k) \notin CertFiles /\ Key(k).key = k
    /\ \A i, k \in Keys :
        /\ Cert(i, k) \in CertFiles /\ Whole(Cert(i, k))
        /\ Cert(i, k).issuer = i /\ Cert(i, k).key = k
    /\ \A f \in CertFiles : Whole(f) /\ f.issuer \in Keys /\ f.key \in Keys
    /\ \A f \in KeyFiles : Whole(f) /\ f.key \in Keys /\ f = Key(f.key)
    /\ NoFile \notin CertFiles /\ Torn \notin CertFiles /\ NoFile \notin KeyFiles
<1>1. \A k, i, j : Key(k) # Cert(i, j)
  <2> SUFFICES ASSUME NEW k, NEW i, NEW j, Key(k) = Cert(i, j) PROVE FALSE
    OBVIOUS
  <2>1. "issuer" \notin DOMAIN Key(k)
    BY DEF Key
  <2>2. "issuer" \in DOMAIN Cert(i, j)
    BY DEF Cert
  <2> QED BY <2>1, <2>2
<1>2. \A f \in KeyFiles \cup CertFiles : Whole(f)
  BY ContentAssumption DEF Whole
<1>3. \A k : Key(k).key = k
  BY DEF Key
<1>4. \A i, k : Cert(i, k).issuer = i /\ Cert(i, k).key = k
  BY DEF Cert
<1>5. \A k \in Keys : Key(k) \in KeyFiles /\ Key(k) \notin CertFiles
  BY <1>1 DEF KeyFiles, CertFiles
<1>6. \A i, k \in Keys : Cert(i, k) \in CertFiles
  BY DEF CertFiles
<1>7. \A f \in CertFiles : f.issuer \in Keys /\ f.key \in Keys
  BY <1>4 DEF CertFiles
<1>8. \A f \in KeyFiles : f.key \in Keys /\ f = Key(f.key)
  BY <1>3 DEF KeyFiles
<1>9. NoFile \notin CertFiles /\ Torn \notin CertFiles /\ NoFile \notin KeyFiles
  BY ContentAssumption
<1> QED BY <1>2, <1>3, <1>4, <1>5, <1>6, <1>7, <1>8, <1>9

LEMMA PathsApart ==
    /\ CAKey \in Paths /\ CACert \in Paths /\ CAKey # CACert
    /\ \A d \in OutDirs :
        /\ ServerKey(d) \in Paths /\ ServerCert(d) \in Paths
        /\ ServerKey(d) \notin {CAKey, CACert} /\ ServerCert(d) \notin {CAKey, CACert}
        /\ \A e \in OutDirs : ServerKey(d) # ServerCert(e)
        /\ \A e \in OutDirs \ {d} :
            ServerKey(d) # ServerKey(e) /\ ServerCert(d) # ServerCert(e)
BY DEF Paths, CAKey, CACert, ServerKey, ServerCert

\* The next file of a call, and what is left to write after it.
FileOf(n, d) ==
    CASE n = 4 -> CAKey [] n = 3 -> CACert [] n = 2 -> ServerKey(d) [] n = 1 -> ServerCert(d)
DataOf(n, i, k) ==
    CASE n = 4 -> Key(i) [] n = 3 -> Cert(i, i) [] n = 2 -> Key(k) [] n = 1 -> Cert(i, k)

LEMMA TodoFacts ==
    ASSUME NEW n \in 1..4, NEW d \in OutDirs, NEW i \in Keys, NEW k \in Keys
    PROVE  /\ TodoOf(n, d, i, k) \in Seq(Writes) /\ Len(TodoOf(n, d, i, k)) = n
           /\ TodoOf(n, d, i, k) # <<>>
           /\ Head(TodoOf(n, d, i, k)) = Write(FileOf(n, d), DataOf(n, i, k))
           /\ n = 1 => Tail(TodoOf(n, d, i, k)) = <<>>
           /\ n > 1 => Tail(TodoOf(n, d, i, k)) = TodoOf(n - 1, d, i, k)
           /\ FileOf(n, d) \in Paths /\ DataOf(n, i, k) \in KeyFiles \cup CertFiles
<1> USE PathsApart, Contents
<1>0. \A q \in Paths, f \in KeyFiles \cup CertFiles : Write(q, f) \in Writes
  BY DEF Write, Writes
<1>1. CASE n = 4
  BY <1>0, <1>1 DEF TodoOf, FileOf, DataOf
<1>2. CASE n = 3
  BY <1>0, <1>2 DEF TodoOf, FileOf, DataOf
<1>3. CASE n = 2
  BY <1>0, <1>3 DEF TodoOf, FileOf, DataOf
<1>4. CASE n = 1
  BY <1>0, <1>4 DEF TodoOf, FileOf, DataOf
<1> QED BY <1>1, <1>2, <1>3, <1>4

\* Keys go into the files of keys.
LEMMA FileKinds ==
    ASSUME NEW n \in 1..4, NEW d \in OutDirs, NEW i \in Keys, NEW k \in Keys
    PROVE  /\ FileOf(n, d) \in {CAKey} \cup {ServerKey(e) : e \in OutDirs} => DataOf(n, i, k) \notin CertFiles
           /\ \A e \in OutDirs : FileOf(n, d) = ServerCert(e) => n = 1 /\ d = e
<1>1. SUFFICES ASSUME NEW e \in OutDirs
               PROVE  /\ FileOf(n, d) \in {CAKey, ServerKey(e)} => DataOf(n, i, k) \notin CertFiles
                      /\ FileOf(n, d) = ServerCert(e) => n = 1 /\ d = e
  OBVIOUS
<1>2. CASE n = 4 \/ n = 2
  BY <1>2, Contents, PathsApart DEF FileOf, DataOf
<1>3. CASE n = 3 \/ n = 1
  BY <1>3, PathsApart DEF FileOf
<1> QED BY <1>2, <1>3

\* The call c is at the file n from the end.
At(c, n, d, i, k) ==
    /\ call[c].todo = TodoOf(n, d, i, k) /\ Written(n, d, i, k)
    /\ NextFile(c).path = FileOf(n, d) /\ FileOf(n, d) \in Paths
    /\ NextFile(c).data = DataOf(n, i, k) /\ DataOf(n, i, k) \in KeyFiles \cup CertFiles
    /\ n = 1 => Tail(call[c].todo) = <<>>
    /\ n > 1 => Tail(call[c].todo) = TodoOf(n - 1, d, i, k)

LEMMA CallFacts ==
    ASSUME CertInv, NEW c \in Calls, call[c].todo # <<>>
    PROVE  \E n \in 1..4, d \in OutDirs, i \in Keys, k \in Keys : At(c, n, d, i, k)
<1>1. PICK n \in 1..4, d \in OutDirs, i \in Keys, k \in Keys :
          call[c].todo = TodoOf(n, d, i, k) /\ Written(n, d, i, k)
  <2>1. call[c] # NoCall
    BY DEF NoCall
  <2> QED BY <2>1 DEF CertInv, CallInv, Working
<1>2. /\ Head(TodoOf(n, d, i, k)) = Write(FileOf(n, d), DataOf(n, i, k))
      /\ n = 1 => Tail(TodoOf(n, d, i, k)) = <<>>
      /\ n > 1 => Tail(TodoOf(n, d, i, k)) = TodoOf(n - 1, d, i, k)
      /\ FileOf(n, d) \in Paths /\ DataOf(n, i, k) \in KeyFiles \cup CertFiles
  BY TodoFacts
<1>3. NextFile(c) = Write(FileOf(n, d), DataOf(n, i, k))
  BY <1>1, <1>2 DEF NextFile
<1>4. NextFile(c).path = FileOf(n, d) /\ NextFile(c).data = DataOf(n, i, k)
  BY <1>3 DEF Write
<1>5. At(c, n, d, i, k)
  BY <1>1, <1>2, <1>4 DEF At
<1> QED BY <1>5

\* A call that fills a file has one, and no other call has the same.
LEMMA Filling ==
    ASSUME CertInv, NEW c \in Calls, call[c].filling
    PROVE  /\ call[c].todo # <<>> /\ NextFile(c).path \in Paths /\ disk[NextFile(c).path] = Torn
           /\ \A b \in Calls : call[b].filling /\ NextFile(b).path = NextFile(c).path => b = c
<1>1. call[c].todo # <<>>
  <2>1. call[c] # NoCall
    BY DEF NoCall
  <2>2. PICK n \in 1..4, d \in OutDirs, i \in Keys, k \in Keys : call[c].todo = TodoOf(n, d, i, k)
    BY <2>1 DEF CertInv, CallInv, Working
  <2>3. TodoOf(n, d, i, k) # <<>>
    BY TodoFacts
  <2> QED BY <2>2, <2>3
<1>2. NextFile(c).path \in Paths
  BY <1>1, CallFacts DEF At
<1> QED BY <1>1, <1>2 DEF CertInv, FillsTorn, OneFills

\* No step changes a file that is whole.
DiskGrows == \A p \in Paths : Whole(disk[p]) => disk'[p] = disk[p]

LEMMA GrowsKeeps ==
    ASSUME DiskGrows, CertInv
    PROVE  /\ \A n \in 1..4, d \in OutDirs, i, k \in Keys : Written(n, d, i, k) => Written(n, d, i, k)'
           /\ WholeCA => WholeCA' /\ disk'[CACert] = disk[CACert] /\ disk'[CAKey] = disk[CAKey]
           /\ \A d \in OutDirs : disk[ServerCert(d)] \in CertFiles =>
                  /\ disk'[ServerCert(d)] = disk[ServerCert(d)]
                  /\ disk'[ServerKey(d)] = Key(disk'[ServerCert(d)].key)
                  /\ WholeCA'
                  /\ disk'[ServerCert(d)].issuer = disk'[CAKey].key
<1> USE Contents, PathsApart
<1>1. WholeCA => WholeCA' /\ disk'[CACert] = disk[CACert] /\ disk'[CAKey] = disk[CAKey]
  BY DEF DiskGrows, WholeCA
<1>2. \A n \in 1..4, d \in OutDirs, i, k \in Keys : Written(n, d, i, k) => Written(n, d, i, k)'
  BY DEF DiskGrows, Written
<1>3. \A d \in OutDirs : disk[ServerCert(d)] \in CertFiles =>
                  /\ disk'[ServerCert(d)] = disk[ServerCert(d)]
                  /\ disk'[ServerKey(d)] = Key(disk'[ServerCert(d)].key)
                  /\ WholeCA'
                  /\ disk'[ServerCert(d)].issuer = disk'[CAKey].key
  BY <1>1 DEF DiskGrows, CertInv, Verifiable
<1> QED BY <1>1, <1>2, <1>3

\* The calls other than c, when c has made a step that changes no whole file.
LEMMA OtherCalls ==
    ASSUME CertInv, NEW c \in Calls, DiskGrows,
           \A b \in Calls : b # c => call'[b] = call[b],
           Working(c)' \/ call'[c] = NoCall
    PROVE  CallInv'
<1> SUFFICES ASSUME NEW b \in Calls, b # c, Working(b) PROVE Working(b)'
  BY DEF CallInv, CertInv
<1>1. PICK n \in 1..4, d \in OutDirs, i \in Keys, k \in Keys :
          call[b].todo = TodoOf(n, d, i, k) /\ Written(n, d, i, k)
  BY DEF Working
<1>2. Written(n, d, i, k)'
  BY <1>1, GrowsKeeps
<1> QED BY <1>1, <1>2 DEF Working

\* A call begins, or ends without another write.
LEMMA CertSame ==
    ASSUME CertInv, NEW c \in Calls, UNCHANGED disk, lastKey' \in 0..MaxKeys,
           call' \in [Calls -> [todo : Seq(Writes), filling : BOOLEAN]],
           \A b \in Calls : b # c => call'[b] = call[b],
           Working(c)' \/ call'[c] = NoCall, ~call'[c].filling, Len(call'[c].todo) <= 4
    PROVE  CertInv'
<1>1. CallInv'
  BY OtherCalls DEF DiskGrows
<1>2. CertTypeOK' /\ Verifiable'
  BY DEF CertInv, CertTypeOK, Verifiable, WholeCA
<1>3. FillsTorn' /\ OneFills'
  BY DEF CertInv, FillsTorn, OneFills, NextFile
<1> QED BY <1>1, <1>2, <1>3 DEF CertInv

LEMMA FourFiles ==
    ASSUME NEW a \in Writes, NEW b \in Writes, NEW e \in Writes, NEW f \in Writes
    PROVE  <<a, b>> \o <<e, f>> = <<a, b, e, f>>
<1> DEFINE q == <<a, b>> \o <<e, f>>
           r == <<a, b, e, f>>
<1>1. <<a, b>> \in Seq(Writes) /\ <<e, f>> \in Seq(Writes) /\ r \in Seq(Writes)
  OBVIOUS
<1>2. q \in Seq(Writes) /\ Len(q) = 4 /\ Len(r) = 4
  BY <1>1
<1>3. q[1] = a /\ q[2] = b /\ q[3] = e /\ q[4] = f
  BY <1>1
<1>4. \A i \in 1..4 : q[i] = r[i]
  BY <1>3
<1> HIDE DEF q, r
<1>5. r \in Seq(Writes)
  BY <1>1 DEF r
<1> QED BY <1>2, <1>4, <1>5, SeqEqual DEF q, r

LEMMA CallBegins ==
    ASSUME CertInv, NEW c \in Calls, ~call[c].filling, UNCHANGED disk, lastKey' \in 0..MaxKeys,
           NEW n \in 1..4, NEW d \in OutDirs, NEW i \in Keys, NEW k \in Keys, Written(n, d, i, k),
           call' = [call EXCEPT ![c].todo = TodoOf(n, d, i, k)]
    PROVE  CertInv'
<1> DEFINE todo == TodoOf(n, d, i, k)
<1>1. todo \in Seq(Writes) /\ Len(todo) <= 4
  <2>1. TodoOf(n, d, i, k) \in Seq(Writes) /\ Len(TodoOf(n, d, i, k)) = n
    BY TodoFacts
  <2> QED BY <2>1
<1>2. call' = [call EXCEPT ![c].todo = todo]
  OBVIOUS
<1> HIDE DEF todo
<1>3. /\ call' \in [Calls -> [todo : Seq(Writes), filling : BOOLEAN]]
      /\ call'[c].todo = todo /\ ~call'[c].filling
      /\ \A b \in Calls : b # c => call'[b] = call[b]
  BY <1>1, <1>2 DEF CertInv
<1>4. Written(n, d, i, k)'
  BY DEF Written
<1>5. Working(c)'
  BY <1>3, <1>4 DEF Working, todo
<1> QED BY <1>1, <1>3, <1>5, CertSame

LEMMA GenerateInv ==
    ASSUME CertInv, NEW c \in Calls, GenerateCA(c) \/ GenerateFromCA(c)
    PROVE  CertInv'
<1>1. lastKey \in Nat /\ MaxKeys \in Nat /\ ~call[c].filling
  <2>1. call[c].todo = <<>>
    BY DEF GenerateCA, GenerateFromCA
  <2>2. ~Working(c)
    BY <2>1, TodoFacts DEF Working
  <2> QED BY <2>2, CertAssumption DEF CertInv, CertTypeOK, CallInv, NoCall
<1>2. CASE GenerateCA(c)
  <2>1. PICK k \in Keys : k = lastKey + 1 /\ k + 1 \in Keys /\ lastKey' \in 0..MaxKeys
    BY <1>1, <1>2 DEF GenerateCA, Keys
  <2>2. PICK d \in OutDirs : call' = [call EXCEPT ![c].todo =
              <<Write(CAKey, Key(k)), Write(CACert, Cert(k, k))>> \o Identity(d, k, k + 1)]
    BY <1>2, <2>1 DEF GenerateCA
  <2>3. <<Write(CAKey, Key(k)), Write(CACert, Cert(k, k))>> \o Identity(d, k, k + 1)
            = TodoOf(4, d, k, k + 1)
    <3>1. \A q \in Paths, f \in KeyFiles \cup CertFiles : Write(q, f) \in Writes
      BY DEF Write, Writes
    <3>2. /\ Write(CAKey, Key(k)) \in Writes /\ Write(CACert, Cert(k, k)) \in Writes
          /\ Write(ServerKey(d), Key(k + 1)) \in Writes
          /\ Write(ServerCert(d), Cert(k, k + 1)) \in Writes
      BY <2>1, <3>1, PathsApart, Contents
    <3> QED BY <3>2, FourFiles DEF TodoOf, Identity
  <2>4. Written(4, d, k, k + 1) /\ UNCHANGED disk
    BY <1>2 DEF Written, GenerateCA
  <2>5. 4 \in 1..4
    OBVIOUS
  <2> QED BY <1>1, <2>1, <2>2, <2>3, <2>4, <2>5, CallBegins
<1>3. CASE GenerateFromCA(c)
  <2>1. PICK i \in Keys : i = disk[CAKey].key
    BY <1>3, Contents DEF GenerateFromCA, WholeCA
  <2>2. PICK k \in Keys : k = lastKey + 1 /\ lastKey' \in 0..MaxKeys
    BY <1>1, <1>3 DEF GenerateFromCA, Keys
  <2>3. PICK d \in OutDirs : call' = [call EXCEPT ![c].todo = Identity(d, i, k)]
    BY <1>3, <2>1, <2>2 DEF GenerateFromCA
  <2>4. Identity(d, i, k) = TodoOf(2, d, i, k)
    BY DEF TodoOf, Identity
  <2>5. Written(2, d, i, k) /\ UNCHANGED disk
    BY <1>3, <2>1, Contents DEF Written, GenerateFromCA, WholeCA
  <2>6. 2 \in 1..4
    OBVIOUS
  <2> QED BY <1>1, <2>2, <2>3, <2>4, <2>5, <2>6, CallBegins
<1> QED BY <1>2, <1>3

\* A call that ends writes nothing more.
LEMMA CallEnds ==
    ASSUME CertInv, NEW c \in Calls, call' = [call EXCEPT ![c] = NoCall],
           UNCHANGED <<disk, lastKey>>
    PROVE  CertInv'
<1>1. NoCall \in [todo : Seq(Writes), filling : BOOLEAN] /\ Len(NoCall.todo) <= 4 /\ ~NoCall.filling
  BY DEF NoCall
<1>2. /\ call' \in [Calls -> [todo : Seq(Writes), filling : BOOLEAN]] /\ call'[c] = NoCall
      /\ \A b \in Calls : b # c => call'[b] = call[b]
  BY <1>1 DEF CertInv
<1> QED BY <1>1, <1>2, CertSame DEF CertInv, CertTypeOK

LEMMA CreateInv ==
    ASSUME CertInv, NEW c \in Calls, CreateNew(c), disk[NextFile(c).path] = NoFile
    PROVE  CertInv'
<1>1. PICK n \in 1..4, d \in OutDirs, i \in Keys, k \in Keys : At(c, n, d, i, k)
  BY CallFacts DEF CreateNew
<1>2. PICK p \in Paths : p = NextFile(c).path
  BY <1>1 DEF At
<1>3. /\ disk[p] = NoFile /\ disk' = [disk EXCEPT ![p] = Torn]
      /\ call' = [call EXCEPT ![c].filling = TRUE] /\ UNCHANGED lastKey
  BY <1>2 DEF CreateNew
<1>4. disk'[p] = Torn /\ \A q \in Paths : q # p => disk'[q] = disk[q]
  BY <1>3 DEF CertInv, CertTypeOK
<1>5. DiskGrows
  BY <1>3, <1>4 DEF DiskGrows, Whole
<1>6. /\ call' \in [Calls -> [todo : Seq(Writes), filling : BOOLEAN]]
      /\ \A b \in Calls : b # c => call'[b] = call[b]
      /\ call'[c].filling /\ call'[c].todo = call[c].todo
  BY <1>3 DEF CertInv
<1>7. CertTypeOK'
  <2>1. disk' \in [Paths -> KeyFiles \cup CertFiles \cup {NoFile, Torn}]
    BY <1>3 DEF CertInv, CertTypeOK
  <2>2. \A q \in {CAKey} \cup {ServerKey(e) : e \in OutDirs} : q \in Paths /\ disk[q] \notin CertFiles
    BY PathsApart DEF CertInv, CertTypeOK
  <2>3. \A q \in {CAKey} \cup {ServerKey(e) : e \in OutDirs} : disk'[q] \notin CertFiles
    BY <1>4, <2>2, Contents
  <2>4. \A b \in Calls : Len(call'[b].todo) <= 4
    BY <1>6 DEF CertInv, CertTypeOK
  <2>5. lastKey' \in 0..MaxKeys
    BY <1>3 DEF CertInv, CertTypeOK
  <2> QED BY <2>1, <2>3, <2>4, <2>5 DEF CertTypeOK
<1>8. CallInv'
  <2>1. Written(n, d, i, k)'
    BY <1>1, <1>5, GrowsKeeps DEF At
  <2>2. Working(c)'
    BY <1>1, <1>6, <2>1 DEF Working, At
  <2> QED BY <1>5, <1>6, <2>2, OtherCalls
<1>9. \A b \in Calls : call[b].filling =>
          b # c /\ NextFile(b).path # p /\ NextFile(b).path \in Paths /\ disk[NextFile(b).path] = Torn
  BY <1>3, Filling, FilesAssumption DEF CreateNew
<1>10. \A b \in Calls : call'[b].filling => \/ b = c /\ NextFile(b)' = NextFile(b)
                                            \/ call[b].filling /\ NextFile(b)' = NextFile(b)
  BY <1>6 DEF NextFile
<1>11. FillsTorn'
  <2> SUFFICES ASSUME NEW b \in Calls, call'[b].filling PROVE disk'[(NextFile(b).path)'] = Torn
    BY DEF FillsTorn
  <2> QED BY <1>2, <1>4, <1>9, <1>10
<1>12. OneFills'
  <2> SUFFICES ASSUME NEW a \in Calls, NEW b \in Calls, call'[a].filling, call'[b].filling,
                      (NextFile(a).path)' = (NextFile(b).path)'
               PROVE  a = b
    BY DEF OneFills
  <2> QED BY <1>2, <1>9, <1>10 DEF CertInv, OneFills
<1>13. Verifiable'
  <2>1. \A e \in OutDirs : disk'[ServerCert(e)] \in CertFiles => disk'[ServerCert(e)] = disk[ServerCert(e)]
    BY <1>4, Contents, PathsApart
  <2> QED BY <1>5, <2>1, GrowsKeeps DEF Verifiable
<1> QED BY <1>6, <1>7, <1>8, <1>11, <1>12, <1>13 DEF CertInv

LEMMA FillInv ==
    ASSUME CertInv, NEW c \in Calls, Fill(c)
    PROVE  CertInv'
<1>0. call[c].filling /\ call[c].todo # <<>>
  BY Filling DEF Fill
<1>1. PICK n \in 1..4, d \in OutDirs, i \in Keys, k \in Keys : At(c, n, d, i, k)
  BY <1>0, CallFacts
<1>2. PICK p \in Paths : p = NextFile(c).path /\ p = FileOf(n, d)
  BY <1>1 DEF At
<1>3. PICK data \in KeyFiles \cup CertFiles : data = NextFile(c).data /\ data = DataOf(n, i, k)
  BY <1>1 DEF At
<1>4. /\ disk[p] = Torn /\ disk' = [disk EXCEPT ![p] = data] /\ UNCHANGED lastKey
      /\ call' = [call EXCEPT ![c] = [todo |-> Tail(call[c].todo), filling |-> FALSE]]
  BY <1>0, <1>2, <1>3, Filling DEF Fill
<1>5. disk'[p] = data /\ \A q \in Paths : q # p => disk'[q] = disk[q]
  BY <1>4 DEF CertInv, CertTypeOK
<1>6. DiskGrows
  BY <1>4, <1>5 DEF DiskGrows, Whole
<1>7. Tail(call[c].todo) \in Seq(Writes) /\ Len(Tail(call[c].todo)) <= 4
  <2>1. call[c].todo \in Seq(Writes) /\ Len(call[c].todo) <= 4
    BY DEF CertInv, CertTypeOK
  <2> QED BY <1>0, <2>1
<1>8. /\ call' \in [Calls -> [todo : Seq(Writes), filling : BOOLEAN]]
      /\ \A b \in Calls : b # c => call'[b] = call[b]
      /\ call'[c].filling = FALSE /\ call'[c].todo = Tail(call[c].todo)
      /\ call'[c] = [todo |-> Tail(call[c].todo), filling |-> FALSE]
  BY <1>4, <1>7 DEF CertInv
<1>9. Written(n, d, i, k)'
  BY <1>1, <1>6, GrowsKeeps DEF At
<1>10. call'[c] = NoCall \/ Working(c)'
  <2>1. CASE n = 1
    BY <1>1, <1>8, <2>1 DEF NoCall, At
  <2>2. CASE n > 1
    <3>1. n - 1 \in 1..4 /\ call'[c].todo = TodoOf(n - 1, d, i, k)
      BY <1>1, <1>8, <2>2 DEF At
    <3>2. Written(n - 1, d, i, k)'
      BY <1>2, <1>3, <1>5, <1>9, <2>2 DEF Written, FileOf, DataOf
    <3> QED BY <3>1, <3>2 DEF Working
  <2> QED BY <2>1, <2>2
<1>11. CallInv'
  BY <1>6, <1>8, <1>10, OtherCalls
<1>12. CertTypeOK'
  <2>1. p \in {CAKey} \cup {ServerKey(e) : e \in OutDirs} => data \notin CertFiles
    BY <1>2, <1>3, FileKinds
  <2>2. disk' \in [Paths -> KeyFiles \cup CertFiles \cup {NoFile, Torn}]
    BY <1>4 DEF CertInv, CertTypeOK
  <2>3. \A q \in {CAKey} \cup {ServerKey(e) : e \in OutDirs} : q \in Paths /\ disk[q] \notin CertFiles
    BY PathsApart DEF CertInv, CertTypeOK
  <2>4. \A q \in {CAKey} \cup {ServerKey(e) : e \in OutDirs} : disk'[q] \notin CertFiles
    BY <1>5, <2>1, <2>3
  <2>5. \A b \in Calls : Len(call'[b].todo) <= 4
    BY <1>7, <1>8 DEF CertInv, CertTypeOK
  <2>6. lastKey' \in 0..MaxKeys
    BY <1>4 DEF CertInv, CertTypeOK
  <2> QED BY <2>2, <2>4, <2>5, <2>6 DEF CertTypeOK
<1>13. \A b \in Calls : call'[b].filling => /\ call[b].filling /\ NextFile(b)' = NextFile(b)
                                            /\ NextFile(b).path # p /\ NextFile(b).path \in Paths
                                            /\ disk[NextFile(b).path] = Torn
  <2> SUFFICES ASSUME NEW b \in Calls, call'[b].filling
               PROVE  /\ call[b].filling /\ NextFile(b)' = NextFile(b)
                      /\ NextFile(b).path # p /\ NextFile(b).path \in Paths
                      /\ disk[NextFile(b).path] = Torn
    OBVIOUS
  <2>1. b # c /\ call[b].filling /\ NextFile(b)' = NextFile(b)
    BY <1>8 DEF NextFile
  <2> QED BY <1>0, <1>2, <2>1, Filling
<1>14. FillsTorn'
  <2> SUFFICES ASSUME NEW b \in Calls, call'[b].filling PROVE disk'[(NextFile(b).path)'] = Torn
    BY DEF FillsTorn
  <2> QED BY <1>5, <1>13
<1>15. OneFills'
  <2> SUFFICES ASSUME NEW a \in Calls, NEW b \in Calls, call'[a].filling, call'[b].filling,
                      (NextFile(a).path)' = (NextFile(b).path)'
               PROVE  a = b
    BY DEF OneFills
  <2> QED BY <1>13 DEF CertInv, OneFills
<1>16. Verifiable'
  <2> SUFFICES ASSUME NEW e \in OutDirs, disk'[ServerCert(e)] \in CertFiles
               PROVE  /\ disk'[ServerKey(e)] = Key(disk'[ServerCert(e)].key)
                      /\ WholeCA'
                      /\ disk'[ServerCert(e)].issuer = disk'[CAKey].key
    BY DEF Verifiable
  <2>1. CASE p = ServerCert(e)
    <3>1. n = 1 /\ d = e
      BY <1>2, <2>1, FileKinds
    <3>2. disk'[ServerCert(e)] = Cert(i, k) /\ disk'[CAKey] = Key(i)
          /\ disk'[CACert] = Cert(i, i) /\ disk'[ServerKey(e)] = Key(k)
      BY <1>3, <1>5, <1>9, <2>1, <3>1 DEF Written, DataOf
    <3> QED BY <3>2, Contents DEF WholeCA
  <2>2. CASE p # ServerCert(e)
    <3>1. disk'[ServerCert(e)] = disk[ServerCert(e)]
      BY <1>5, <2>2, PathsApart
    <3> QED BY <1>6, <3>1, GrowsKeeps
  <2> QED BY <2>1, <2>2
<1> QED BY <1>8, <1>11, <1>12, <1>14, <1>15, <1>16 DEF CertInv

LEMMA CertInit_Inv == CertInit => CertInv
<1> SUFFICES ASSUME CertInit PROVE CertInv
  OBVIOUS
<1> USE FilesAssumption, Contents, PathsApart, CertAssumption DEF CertInit, NoCall
<1>1. CertTypeOK
  <2>1. \A q \in {CAKey} \cup {ServerKey(d) : d \in OutDirs} : q \in Paths
    OBVIOUS
  <2>2. \A c \in Calls : Len(call[c].todo) = 0
    OBVIOUS
  <2> QED BY <2>1, <2>2 DEF CertTypeOK
<1>2. call \in [Calls -> [todo : Seq(Writes), filling : BOOLEAN]]
  OBVIOUS
<1>3. CallInv /\ FillsTorn /\ OneFills /\ Verifiable
  BY DEF CallInv, FillsTorn, OneFills, Verifiable
<1> QED BY <1>1, <1>2, <1>3 DEF CertInv

LEMMA CertStepInv == CertInv /\ [CertStep]_certVars => CertInv'
<1> SUFFICES ASSUME CertInv, [CertStep]_certVars PROVE CertInv'
  OBVIOUS
<1>1. ASSUME NEW c \in Calls, CreateNew(c) PROVE CertInv'
  BY <1>1, CreateInv, CallEnds DEF CreateNew
<1>2. ASSUME NEW c \in Calls, Stop(c) PROVE CertInv'
  BY <1>2, CallEnds DEF Stop
<1>3. CASE UNCHANGED certVars
  BY <1>3 DEF certVars, CertInv, CertTypeOK, CallInv, Working, Written, FillsTorn, OneFills,
              NextFile, Verifiable, WholeCA
<1> QED BY <1>1, <1>2, <1>3, GenerateInv, FillInv DEF CertStep

-----------------------------------------------------------------------------
(* ClientUpgrade *)

Preparing == {"metadata", "archive", "create", "extract", "ca", "createCA", "writeCA", "schedule"}
Moving == {"removeOld", "backUp", "replace", "restore"}

Commands == [pc : Steps, self : Client(CAs) \cup {NoFile},
             release : Releases \cup {NoFile, Torn},
             staged : Client(CAs) \cup {NoFile, Torn}, attempt : 0..MaxAttempts]

\* A command that is still a process holds the client it was started from; a script holds
\* a whole client without a CA, or nothing once that has become the executable.
CommandOK(s) ==
    /\ s.pc \in Preparing => s.self \in Client(CAs)
    /\ s.pc \in {"createCA", "writeCA"} => s.self.ca # NoEmbedded
    /\ s.pc \in Preparing \ {"metadata"} => s.release \in Releases
    /\ s.pc \in {"ca", "createCA", "writeCA", "schedule"} =>
        s.staged = [version |-> s.release, ca |-> NoEmbedded]
    /\ s.pc \in Moving =>
        s.staged = NoFile \/ \E v \in Releases : s.staged = [version |-> v, ca |-> NoEmbedded]
    /\ s.pc \in Script => s.attempt \in 1..MaxAttempts
    /\ s.pc = "cleanUp" => s.staged = NoFile

CommandInv == \A u \in Upgrades : CommandOK(upgrade[u])

\* Only a script that could not log goes on with nothing staged.
LogInv ==
    "notLogged" \notin history =>
        \A u \in Upgrades : upgrade[u].pc \in Moving => upgrade[u].staged # NoFile

\* The two names of the client hold no file that a write has left.
NamesInv == target # Torn /\ backup # Torn

\* A staged client that no failing command removes.
Staged(s) == Whole(s.staged) /\ s.pc \in {"idle"} \cup Script
StagedCopy == \E u \in Upgrades : Staged(upgrade[u])

\* There is a whole client, and a script removes or overwrites the old one only when there
\* is another.
CopyInv ==
    installed /\ ~Unlogged =>
        /\ Whole(target) \/ Whole(backup) \/ StagedCopy
        /\ \A u \in Upgrades :
            upgrade[u].pc \in {"cleanUp", "removeOld", "backUp"} => Whole(target) \/ StagedCopy

\* Two commands at work have been recorded as an overlap.
AloneInv ==
    "overlap" \notin history =>
        \A u, o \in Upgrades : upgrade[u].pc # "idle" /\ upgrade[o].pc # "idle" => u = o

\* While the executable is missing, the old one is kept under the other name.
GapInv ==
    installed /\ target = NoFile /\ history \subseteq {"notLogged"} =>
        backup # NoFile /\ \E u \in Upgrades : upgrade[u].pc \in {"replace", "restore"}

\* What a command is about to install is newer than what is there.
Old == IF Whole(target) THEN target ELSE backup

NewerOK(s) ==
    /\ s.pc \in Preparing => target = s.self
    /\ s.pc \in Preparing \ {"metadata"} =>
        s.self.version = Dev \/ Later(s.release, s.self.version)
    /\ s.pc \in Moving =>
        s.staged = NoFile \/ ~Whole(Old) \/ Old.version = Dev \/ Later(s.staged.version, Old.version)

NewerInv == "overlap" \notin history => \A u \in Upgrades : NewerOK(upgrade[u])

BeforeInstall ==
    ~installed => /\ target = NoFile /\ backup = NoFile /\ caFile \in {NoFile, EarlierCA}
                  /\ \A u \in Upgrades : upgrade[u].pc = "idle"

UpgradeInv ==
    /\ UpgradeTypeOK(CAs) /\ CommandInv /\ LogInv /\ NamesInv /\ CopyInv /\ AloneInv
    /\ GapInv /\ NewerInv /\ BeforeInstall

\* A client is a whole file.
LEMMA Clients ==
    /\ \A v \in Releases \cup {Dev}, ca \in CAs \cup {NoEmbedded} :
        [version |-> v, ca |-> ca] \in Client(CAs)
    /\ \A x \in Client(CAs) : Whole(x)
    /\ ~Whole(NoFile) /\ ~Whole(Torn)
    /\ \A x \in Client(CAs) : x.version \in Releases \cup {Dev}
    /\ \A v \in Releases : v # NoFile /\ v # Torn /\ v # Dev
BY ClientAssumption, UpgradeAssumption DEF Client, Whole

\* A command becomes s, and the client and its backup stay what they are.
LEMMA Quiet ==
    ASSUME UpgradeInv, NEW u \in Upgrades, NEW s \in Commands, Becomes(u, s),
           UNCHANGED <<installed, target, backup>>, installed, latest' \in Releases,
           caFile' \in CAs \cup {NoFile, Torn}, history \subseteq history',
           history' \subseteq {"overlap", "halfway", "notRestored", "notLogged"},
           CommandOK(s), Staged(upgrade[u]) => Staged(s) \/ Whole(target),
           s.pc \in Moving /\ "notLogged" \notin history' => s.staged # NoFile,
           s.pc \in {"cleanUp", "removeOld", "backUp"} /\ ~Unlogged' =>
              Whole(target) \/ Staged(s) \/ \E o \in Upgrades \ {u} : Staged(upgrade[o]),
           history' \subseteq {"notLogged"} =>
              (upgrade[u].pc \in {"replace", "restore"} /\ target = NoFile =>
                  s.pc \in {"replace", "restore"}),
           "overlap" \notin history' =>
              /\ upgrade[u].pc # "idle" \/ \A o \in Upgrades \ {u} : upgrade[o].pc = "idle"
              /\ NewerOK(s)
    PROVE  UpgradeInv'
<1>1. upgrade \in [Upgrades -> Commands]
  BY DEF UpgradeInv, UpgradeTypeOK, Commands
<1>2. /\ upgrade' \in [Upgrades -> Commands] /\ upgrade'[u] = s
      /\ \A o \in Upgrades \ {u} : upgrade'[o] = upgrade[o]
  BY <1>1 DEF Becomes
<1>3. UpgradeTypeOK(CAs)'
  BY <1>2 DEF UpgradeInv, UpgradeTypeOK, Commands
<1>4. CommandInv' /\ LogInv'
  BY <1>2 DEF UpgradeInv, CommandInv, LogInv
<1>5. StagedCopy => StagedCopy' \/ Whole(target)
  BY <1>2 DEF StagedCopy
<1>6. CopyInv'
  <2> SUFFICES ASSUME ~Unlogged'
               PROVE  /\ Whole(target) \/ Whole(backup) \/ StagedCopy'
                      /\ \A o \in Upgrades :
                            upgrade'[o].pc \in {"cleanUp", "removeOld", "backUp"} =>
                                Whole(target) \/ StagedCopy'
    BY DEF CopyInv
  <2>1. ~Unlogged
    BY DEF Unlogged
  <2>2. Staged(s) \/ (\E o \in Upgrades \ {u} : Staged(upgrade[o])) => StagedCopy'
    BY <1>2 DEF StagedCopy
  <2> QED BY <1>2, <1>5, <2>1, <2>2 DEF UpgradeInv, CopyInv
<1>7. AloneInv'
  BY <1>2 DEF UpgradeInv, AloneInv
<1>8. GapInv'
  BY <1>2 DEF UpgradeInv, GapInv
<1>9. NewerInv'
  <2> SUFFICES ASSUME "overlap" \notin history', NEW o \in Upgrades PROVE NewerOK(upgrade[o])'
    BY DEF NewerInv
  <2>1. NewerOK(upgrade'[o])
    BY <1>2 DEF UpgradeInv, NewerInv
  <2> QED BY <2>1 DEF NewerOK, Old
<1>10. NamesInv' /\ BeforeInstall'
  BY DEF UpgradeInv, NamesInv, BeforeInstall
<1> QED BY <1>3, <1>4, <1>6, <1>7, <1>8, <1>9, <1>10 DEF UpgradeInv

\* What newerReleaseAvailable accepts is later: the first part that differs decides.
LEMMA NewerIsLater ==
    ASSUME NEW v \in Releases \cup {Dev}, NEW r \in Releases, NewerReleaseAvailable(v, r)
    PROVE  v = Dev \/ Later(r, v)
<1> SUFFICES ASSUME v # Dev PROVE Later(r, v)
  OBVIOUS
<1>0. v \in [1..3 -> Nat] /\ r \in [1..3 -> Nat]
  BY UpgradeAssumption
<1> DEFINE differ == {i \in 1..3 : r[i] # v[i]}
<1>1. differ # {} /\ r[Min(differ)] > v[Min(differ)]
  BY DEF NewerReleaseAvailable
<1>2. \E x \in differ : \A y \in differ : x <= y
  <2>1. CASE 1 \in differ
    BY <2>1
  <2>2. CASE 1 \notin differ /\ 2 \in differ
    BY <2>2
  <2>3. CASE 1 \notin differ /\ 2 \notin differ
    BY <1>1, <2>3
  <2> QED BY <2>1, <2>2, <2>3
<1>3. Min(differ) \in differ /\ \A y \in differ : Min(differ) <= y
  BY <1>2 DEF Min
<1> HIDE DEF differ
<1>4. PICK m \in 1..3 : m = Min(differ)
  BY <1>3 DEF differ
<1>5. \A j \in 1..(m - 1) : r[j] = v[j]
  <2> SUFFICES ASSUME NEW j \in 1..(m - 1) PROVE r[j] = v[j]
    OBVIOUS
  <2>1. j \in 1..3 /\ ~(m <= j)
    OBVIOUS
  <2>2. j \notin differ
    BY <1>3, <1>4, <2>1
  <2> QED BY <2>1, <2>2 DEF differ
<1> QED BY <1>1, <1>4, <1>5 DEF Later

\* The commands of an upgrade that is at work.
LEMMA CommandFacts ==
    ASSUME UpgradeInv, NEW u \in Upgrades
    PROVE  /\ upgrade[u] \in Commands /\ CommandOK(upgrade[u])
           /\ "overlap" \notin history => NewerOK(upgrade[u])
           /\ NoUpgrade \in Commands /\ CommandOK(NoUpgrade) /\ NewerOK(NoUpgrade)
           /\ history \subseteq {"overlap", "halfway", "notRestored", "notLogged"}
           /\ latest \in Releases /\ caFile \in CAs \cup {NoFile, Torn}
           /\ target \in Client(CAs) \cup {NoFile} /\ backup \in Client(CAs) \cup {NoFile}
<1>1. MaxAttempts \in Nat
  BY UpgradeAssumption
<1>2. NoUpgrade \in Commands /\ CommandOK(NoUpgrade) /\ NewerOK(NoUpgrade)
  BY <1>1 DEF NoUpgrade, Commands, CommandOK, NewerOK, Steps, Preparing, Script, Moving
<1>3. upgrade \in [Upgrades -> Commands]
  BY DEF UpgradeInv, UpgradeTypeOK, Commands
<1> QED BY <1>2, <1>3 DEF UpgradeInv, UpgradeTypeOK, CommandInv, NewerInv, NamesInv

LEMMA StartInv ==
    ASSUME UpgradeInv, NEW u \in Upgrades, Start(u), UNCHANGED installed, installed
    PROVE  UpgradeInv'
<1>1. target \in Client(CAs) /\ Whole(target)
  BY CommandFacts, Clients DEF Start
<1>2. PICK s \in Commands : s = [NoUpgrade EXCEPT !.pc = "metadata", !.self = target]
  BY <1>1, CommandFacts DEF Commands, NoUpgrade, Steps
<1>3. s.pc = "metadata" /\ s.self = target
  BY <1>2 DEF NoUpgrade
<1>4. CommandOK(s) /\ NewerOK(s)
  BY <1>1, <1>3 DEF CommandOK, NewerOK, Preparing, Moving, Script
<1>5. /\ Becomes(u, s) /\ SameFiles /\ UNCHANGED latest
      /\ upgrade[u].pc = "idle" /\ history \subseteq history'
      /\ history' \subseteq {"overlap", "halfway", "notRestored", "notLogged"}
      /\ "overlap" \notin history' => \A o \in Upgrades \ {u} : upgrade[o].pc = "idle"
  BY <1>2, CommandFacts DEF Start
<1> QED BY <1>1, <1>3, <1>4, <1>5, CommandFacts, Quiet DEF SameFiles, Moving

\* A command that prepares an upgrade has staged nothing that counts.
LEMMA PreparingInv ==
    ASSUME UpgradeInv, NEW u \in Upgrades, NEW s \in Commands, Becomes(u, s),
           upgrade[u].pc \in Preparing, CommandOK(s), NewerOK(upgrade[u]) => NewerOK(s),
           s.pc \in Preparing \cup {"idle"} \/ (s.pc = "removeOld" /\ Staged(s)), installed,
           UNCHANGED <<installed, target, backup, latest, history>>,
           caFile' \in CAs \cup {NoFile, Torn}
    PROVE  UpgradeInv'
<1>0. /\ s.pc \in Moving => s.staged # NoFile
      /\ s.pc \in {"cleanUp", "removeOld", "backUp"} => Staged(s)
  BY Clients DEF Preparing, Moving, Staged
<1>1. ~Staged(upgrade[u])
  BY DEF Staged, Preparing, Script
<1>2. upgrade[u].pc \notin {"idle", "replace", "restore"}
  BY DEF Preparing
<1> QED BY <1>0, <1>1, <1>2, CommandFacts, Quiet

LEMMA PrepareInv ==
    ASSUME UpgradeInv, NEW u \in Upgrades, UNCHANGED installed, installed,
           \/ ReadMetadata(u) \/ ReadArchive(u) \/ CreateStaged(u) \/ Extract(u)
           \/ PreserveEmbeddedCA(u) \/ CreateCA(u) \/ WriteCA(u) \/ Schedule(u) \/ Fails(u)
    PROVE  UpgradeInv'
<1> DEFINE Goal(s) ==
             /\ Becomes(u, s) /\ upgrade[u].pc \in Preparing
             /\ s.pc \in Preparing \cup {"idle"} \/ (s.pc = "removeOld" /\ Staged(s))
             /\ CommandOK(s) /\ (NewerOK(upgrade[u]) => NewerOK(s))
             /\ UNCHANGED <<target, backup, latest, history>>
             /\ caFile' \in CAs \cup {NoFile, Torn}
<1> SUFFICES \E s \in Commands : Goal(s)
  BY PreparingInv
<1>1. /\ upgrade[u] \in Commands /\ CommandOK(upgrade[u]) /\ caFile \in CAs \cup {NoFile, Torn}
      /\ latest \in Releases
  BY CommandFacts
<1>2. /\ NoUpgrade \in Commands /\ CommandOK(NoUpgrade) /\ NewerOK(NoUpgrade)
      /\ NoUpgrade.pc = "idle"
  BY CommandFacts DEF NoUpgrade
<1>3. ASSUME Becomes(u, NoUpgrade), SameFiles, UNCHANGED <<latest, history>>,
             upgrade[u].pc \in Preparing
      PROVE  \E s \in Commands : Goal(s)
  BY <1>1, <1>2, <1>3 DEF SameFiles
\* The next step of the preparation, of the same client and release.
<1>4. ASSUME NEW p \in {"extract", "ca", "createCA", "writeCA", "schedule"},
             NEW f \in Client(CAs) \cup {NoFile, Torn},
             Becomes(u, [upgrade[u] EXCEPT !.pc = p, !.staged = f]),
             upgrade[u].pc \in Preparing \ {"metadata"},
             p # "extract" => f = [version |-> upgrade[u].release, ca |-> NoEmbedded],
             p \in {"createCA", "writeCA"} => upgrade[u].self.ca # NoEmbedded,
             UNCHANGED <<target, backup, latest, history>>, caFile' \in CAs \cup {NoFile, Torn}
      PROVE  \E s \in Commands : Goal(s)
  <2>1. PICK s \in Commands : s = [upgrade[u] EXCEPT !.pc = p, !.staged = f]
    BY <1>1, <1>4 DEF Commands, Steps, Script
  <2>2. /\ s.pc = p /\ s.self = upgrade[u].self /\ s.release = upgrade[u].release
        /\ s.staged = f
    BY <1>1, <2>1 DEF Commands
  <2>3. CommandOK(s) /\ (NewerOK(upgrade[u]) => NewerOK(s))
    BY <1>1, <1>4, <2>2 DEF CommandOK, NewerOK, Preparing, Moving, Script
  <2>4. s.pc \in Preparing
    BY <1>4, <2>2 DEF Preparing
  <2> QED BY <1>4, <2>1, <2>3, <2>4
<1>5. CASE ReadMetadata(u)
  <2>1. CASE ~NewerReleaseAvailable(upgrade[u].self.version, latest)
    BY <1>3, <1>5, <2>1 DEF ReadMetadata, Preparing
  <2>2. CASE NewerReleaseAvailable(upgrade[u].self.version, latest)
    <3>1. PICK s \in Commands : s = [upgrade[u] EXCEPT !.pc = "archive", !.release = latest]
      BY <1>1 DEF Commands, Steps
    <3>2. s.pc = "archive" /\ s.self = upgrade[u].self /\ s.release = latest
      BY <1>1, <3>1 DEF Commands
    <3>3. upgrade[u].pc = "metadata" /\ upgrade[u].self \in Client(CAs)
      BY <1>1, <1>5 DEF CommandOK, Preparing, ReadMetadata
    <3>4. upgrade[u].self.version = Dev \/ Later(latest, upgrade[u].self.version)
      BY <1>1, <2>2, <3>3, Clients, NewerIsLater
    <3>5. CommandOK(s) /\ (NewerOK(upgrade[u]) => NewerOK(s))
      BY <1>1, <3>2, <3>3, <3>4 DEF CommandOK, NewerOK, Preparing, Moving, Script
    <3>6. Becomes(u, s) /\ SameFiles /\ UNCHANGED <<latest, history>>
      BY <1>5, <2>2, <3>1 DEF ReadMetadata
    <3> QED BY <1>1, <3>2, <3>3, <3>5, <3>6 DEF SameFiles, Preparing
  <2> QED BY <2>1, <2>2
<1>6. CASE ReadArchive(u)
  <2>1. CASE Becomes(u, NoUpgrade)
    BY <1>3, <1>6, <2>1 DEF ReadArchive, Preparing
  <2>2. CASE Becomes(u, [upgrade[u] EXCEPT !.pc = "create"])
    <3>1. PICK s \in Commands : s = [upgrade[u] EXCEPT !.pc = "create"]
      BY <1>1 DEF Commands, Steps
    <3>2. s.pc = "create" /\ s.self = upgrade[u].self /\ s.release = upgrade[u].release
      BY <1>1, <3>1 DEF Commands
    <3>3. upgrade[u].pc = "archive"
      BY <1>6 DEF ReadArchive
    <3>4. CommandOK(s) /\ (NewerOK(upgrade[u]) => NewerOK(s))
      BY <1>1, <3>2, <3>3 DEF CommandOK, NewerOK, Preparing, Moving, Script
    <3> QED BY <1>1, <1>6, <2>2, <3>1, <3>2, <3>3, <3>4 DEF ReadArchive, SameFiles, Preparing
  <2> QED BY <1>6, <2>1, <2>2 DEF ReadArchive
<1>7. CASE CreateStaged(u)
  <2>1. Becomes(u, [upgrade[u] EXCEPT !.pc = "extract", !.staged = Torn])
    BY <1>7 DEF CreateStaged
  <2> QED BY <1>1, <1>4, <1>7, <2>1 DEF CreateStaged, SameFiles, Preparing
<1>8. CASE Extract(u)
  <2>1. upgrade[u].pc = "extract" /\ upgrade[u].release \in Releases
    BY <1>1, <1>8 DEF Extract, CommandOK, Preparing
  <2>2. PICK f \in Client(CAs) : f = [version |-> upgrade[u].release, ca |-> NoEmbedded]
    BY <2>1, Clients
  <2>3. Becomes(u, [upgrade[u] EXCEPT !.pc = "ca", !.staged = f])
    BY <1>8, <2>1, <2>2, Clients DEF Extract
  <2> QED BY <1>1, <1>4, <1>8, <2>1, <2>2, <2>3 DEF Extract, SameFiles, Preparing
\* Nothing is staged anew.
<1>9. ASSUME NEW p \in {"createCA", "writeCA", "schedule"}, Goes(u, p),
             upgrade[u].pc \in {"ca", "createCA", "writeCA"},
             p \in {"createCA", "writeCA"} => upgrade[u].self.ca # NoEmbedded,
             UNCHANGED <<target, backup, latest, history>>, caFile' \in CAs \cup {NoFile, Torn}
      PROVE  \E s \in Commands : Goal(s)
  <2>1. upgrade[u].staged = [version |-> upgrade[u].release, ca |-> NoEmbedded]
    BY <1>1, <1>9 DEF CommandOK
  <2>2. PICK f \in Client(CAs) \cup {NoFile, Torn} : f = upgrade[u].staged
    BY <1>1 DEF Commands
  <2>3. [upgrade[u] EXCEPT !.pc = p, !.staged = f] = [upgrade[u] EXCEPT !.pc = p]
    BY <1>1, <2>2 DEF Commands
  <2>4. Becomes(u, [upgrade[u] EXCEPT !.pc = p, !.staged = f])
    BY <1>9, <2>3 DEF Goes
  <2> QED BY <1>4, <1>9, <2>1, <2>2, <2>4 DEF Preparing
<1>10. CASE PreserveEmbeddedCA(u)
  <2>1. upgrade[u].pc = "ca" /\ SameFiles /\ UNCHANGED <<latest, history>>
    BY <1>10 DEF PreserveEmbeddedCA
  <2>2. \/ Goes(u, "schedule") \/ Becomes(u, NoUpgrade)
        \/ Goes(u, "createCA") /\ upgrade[u].self.ca # NoEmbedded
    BY <1>10 DEF PreserveEmbeddedCA
  <2> QED BY <1>1, <1>3, <1>9, <2>1, <2>2 DEF SameFiles, Preparing
<1>11. CASE CreateCA(u)
  BY <1>1, <1>9, <1>11 DEF CreateCA, CommandOK
<1>12. CASE WriteCA(u)
  <2>1. upgrade[u].self \in Client(CAs) /\ upgrade[u].self.ca # NoEmbedded
    BY <1>1, <1>12 DEF CommandOK, Preparing, WriteCA
  <2>2. caFile' \in CAs \cup {NoFile, Torn}
    BY <1>12, <2>1 DEF WriteCA, Client
  <2> QED BY <1>9, <1>12, <2>1, <2>2 DEF WriteCA
<1>13. CASE Schedule(u)
  <2>1. PICK s \in Commands :
            s = [upgrade[u] EXCEPT !.pc = "removeOld", !.attempt = 1, !.self = NoFile,
                                   !.release = NoFile]
    <3>1. 1 \in 0..MaxAttempts
      BY UpgradeAssumption
    <3> QED BY <1>1, <3>1 DEF Commands, Steps, Script
  <2>2. s.pc = "removeOld" /\ s.attempt = 1 /\ s.staged = upgrade[u].staged
    BY <1>1, <2>1 DEF Commands
  <2>3. /\ upgrade[u].pc = "schedule" /\ upgrade[u].release \in Releases
        /\ upgrade[u].staged = [version |-> upgrade[u].release, ca |-> NoEmbedded]
        /\ upgrade[u].self \in Client(CAs)
    BY <1>1, <1>13 DEF CommandOK, Preparing, Schedule
  <2>4. CommandOK(s)
    <3>1. 1 \in 1..MaxAttempts
      BY UpgradeAssumption
    <3> QED BY <2>2, <2>3, <3>1 DEF CommandOK, Preparing, Moving, Script
  <2>5. NewerOK(upgrade[u]) => NewerOK(s)
    <3> SUFFICES ASSUME NewerOK(upgrade[u]) PROVE NewerOK(s)
      OBVIOUS
    <3>1. /\ target = upgrade[u].self
          /\ target.version = Dev \/ Later(upgrade[u].release, target.version)
      BY <2>3 DEF NewerOK, Preparing
    <3>2. Old = target
      BY <2>3, <3>1, Clients DEF Old
    <3>3. s.staged.version = upgrade[u].release
      BY <2>2, <2>3
    <3> QED BY <2>2, <3>1, <3>2, <3>3 DEF NewerOK, Preparing
  <2>6. Staged(s)
    BY <2>2, <2>3, Clients DEF Staged, Script
  <2> QED BY <1>1, <1>13, <2>1, <2>2, <2>3, <2>4, <2>5, <2>6 DEF Schedule, SameFiles, Preparing
<1>14. CASE Fails(u)
  <2>1. upgrade[u].pc \in Preparing
    BY <1>1, <1>14 DEF Fails, Commands, Steps, Preparing, Script
  <2> QED BY <1>3, <1>14, <2>1 DEF Fails
<1> QED BY <1>5, <1>6, <1>7, <1>8, <1>10, <1>11, <1>12, <1>13, <1>14

\* A command is killed: what it has staged stays.
LEMMA KillInv ==
    ASSUME UpgradeInv, NEW u \in Upgrades, Kill(u), UNCHANGED installed, installed
    PROVE  UpgradeInv'
<1>1. upgrade[u] \in Commands
  BY CommandFacts
<1>2. PICK s \in Commands : s = [NoUpgrade EXCEPT !.staged = upgrade[u].staged]
  BY <1>1, CommandFacts DEF Commands, NoUpgrade
<1>3. s.pc = "idle" /\ s.staged = upgrade[u].staged
  BY <1>2 DEF NoUpgrade
<1>4. CommandOK(s) /\ NewerOK(s) /\ (Staged(upgrade[u]) => Staged(s))
  BY <1>3 DEF CommandOK, NewerOK, Staged, Preparing, Moving, Script
<1>5. /\ Becomes(u, s) /\ SameFiles /\ UNCHANGED latest /\ upgrade[u].pc # "idle"
      /\ history \subseteq history' /\ history' \subseteq {"overlap", "halfway", "notRestored", "notLogged"}
      /\ upgrade[u].pc \in {"replace", "restore"} => "halfway" \in history'
  BY <1>2, CommandFacts DEF Kill
<1> QED BY <1>1, <1>3, <1>4, <1>5, CommandFacts, Quiet DEF SameFiles, Moving

\* What is there while a script moves files.
LEMMA MovingFacts ==
    ASSUME UpgradeInv, NEW u \in Upgrades, upgrade[u].pc \in Moving
    PROVE  /\ upgrade[u].staged # NoFile =>
                /\ Staged(upgrade[u]) /\ upgrade[u].staged \in Client(CAs)
                /\ upgrade[u].staged.version \in Releases
                /\ upgrade[u].staged.ca = NoEmbedded
           /\ upgrade[u].staged = NoFile => "notLogged" \in history
           /\ ~Unlogged => upgrade[u].staged # NoFile \/ "overlap" \notin history
           /\ "overlap" \notin history => \A o \in Upgrades \ {u} : upgrade[o].pc = "idle"
<1>1. upgrade[u].staged # NoFile =>
        \E v \in Releases : upgrade[u].staged = [version |-> v, ca |-> NoEmbedded]
  BY CommandFacts DEF CommandOK
<1>2. upgrade[u].staged # NoFile =>
        /\ upgrade[u].staged \in Client(CAs) /\ Staged(upgrade[u])
        /\ upgrade[u].staged.version \in Releases /\ upgrade[u].staged.ca = NoEmbedded
  <2> SUFFICES ASSUME upgrade[u].staged # NoFile
               PROVE  /\ upgrade[u].staged \in Client(CAs) /\ Staged(upgrade[u])
                      /\ upgrade[u].staged.version \in Releases
                      /\ upgrade[u].staged.ca = NoEmbedded
    OBVIOUS
  <2>1. PICK v \in Releases : upgrade[u].staged = [version |-> v, ca |-> NoEmbedded]
    BY <1>1
  <2> QED BY <2>1, Clients DEF Staged, Moving, Script
<1>3. "overlap" \notin history => \A o \in Upgrades \ {u} : upgrade[o].pc = "idle"
  BY DEF UpgradeInv, AloneInv, Moving
<1>4. upgrade[u].staged = NoFile => "notLogged" \in history
  BY DEF UpgradeInv, LogInv
<1> QED BY <1>2, <1>3, <1>4 DEF Unlogged

\* A script moves the client or its backup, or removes one of them.
LEMMA Moves ==
    ASSUME UpgradeInv, NEW u \in Upgrades, upgrade[u].pc \in Script, installed,
           NEW s \in Commands, Becomes(u, s), CommandOK(s),
           UNCHANGED <<installed, latest, caFile>>, history \subseteq history',
           history' \subseteq history \cup {"notLogged"},
           target' \in Client(CAs) \cup {NoFile}, backup' \in Client(CAs) \cup {NoFile},
           s.pc \in Moving /\ "notLogged" \notin history' => s.staged # NoFile,
           ~Unlogged' =>
              \/ Whole(target') \/ Staged(s) \/ \E o \in Upgrades \ {u} : Staged(upgrade[o])
              \/ Whole(backup') /\ s.pc \in {"replace", "restore"} /\ "overlap" \notin history',
           history' \subseteq {"notLogged"} /\ target' = NoFile =>
              backup' # NoFile /\ s.pc \in {"replace", "restore"},
           "overlap" \notin history /\ s.pc \in Moving /\ s.staged # NoFile =>
              LET old == IF Whole(target') THEN target' ELSE backup' IN
              ~Whole(old) \/ old.version = Dev \/ Later(s.staged.version, old.version),
           s.pc \in {"idle"} \cup Script
    PROVE  UpgradeInv'
<1>1. upgrade \in [Upgrades -> Commands]
  BY DEF UpgradeInv, UpgradeTypeOK, Commands
<1>2. /\ upgrade' \in [Upgrades -> Commands] /\ upgrade'[u] = s
      /\ \A o \in Upgrades \ {u} : upgrade'[o] = upgrade[o]
  BY <1>1 DEF Becomes
<1>3. UpgradeTypeOK(CAs)'
  BY <1>2 DEF UpgradeInv, UpgradeTypeOK, Commands
<1>4. CommandInv' /\ LogInv' /\ NamesInv'
  <2>1. CommandInv' /\ LogInv'
    BY <1>2 DEF UpgradeInv, CommandInv, LogInv
  <2>2. NamesInv'
    BY Clients, FilesAssumption DEF NamesInv, Whole
  <2> QED BY <2>1, <2>2
<1>5. "overlap" \notin history' => \A o \in Upgrades \ {u} : upgrade'[o].pc = "idle"
  BY <1>2 DEF UpgradeInv, AloneInv, Script
<1>6. CopyInv'
  <2> SUFFICES ASSUME ~Unlogged'
               PROVE  /\ Whole(target') \/ Whole(backup') \/ StagedCopy'
                      /\ \A o \in Upgrades :
                            upgrade'[o].pc \in {"cleanUp", "removeOld", "backUp"} =>
                                Whole(target') \/ StagedCopy'
    BY DEF CopyInv
  <2>1. Staged(s) \/ (\E o \in Upgrades \ {u} : Staged(upgrade[o])) => StagedCopy'
    BY <1>2 DEF StagedCopy
  <2>2. CASE Whole(target') \/ StagedCopy'
    BY <2>2
  <2>3. CASE Whole(backup') /\ s.pc \in {"replace", "restore"} /\ "overlap" \notin history'
    BY <1>2, <1>5, <2>3
  <2> QED BY <2>1, <2>2, <2>3
<1>7. AloneInv'
  BY <1>2 DEF UpgradeInv, AloneInv, Script
<1>8. GapInv'
  BY <1>2 DEF GapInv
<1>9. NewerInv'
  <2> SUFFICES ASSUME "overlap" \notin history', NEW o \in Upgrades PROVE NewerOK(upgrade[o])'
    BY DEF NewerInv
  <2>1. CASE o # u
    <3>1. upgrade'[o].pc = "idle"
      BY <1>2, <2>1 DEF UpgradeInv, AloneInv, Script
    <3> QED BY <3>1 DEF NewerOK, Preparing, Moving
  <2>2. CASE o = u
    <3>1. upgrade'[o] = s /\ s.pc \notin Preparing
      BY <1>2, <2>2 DEF Preparing, Script
    <3> QED BY <3>1 DEF NewerOK, Old
  <2> QED BY <2>1, <2>2
<1>10. BeforeInstall'
  BY DEF BeforeInstall
<1> QED BY <1>3, <1>4, <1>6, <1>7, <1>8, <1>9, <1>10 DEF UpgradeInv

LEMMA ScriptInv ==
    ASSUME UpgradeInv, NEW u \in Upgrades, UNCHANGED installed, installed,
           RemoveOld(u) \/ BackUp(u) \/ Replace(u) \/ CleanUp(u) \/ Restore(u)
    PROVE  UpgradeInv'
<1> DEFINE Goal(s) ==
             /\ Becomes(u, s) /\ CommandOK(s) /\ s.pc \in {"idle"} \cup Script
             /\ UNCHANGED <<latest, caFile>> /\ history \subseteq history'
             /\ history' \subseteq history \cup {"notLogged"}
             /\ target' \in Client(CAs) \cup {NoFile} /\ backup' \in Client(CAs) \cup {NoFile}
             /\ s.pc \in Moving /\ "notLogged" \notin history' => s.staged # NoFile
             /\ ~Unlogged' =>
                  \/ Whole(target') \/ Staged(s) \/ \E o \in Upgrades \ {u} : Staged(upgrade[o])
                  \/ Whole(backup') /\ s.pc \in {"replace", "restore"} /\ "overlap" \notin history'
             /\ history' \subseteq {"notLogged"} /\ target' = NoFile =>
                  backup' # NoFile /\ s.pc \in {"replace", "restore"}
             /\ "overlap" \notin history /\ s.pc \in Moving /\ s.staged # NoFile =>
                  LET old == IF Whole(target') THEN target' ELSE backup' IN
                  ~Whole(old) \/ old.version = Dev \/ Later(s.staged.version, old.version)
<1>0. /\ upgrade[u] \in Commands /\ CommandOK(upgrade[u])
      /\ "overlap" \notin history => NewerOK(upgrade[u])
      /\ target \in Client(CAs) \cup {NoFile} /\ backup \in Client(CAs) \cup {NoFile}
      /\ NoUpgrade \in Commands /\ CommandOK(NoUpgrade)
  BY CommandFacts
<1>1. upgrade[u].pc \in Script
  BY DEF RemoveOld, BackUp, Replace, CleanUp, Restore, Script
\* A script that goes on with what it has staged.
<1>2. ASSUME NEW p \in {"backUp", "replace", "restore"}, upgrade[u].pc \in Moving
      PROVE  \E s \in Commands : /\ s = [upgrade[u] EXCEPT !.pc = p]
                                 /\ s.pc = p /\ s.staged = upgrade[u].staged
                                 /\ CommandOK(s) /\ (s.staged # NoFile => Staged(s))
  <2>1. PICK s \in Commands : s = [upgrade[u] EXCEPT !.pc = p]
    BY <1>0 DEF Commands, Steps, Script
  <2>2. s.pc = p /\ s.staged = upgrade[u].staged /\ s.attempt = upgrade[u].attempt
    BY <1>0, <2>1 DEF Commands
  <2>3. s.staged # NoFile => Staged(s)
    BY <1>2, <2>2, MovingFacts DEF Staged, Script
  <2>4. CommandOK(s)
    BY <1>0, <1>1, <1>2, <2>2 DEF CommandOK, Preparing, Moving, Script
  <2> QED BY <2>1, <2>2, <2>3, <2>4
<1>3. "overlap" \notin history /\ upgrade[u].pc \in Moving /\ upgrade[u].staged # NoFile =>
          ~Whole(Old) \/ Old.version = Dev \/ Later(upgrade[u].staged.version, Old.version)
  BY <1>0 DEF NewerOK
\* The executable is missing only in the two steps.
<1>4. target = NoFile /\ history \subseteq {"notLogged"} =>
          backup # NoFile /\ upgrade[u].pc \in {"replace", "restore"}
  BY <1>1 DEF UpgradeInv, GapInv, AloneInv, Script
\* A copy that the script has not staged itself.
<1>4a. \/ Unlogged
       \/ upgrade[u].staged # NoFile /\ upgrade[u].pc \in Moving
       \/ /\ Whole(target) \/ Whole(backup) \/ \E o \in Upgrades \ {u} : Staged(upgrade[o])
          /\ upgrade[u].pc \in {"cleanUp", "removeOld", "backUp"} =>
               Whole(target) \/ \E o \in Upgrades \ {u} : Staged(upgrade[o])
  <2> SUFFICES ASSUME ~Unlogged, upgrade[u].staged = NoFile \/ upgrade[u].pc \notin Moving
               PROVE  /\ Whole(target) \/ Whole(backup)
                            \/ \E o \in Upgrades \ {u} : Staged(upgrade[o])
                      /\ upgrade[u].pc \in {"cleanUp", "removeOld", "backUp"} =>
                            Whole(target) \/ \E o \in Upgrades \ {u} : Staged(upgrade[o])
    OBVIOUS
  <2>1. ~Staged(upgrade[u])
    BY <1>0, <1>1, Clients DEF Staged, CommandOK, Moving, Script
  <2> QED BY <2>1 DEF UpgradeInv, CopyInv, StagedCopy
<1>4b. upgrade[u].pc \in Moving /\ "notLogged" \notin history => upgrade[u].staged # NoFile
  BY MovingFacts
<1>4c. Unlogged \/ "overlap" \notin history \/ "notLogged" \notin history
  BY DEF Unlogged
<1>5. CASE RemoveOld(u)
  <2>1. PICK s \in Commands : /\ s = [upgrade[u] EXCEPT !.pc = "backUp"]
                              /\ s.pc = "backUp" /\ s.staged = upgrade[u].staged
                              /\ CommandOK(s) /\ (s.staged # NoFile => Staged(s))
    BY <1>2, <1>5 DEF RemoveOld, Moving
  <2>2. Becomes(u, s)
    BY <1>5, <2>1 DEF RemoveOld, Goes
  <2>3. /\ upgrade[u].pc = "removeOld" /\ UNCHANGED <<latest, target, caFile, history>>
        /\ backup' \in {NoFile, backup}
    BY <1>5 DEF RemoveOld
  <2>4. Unlogged' \/ Whole(target') \/ Staged(s) \/ \E o \in Upgrades \ {u} : Staged(upgrade[o])
    BY <1>4a, <2>1, <2>3 DEF Unlogged
  <2>5. Goal(s)
    BY <1>0, <1>3, <1>4, <1>4b, <2>1, <2>2, <2>3, <2>4, Clients DEF Moving, Script, Old
  <2> QED BY <1>1, <2>5, Moves
<1>6. CASE BackUp(u)
  <2>0. upgrade[u].pc = "backUp" /\ UNCHANGED <<latest, caFile, history>>
    BY <1>6 DEF BackUp
  <2>1. CASE target # NoFile /\ backup' = target /\ target' = NoFile /\ Goes(u, "replace")
    <3>1. PICK s \in Commands : /\ s = [upgrade[u] EXCEPT !.pc = "replace"]
                                /\ s.pc = "replace" /\ s.staged = upgrade[u].staged
                                /\ CommandOK(s) /\ (s.staged # NoFile => Staged(s))
      BY <1>2, <2>0 DEF Moving
    <3>2. Becomes(u, s)
      BY <2>1, <3>1 DEF Goes
    <3>3. Whole(target) /\ Old = target /\ ~Whole(target')
      BY <1>0, <2>1, Clients DEF Old
    <3>4. ~Unlogged' => Staged(s) \/ (Whole(backup') /\ "overlap" \notin history')
      BY <1>4b, <1>4c, <2>0, <2>1, <3>1, <3>3 DEF Unlogged, Moving
    <3>5. Goal(s)
      BY <1>0, <1>3, <1>4b, <2>0, <2>1, <3>1, <3>2, <3>3, <3>4 DEF Moving, Script
    <3> QED BY <1>1, <3>5, Moves
  <2>2. CASE Goes(u, "restore") /\ UNCHANGED <<target, backup>>
    <3>1. PICK s \in Commands : /\ s = [upgrade[u] EXCEPT !.pc = "restore"]
                                /\ s.pc = "restore" /\ s.staged = upgrade[u].staged
                                /\ CommandOK(s) /\ (s.staged # NoFile => Staged(s))
      BY <1>2, <2>0 DEF Moving
    <3>2. Becomes(u, s)
      BY <2>2, <3>1 DEF Goes
    <3>3. Unlogged' \/ Whole(target') \/ Staged(s) \/ \E o \in Upgrades \ {u} : Staged(upgrade[o])
      BY <1>4a, <2>0, <2>2, <3>1 DEF Unlogged
    <3>4. Goal(s)
      BY <1>0, <1>3, <1>4, <1>4b, <2>0, <2>2, <3>1, <3>2, <3>3 DEF Moving, Script, Old
    <3> QED BY <1>1, <3>4, Moves
  <2> QED BY <1>6, <2>1, <2>2 DEF BackUp
<1>7. CASE Replace(u)
  <2>0. upgrade[u].pc = "replace" /\ UNCHANGED <<latest, backup, caFile, history>>
    BY <1>7 DEF Replace
  <2>1. CASE /\ upgrade[u].staged # NoFile /\ target' = upgrade[u].staged
             /\ Becomes(u, [upgrade[u] EXCEPT !.pc = "cleanUp", !.staged = NoFile])
    <3>1. PICK s \in Commands : s = [upgrade[u] EXCEPT !.pc = "cleanUp", !.staged = NoFile]
      BY <1>0 DEF Commands, Steps, Script
    <3>2. s.pc = "cleanUp" /\ s.staged = NoFile /\ s.attempt = upgrade[u].attempt
      BY <1>0, <3>1 DEF Commands
    <3>3. CommandOK(s)
      BY <1>0, <1>1, <3>2 DEF CommandOK, Preparing, Moving, Script
    <3>4. target' \in Client(CAs) /\ Whole(target') /\ target' # NoFile
      BY <2>0, <2>1, MovingFacts, Clients DEF Moving
    <3>5. Goal(s)
      BY <1>0, <2>0, <2>1, <3>1, <3>2, <3>3, <3>4 DEF Moving, Script
    <3> QED BY <1>1, <3>5, Moves
  <2>2. CASE Goes(u, "restore") /\ UNCHANGED target
    <3>1. PICK s \in Commands : /\ s = [upgrade[u] EXCEPT !.pc = "restore"]
                                /\ s.pc = "restore" /\ s.staged = upgrade[u].staged
                                /\ CommandOK(s) /\ (s.staged # NoFile => Staged(s))
      BY <1>2, <2>0 DEF Moving
    <3>2. Becomes(u, s)
      BY <2>2, <3>1 DEF Goes
    <3>3. \/ Unlogged' \/ Whole(target') \/ Staged(s)
          \/ \E o \in Upgrades \ {u} : Staged(upgrade[o])
          \/ Whole(backup') /\ "overlap" \notin history'
      <4>1. CASE upgrade[u].staged # NoFile
        BY <3>1, <4>1
      <4>2. CASE upgrade[u].staged = NoFile
        BY <1>4a, <1>4b, <1>4c, <2>0, <2>2, <4>2 DEF Unlogged, Moving
      <4> QED BY <4>1, <4>2
    <3>4. Goal(s)
      BY <1>0, <1>3, <1>4, <1>4b, <2>0, <2>2, <3>1, <3>2, <3>3 DEF Moving, Script, Old
    <3> QED BY <1>1, <3>4, Moves
  <2> QED BY <1>7, <2>1, <2>2 DEF Replace
<1>8. CASE CleanUp(u)
  <2>0. /\ upgrade[u].pc = "cleanUp" /\ upgrade[u].staged = NoFile
        /\ backup' \in {NoFile, backup} /\ UNCHANGED <<latest, target, caFile>>
    BY <1>0, <1>8 DEF CleanUp, CommandOK
  <2>1. Unlogged \/ Whole(target') \/ \E o \in Upgrades \ {u} : Staged(upgrade[o])
    BY <1>4a, <2>0 DEF Moving
  <2>2. target' = NoFile => ~(history \subseteq {"notLogged"})
    BY <1>4, <2>0
  <2>3. CASE Becomes(u, NoUpgrade) /\ UNCHANGED history
    <3>1. NoUpgrade.pc = "idle"
      BY DEF NoUpgrade
    <3>2. Unlogged => Unlogged'
      BY <2>3 DEF Unlogged
    <3>3. Goal(NoUpgrade)
      BY <1>0, <2>0, <2>1, <2>2, <2>3, <3>1, <3>2 DEF Moving, Script
    <3> QED BY <1>0, <1>1, <3>3, Moves
  <2>4. CASE Goes(u, "restore") /\ history' = history \cup {"notLogged"}
    <3>1. PICK s \in Commands : s = [upgrade[u] EXCEPT !.pc = "restore"]
      BY <1>0 DEF Commands, Steps, Script
    <3>2. s.pc = "restore" /\ s.staged = NoFile /\ s.attempt = upgrade[u].attempt
      BY <1>0, <2>0, <3>1 DEF Commands
    <3>3. CommandOK(s)
      BY <1>0, <1>1, <3>2 DEF CommandOK, Preparing, Moving, Script
    <3>4. Becomes(u, s) /\ (Unlogged => Unlogged')
      BY <2>4, <3>1 DEF Goes, Unlogged
    <3>5. target' = NoFile => ~(history' \subseteq {"notLogged"})
      BY <2>2, <2>4
    <3>6. Goal(s)
      BY <1>0, <2>0, <2>1, <2>4, <3>2, <3>3, <3>4, <3>5 DEF Moving, Script
    <3> QED BY <1>1, <3>6, Moves
  <2> QED BY <1>8, <2>3, <2>4 DEF CleanUp
<1>9. CASE Restore(u)
  <2>1. PICK s \in Commands :
            /\ Becomes(u, s) /\ s.pc \in {"idle", "removeOld"} /\ s.staged = upgrade[u].staged
            /\ CommandOK(s) /\ (s.staged # NoFile => Staged(s))
    <3>0. upgrade[u].pc = "restore" /\ MaxAttempts \in Nat
      BY <1>9, UpgradeAssumption DEF Restore
    <3>1. upgrade[u].staged # NoFile => Staged(upgrade[u])
      BY <3>0, MovingFacts DEF Moving
    <3>2. CASE upgrade[u].attempt < MaxAttempts
      <4>1. PICK n \in 1..MaxAttempts : n \in 0..MaxAttempts /\ n = upgrade[u].attempt + 1
        BY <1>0, <3>0, <3>2 DEF Commands
      <4>2. PICK s \in Commands : s = [upgrade[u] EXCEPT !.pc = "removeOld", !.attempt = n]
        BY <1>0, <4>1 DEF Commands, Steps, Script
      <4>3. s.pc = "removeOld" /\ s.staged = upgrade[u].staged /\ s.attempt = n
        BY <1>0, <4>2 DEF Commands
      <4>4. CommandOK(s)
        BY <1>0, <3>0, <4>1, <4>3 DEF CommandOK, Preparing, Moving, Script
      <4>5. s.staged # NoFile => Staged(s)
        BY <3>1, <4>3 DEF Staged, Script
      <4>6. Becomes(u, s)
        BY <1>9, <3>2, <4>1, <4>2 DEF Restore, Again
      <4> QED BY <4>3, <4>4, <4>5, <4>6
    <3>3. CASE ~(upgrade[u].attempt < MaxAttempts)
      <4>1. PICK s \in Commands : s = [NoUpgrade EXCEPT !.staged = upgrade[u].staged]
        BY <1>0 DEF Commands, NoUpgrade
      <4>2. s.pc = "idle" /\ s.staged = upgrade[u].staged
        BY <4>1 DEF NoUpgrade
      <4>3. CommandOK(s) /\ (s.staged # NoFile => Staged(s))
        BY <3>1, <4>2 DEF CommandOK, Staged, Preparing, Moving, Script
      <4>4. Becomes(u, s)
        BY <1>9, <3>3, <4>1 DEF Restore, Again
      <4> QED BY <4>2, <4>3, <4>4
    <3> QED BY <3>2, <3>3
  <2>2. upgrade[u].pc = "restore" /\ UNCHANGED <<latest, caFile>>
    BY <1>9 DEF Restore
  <2>3. "overlap" \notin history => NewerOK(s)
    BY <1>3, <2>1, <2>2 DEF NewerOK, Preparing, Moving
  \* Nothing to put back, or it cannot be put back.
  <2>4. CASE /\ UNCHANGED <<target, backup>>
             /\ \/ UNCHANGED history /\ (target # NoFile \/ backup = NoFile)
                \/ history' = history \cup {"notRestored"}
    <3>1. /\ history \subseteq history'
          /\ history' \subseteq {"overlap", "halfway", "notRestored", "notLogged"}
          /\ ~(target = NoFile /\ history' \subseteq {"notLogged"})
      BY <1>4, <2>4, CommandFacts
    <3>2. "notLogged" \notin history' => s.staged # NoFile
      BY <1>4b, <2>1, <2>2, <3>1 DEF Moving
    <3>3. ~Unlogged' => Whole(target) \/ Staged(s) \/ \E o \in Upgrades \ {u} : Staged(upgrade[o])
      <4>1. CASE s.staged # NoFile
        BY <2>1, <4>1
      <4>2. CASE UNCHANGED history /\ (target # NoFile \/ backup = NoFile) /\ s.staged = NoFile
        BY <1>0, <1>4a, <2>1, <4>2, Clients DEF Unlogged
      <4>3. CASE history' = history \cup {"notRestored"} /\ s.staged = NoFile
        BY <3>2, <4>3 DEF Unlogged
      <4> QED BY <2>4, <4>1, <4>2, <4>3
    <3>4. Staged(upgrade[u]) => Staged(s)
      BY <2>1, Clients DEF Staged
    <3>5. s.pc \notin {"cleanUp", "backUp", "replace", "restore"}
      BY <2>1
    <3> QED BY <2>1, <2>2, <2>3, <2>4, <3>1, <3>2, <3>3, <3>4, <3>5, CommandFacts, Quiet
  <2>5. CASE target = NoFile /\ backup # NoFile /\ target' = backup /\ backup' = NoFile /\ UNCHANGED history
    <3>1. Old = backup /\ Whole(target') /\ target' # NoFile
      BY <1>0, <2>5, Clients DEF Old
    <3>2. Goal(s)
      BY <1>0, <1>3, <1>4b, <2>1, <2>2, <2>5, <3>1 DEF Moving, Script
    <3> QED BY <1>1, <3>2, Moves
  <2> QED BY <1>9, <2>4, <2>5 DEF Restore
<1> QED BY <1>5, <1>6, <1>7, <1>8, <1>9

LEMMA InstallInv ==
    ASSUME UpgradeInv, NEW client \in Client(CAs), Install(client)
    PROVE  UpgradeInv'
<1>1. Whole(target') /\ target' \in Client(CAs)
  BY Clients DEF Install
<1>2. UpgradeTypeOK(CAs)' /\ CommandInv' /\ LogInv' /\ AloneInv'
  BY DEF Install, UpgradeInv, UpgradeTypeOK, CommandInv, LogInv, AloneInv, Moving
<1>3. NamesInv' /\ CopyInv' /\ GapInv'
  BY <1>1, Clients DEF Install, UpgradeInv, NamesInv, CopyInv, GapInv
<1>4. NewerInv'
  BY DEF Install, NewerInv, NewerOK, Preparing, Moving
<1>5. BeforeInstall'
  BY DEF Install, BeforeInstall
<1> QED BY <1>2, <1>3, <1>4, <1>5 DEF UpgradeInv

LEMMA UpgradeInit_Inv == UpgradeInit({NoFile, EarlierCA}) => UpgradeInv
<1> SUFFICES ASSUME UpgradeInit({NoFile, EarlierCA}) PROVE UpgradeInv
  OBVIOUS
<1>1. \A u \in Upgrades : upgrade[u] = NoUpgrade /\ upgrade[u].pc = "idle"
  BY DEF UpgradeInit, NoUpgrade
<1>2. UpgradeTypeOK(CAs)
  <2>1. MaxAttempts \in Nat
    BY UpgradeAssumption
  <2>2. caFile \in CAs \cup {NoFile, Torn}
    BY DEF UpgradeInit, CAs
  <2>3. NoUpgrade \in Commands
    BY <2>1 DEF NoUpgrade, Commands, Steps
  <2>4. upgrade \in [Upgrades -> Commands]
    BY <2>3 DEF UpgradeInit
  <2>5. /\ installed \in BOOLEAN /\ latest \in Releases /\ target = NoFile /\ backup = NoFile
        /\ history = {}
    BY DEF UpgradeInit
  <2> QED BY <2>2, <2>4, <2>5 DEF UpgradeTypeOK, Commands
<1>3. CommandInv /\ LogInv /\ NewerInv
  BY <1>1 DEF CommandInv, CommandOK, LogInv, NewerInv, NewerOK, Preparing, Moving, Script
<1>4. NamesInv /\ CopyInv /\ AloneInv /\ GapInv /\ BeforeInstall
  BY <1>1, FilesAssumption DEF UpgradeInit, NamesInv, CopyInv, AloneInv, GapInv, BeforeInstall
<1> QED BY <1>2, <1>3, <1>4 DEF UpgradeInv

LEMMA UpgradeStepInv ==
    ASSUME UpgradeInv, installed, UpgradeStep
    PROVE  UpgradeInv'
<1>1. CASE Publish
  BY <1>1 DEF Publish, UpgradeStep, UpgradeInv, UpgradeTypeOK, CommandInv, LogInv, NamesInv,
              CopyInv, Unlogged, StagedCopy, AloneInv, GapInv, NewerInv, NewerOK, Old, BeforeInstall
<1>2. UNCHANGED installed
  BY DEF UpgradeStep
<1>3. ASSUME NEW u \in Upgrades, Start(u) \/ Advance(u) \/ Kill(u) PROVE UpgradeInv'
  BY <1>2, <1>3, StartInv, PrepareInv, ScriptInv, KillInv DEF Advance
<1> QED BY <1>1, <1>3 DEF UpgradeStep

-----------------------------------------------------------------------------
(* Deployment *)

\* Built with the CA of the deployment, or started beside it.
Anchored(client) ==
    client.ca = disk[CACert] \/ (client.ca = NoEmbedded /\ caFile # NoFile)

\* Every client that is there is anchored; once a command has kept the CA, the file is there.
TrustInv ==
    installed =>
        /\ WholeCA
        /\ caFile \in {NoFile, Torn, disk[CACert], EarlierCA}
        /\ Whole(target) => Anchored(target)
        /\ Whole(backup) => Anchored(backup)
        /\ \A u \in Upgrades :
            /\ upgrade[u].pc \in Preparing => Anchored(upgrade[u].self)
            /\ upgrade[u].pc \in Script \cup {"writeCA", "schedule"} => caFile # NoFile

DeploymentInv == CertInv /\ UpgradeInv /\ TrustInv

\* Certificates are made beside the client: what is whole stays.
LEMMA CertGrows ==
    ASSUME CertInv, CertStep
    PROVE  DiskGrows
<1>1. PICK c \in Calls :
          GenerateCA(c) \/ GenerateFromCA(c) \/ CreateNew(c) \/ Fill(c) \/ Stop(c)
  BY DEF CertStep
<1>2. CASE UNCHANGED disk
  BY <1>2 DEF DiskGrows
<1>3. CASE CreateNew(c) /\ disk' # disk
  BY <1>3 DEF CreateNew, DiskGrows, Whole, CertInv, CertTypeOK
<1>4. CASE Fill(c)
  <2>1. disk[NextFile(c).path] = Torn
    BY <1>4, Filling DEF Fill
  <2> QED BY <1>4, <2>1 DEF Fill, DiskGrows, Whole, CertInv, CertTypeOK
<1> QED BY <1>1, <1>2, <1>3, <1>4 DEF GenerateCA, GenerateFromCA, CreateNew, Stop

\* A command becomes s: the CA beside the client stays or becomes that of the deployment,
\* clients move between their names, and a release comes only where the CA is.
LEMMA TrustKept ==
    ASSUME UpgradeInv, TrustInv, installed, UNCHANGED <<disk, installed>>,
           NEW u \in Upgrades, NEW s, Becomes(u, s), caFile' \in {caFile, Torn, disk[CACert]},
           target' \in {target, backup, NoFile} \/ (target'.ca = NoEmbedded /\ caFile # NoFile),
           backup' \in {target, backup, NoFile},
           s.pc \in Preparing => \/ upgrade[u].pc \in Preparing /\ s.self = upgrade[u].self
                                 \/ Whole(target) /\ s.self = target,
           s.pc \in Script \cup {"writeCA", "schedule"} => caFile' # NoFile
    PROVE  TrustInv'
<1>1. WholeCA /\ disk[CACert] # NoFile
  BY Contents DEF TrustInv, WholeCA
<1>2. WholeCA' /\ caFile' \in {NoFile, Torn, disk'[CACert], EarlierCA}
  BY <1>1 DEF TrustInv, WholeCA
<1>3. caFile # NoFile => caFile' # NoFile
  BY <1>1, FilesAssumption DEF TrustInv
<1>4. \A x : Anchored(x) => Anchored(x)'
  BY <1>3 DEF Anchored
<1>5. (Whole(target) => Anchored(target))'
  <2>1. CASE target' \in {target, backup, NoFile}
    <3>1. PICK x : x = target'
      OBVIOUS
    <3>2. Whole(x) => Anchored(x)'
      BY <1>4, <2>1, <3>1, Clients DEF TrustInv
    <3> QED BY <3>1, <3>2 DEF Anchored
  <2>2. CASE target'.ca = NoEmbedded /\ caFile # NoFile
    BY <1>3, <2>2 DEF Anchored
  <2> QED BY <2>1, <2>2
<1>6. (Whole(backup) => Anchored(backup))'
  <2>1. PICK x : x = backup'
    OBVIOUS
  <2>2. Whole(x) => Anchored(x)'
    BY <1>4, <2>1, Clients DEF TrustInv
  <2> QED BY <2>1, <2>2 DEF Anchored
<1>7. upgrade'[u] = s /\ \A o \in Upgrades \ {u} : upgrade'[o] = upgrade[o]
  BY DEF Becomes, UpgradeInv, UpgradeTypeOK
<1>8. ASSUME NEW o \in Upgrades
      PROVE  (/\ upgrade[o].pc \in Preparing => Anchored(upgrade[o].self)
              /\ upgrade[o].pc \in Script \cup {"writeCA", "schedule"} => caFile # NoFile)'
  <2>1. PICK x : x = upgrade'[o]
    OBVIOUS
  <2>2. x.pc \in Preparing => Anchored(x.self)'
    BY <1>4, <1>7, <2>1 DEF TrustInv
  <2>3. x.pc \in Script \cup {"writeCA", "schedule"} => caFile' # NoFile
    BY <1>3, <1>7, <2>1 DEF TrustInv
  <2> QED BY <2>1, <2>2, <2>3 DEF Anchored
<1> QED BY <1>2, <1>5, <1>6, <1>8 DEF TrustInv

LEMMA TrustStep ==
    ASSUME UpgradeInv, TrustInv, installed, UpgradeStep, UNCHANGED disk
    PROVE  TrustInv'
<1> DEFINE Goal(u, s) ==
             /\ Becomes(u, s) /\ caFile' \in {caFile, Torn, disk[CACert]}
             /\ \/ target' \in {target, backup, NoFile}
                \/ target'.ca = NoEmbedded /\ caFile # NoFile
             /\ backup' \in {target, backup, NoFile}
             /\ s.pc \in Preparing => \/ upgrade[u].pc \in Preparing /\ s.self = upgrade[u].self
                                      \/ Whole(target) /\ s.self = target
             /\ s.pc \in Script \cup {"writeCA", "schedule"} => caFile' # NoFile
<1>1. CASE Publish
  BY <1>1 DEF Publish, UpgradeStep, TrustInv, Anchored, WholeCA
<1>2. ASSUME NEW u \in Upgrades, Start(u) \/ Advance(u) \/ Kill(u)
      PROVE  \E s : Goal(u, s)
  <2>1. /\ upgrade[u] \in Commands /\ CommandOK(upgrade[u])
        /\ upgrade[u].pc \in Script \cup {"writeCA", "schedule"} => caFile # NoFile
        /\ upgrade[u].pc \in Preparing => Anchored(upgrade[u].self)
    BY CommandFacts DEF TrustInv
  <2>2. \A s : Becomes(u, s) => upgrade'[u] = s /\ Becomes(u, upgrade'[u])
    BY DEF Becomes, UpgradeInv, UpgradeTypeOK
  <2>3. /\ NoUpgrade.pc = "idle" /\ \A f : [NoUpgrade EXCEPT !.staged = f].pc = "idle"
        /\ "idle" \notin Preparing \cup Script
    BY DEF NoUpgrade, Preparing, Script
  \* Nothing is kept yet, or the command ends.
  <2>4. ASSUME SameFiles, Becomes(u, upgrade'[u]),
               \/ upgrade'[u].pc = "idle"
               \/ /\ upgrade'[u].pc \in Preparing \ {"writeCA", "schedule"}
                  /\ upgrade[u].pc \in Preparing /\ upgrade'[u].self = upgrade[u].self
        PROVE  \E q : Goal(u, q)
    <3>1. PICK s : s = upgrade'[u]
      OBVIOUS
    <3>2. s.pc \notin Script \cup {"writeCA", "schedule"}
      BY <2>3, <2>4, <3>1 DEF Preparing, Script
    <3>3. Goal(u, s)
      BY <2>3, <2>4, <3>1, <3>2 DEF SameFiles
    <3> QED BY <3>3
  <2>5. CASE Start(u)
    <3>1. PICK s : s = [NoUpgrade EXCEPT !.pc = "metadata", !.self = target]
      OBVIOUS
    <3>2. s.pc = "metadata" /\ s.self = target
      BY <3>1 DEF NoUpgrade
    <3>3. Goal(u, s)
      BY <2>5, <3>1, <3>2 DEF Start, SameFiles, Script
    <3> QED BY <3>3
  <2>6. CASE Kill(u) \/ Fails(u)
    <3>1. Becomes(u, upgrade'[u]) /\ upgrade'[u].pc = "idle" /\ SameFiles
      BY <2>2, <2>3, <2>6 DEF Kill, Fails
    <3> QED BY <2>4, <3>1
  <2>7. CASE ReadMetadata(u) \/ ReadArchive(u) \/ CreateStaged(u) \/ Extract(u)
    <3>1. /\ Becomes(u, upgrade'[u]) /\ SameFiles
          /\ upgrade[u].pc \in {"metadata", "archive", "create", "extract"}
          /\ \/ upgrade'[u].pc = "idle"
             \/ /\ upgrade'[u].pc \in {"archive", "create", "extract", "ca"}
                /\ upgrade'[u].self = upgrade[u].self
      <4>1. CASE ReadMetadata(u)
        <5>1. PICK s : s = [upgrade[u] EXCEPT !.pc = "archive", !.release = latest]
          OBVIOUS
        <5>2. s.pc = "archive" /\ s.self = upgrade[u].self
          BY <2>1, <5>1 DEF Commands
        <5>3. Becomes(u, s) \/ Becomes(u, NoUpgrade)
          BY <4>1, <5>1 DEF ReadMetadata
        <5> QED BY <2>2, <2>3, <4>1, <5>2, <5>3 DEF ReadMetadata
      <4>2. CASE ReadArchive(u)
        BY <2>1, <2>2, <2>3, <4>2 DEF ReadArchive, Commands
      <4>3. CASE CreateStaged(u)
        <5>1. PICK s : s = [upgrade[u] EXCEPT !.pc = "extract", !.staged = Torn]
          OBVIOUS
        <5>2. s.pc = "extract" /\ s.self = upgrade[u].self
          BY <2>1, <5>1 DEF Commands
        <5> QED BY <2>2, <4>3, <5>1, <5>2 DEF CreateStaged
      <4>4. CASE Extract(u)
        <5>1. PICK f : f = IF upgrade[u].release = Torn THEN Torn
                           ELSE [version |-> upgrade[u].release, ca |-> NoEmbedded]
          OBVIOUS
        <5>2. PICK s : s = [upgrade[u] EXCEPT !.pc = "ca", !.staged = f]
          OBVIOUS
        <5>3. s.pc = "ca" /\ s.self = upgrade[u].self
          BY <2>1, <5>2 DEF Commands
        <5> QED BY <2>2, <4>4, <5>1, <5>2, <5>3 DEF Extract
      <4> QED BY <2>7, <4>1, <4>2, <4>3, <4>4
    <3> QED BY <2>4, <3>1 DEF Preparing
  <2>8. CASE PreserveEmbeddedCA(u)
    <3>1. CASE Becomes(u, NoUpgrade)
      BY <2>2, <2>3, <2>4, <2>8, <3>1 DEF PreserveEmbeddedCA
    <3>2. CASE Goes(u, "createCA")
      <4>1. Becomes(u, upgrade'[u]) /\ upgrade'[u].pc = "createCA" /\ upgrade'[u].self = upgrade[u].self
        BY <2>1, <2>2, <3>2 DEF Goes, Commands
      <4> QED BY <2>4, <2>8, <4>1 DEF PreserveEmbeddedCA, Preparing
    <3>3. CASE Goes(u, "schedule") /\ (upgrade[u].self.ca = NoEmbedded \/ Whole(caFile))
      <4>1. disk[CACert] \in CertFiles
        BY Contents DEF TrustInv, WholeCA
      <4>2. caFile # NoFile
        BY <2>1, <2>8, <3>3, <4>1, Clients, ClientAssumption
           DEF PreserveEmbeddedCA, Anchored, Preparing, CAs
      <4>3. PICK s : s = [upgrade[u] EXCEPT !.pc = "schedule"]
        OBVIOUS
      <4>4. s.pc = "schedule" /\ s.self = upgrade[u].self
        BY <2>1, <4>3 DEF Commands
      <4>5. Goal(u, s)
        BY <2>8, <3>3, <4>2, <4>3, <4>4 DEF PreserveEmbeddedCA, SameFiles, Goes, Preparing
      <4> QED BY <4>5
    <3> QED BY <2>8, <3>1, <3>2, <3>3 DEF PreserveEmbeddedCA
  <2>9. CASE CreateCA(u) \/ WriteCA(u)
    <3>1. PICK p : p \in {"writeCA", "schedule"} /\ Goes(u, p)
      BY <2>9 DEF CreateCA, WriteCA
    <3>2. PICK s : s = [upgrade[u] EXCEPT !.pc = p]
      OBVIOUS
    <3>3. Becomes(u, s) /\ s.pc = p /\ s.self = upgrade[u].self /\ upgrade[u].pc \in Preparing
      BY <2>1, <2>9, <3>1, <3>2 DEF CreateCA, WriteCA, Goes, Preparing, Commands
    <3>4. WriteCA(u) => upgrade[u].self.ca = disk[CACert]
      BY <2>1 DEF WriteCA, Anchored, CommandOK, Preparing
    <3>5. caFile' \in {Torn, disk[CACert]}
      BY <2>9, <3>4 DEF CreateCA, WriteCA
    <3>6. caFile' # NoFile
      BY <3>5, Contents, FilesAssumption DEF TrustInv, WholeCA
    <3>7. Goal(u, s)
      BY <2>9, <3>3, <3>5, <3>6 DEF CreateCA, WriteCA
    <3> QED BY <3>7
  \* The script: the CA is beside the client.
  <2>10. ASSUME Becomes(u, upgrade'[u]), UNCHANGED caFile, backup' \in {target, backup, NoFile},
                target' \in {target, backup, NoFile} \/ target'.ca = NoEmbedded,
                \/ upgrade[u].pc \in Script \cup {"schedule"}
                \/ upgrade'[u].pc = "idle" /\ UNCHANGED target,
                upgrade'[u].pc \in Script \cup {"idle"}
         PROVE  \E q : Goal(u, q)
    <3>1. PICK s : s = upgrade'[u]
      OBVIOUS
    <3>2. s.pc \notin Preparing \cup {"writeCA", "schedule"}
      BY <2>10, <3>1 DEF Script, Preparing
    <3>3. Goal(u, s)
      BY <2>1, <2>3, <2>10, <3>1, <3>2
    <3> QED BY <3>3
  <2>11. CASE Schedule(u)
    <3>1. Becomes(u, upgrade'[u]) /\ upgrade'[u].pc = "removeOld"
      <4>1. PICK s : s = [upgrade[u] EXCEPT !.pc = "removeOld", !.attempt = 1,
                                            !.self = NoFile, !.release = NoFile]
        OBVIOUS
      <4>2. s.pc = "removeOld"
        BY <2>1, <4>1 DEF Commands
      <4> QED BY <2>2, <2>11, <4>1, <4>2 DEF Schedule
    <3> QED BY <2>10, <2>11, <3>1 DEF Schedule, SameFiles, Script
  <2>12. \A p : Goes(u, p) => Becomes(u, upgrade'[u]) /\ upgrade'[u].pc = p
    BY <2>1, <2>2 DEF Goes, Commands
  <2>13. CASE RemoveOld(u) \/ BackUp(u)
    <3>1. upgrade[u].pc \in Script /\ UNCHANGED caFile
      BY <2>13 DEF RemoveOld, BackUp, Script
    <3>2. target' \in {target, NoFile} /\ backup' \in {target, backup, NoFile}
      BY <2>13 DEF RemoveOld, BackUp
    <3>3. Becomes(u, upgrade'[u]) /\ upgrade'[u].pc \in Script
      BY <2>12, <2>13 DEF RemoveOld, BackUp, Script
    <3> QED BY <2>10, <3>1, <3>2, <3>3
  <2>14. CASE Replace(u)
    <3>1. /\ upgrade[u].pc \in Script /\ UNCHANGED <<backup, caFile>>
          /\ upgrade[u].staged # NoFile => upgrade[u].staged.ca = NoEmbedded
      BY <2>14, MovingFacts DEF Replace, Moving, Script
    <3>2. \/ target' = target
          \/ target' = upgrade[u].staged /\ upgrade[u].staged # NoFile
      BY <2>14 DEF Replace
    <3>3. Becomes(u, upgrade'[u]) /\ upgrade'[u].pc \in Script
      <4>1. PICK s : s = [upgrade[u] EXCEPT !.pc = "cleanUp", !.staged = NoFile]
        OBVIOUS
      <4>2. s.pc = "cleanUp"
        BY <2>1, <4>1 DEF Commands
      <4> QED BY <2>2, <2>12, <2>14, <4>1, <4>2 DEF Replace, Script
    <3> QED BY <2>10, <3>1, <3>2, <3>3
  <2>15. CASE CleanUp(u)
    <3>1. CASE Becomes(u, NoUpgrade)
      BY <2>2, <2>3, <2>10, <2>15, <3>1 DEF CleanUp
    <3>2. CASE Goes(u, "restore")
      BY <2>10, <2>12, <2>15, <3>2 DEF CleanUp, Script
    <3> QED BY <2>15, <3>1, <3>2 DEF CleanUp
  <2>16. CASE Restore(u)
    <3>1. Becomes(u, upgrade'[u]) /\ upgrade'[u].pc \in Script \cup {"idle"}
      <4>1. [upgrade[u] EXCEPT !.pc = "removeOld", !.attempt = @ + 1].pc = "removeOld"
        BY <2>1 DEF Commands
      <4> QED BY <2>2, <2>3, <2>16, <4>1 DEF Restore, Again, Script
    <3>2. /\ target' \in {target, backup} /\ backup' \in {backup, NoFile} /\ UNCHANGED caFile
          /\ upgrade[u].pc \in Script
      BY <2>16 DEF Restore, Script
    <3> QED BY <2>10, <3>1, <3>2
  <2> QED BY <1>2, <2>5, <2>6, <2>7, <2>8, <2>9, <2>11, <2>13, <2>14, <2>15, <2>16 DEF Advance
<1>3. UNCHANGED installed
  BY DEF UpgradeStep
<1> QED BY <1>1, <1>2, <1>3, TrustKept DEF UpgradeStep

LEMMA DeploymentInit == Init => DeploymentInv
<1> SUFFICES ASSUME Init PROVE DeploymentInv
  OBVIOUS
<1>1. CertInv /\ UpgradeInv
  BY CertInit_Inv, UpgradeInit_Inv DEF Init
<1>2. TrustInv
  BY DEF Init, UpgradeInit, TrustInv
<1> QED BY <1>1, <1>2 DEF DeploymentInv

LEMMA DeploymentStep == DeploymentInv /\ [Next]_vars => DeploymentInv'
<1> SUFFICES ASSUME DeploymentInv, [Next]_vars PROVE DeploymentInv'
  OBVIOUS
<1>0. CertInv /\ UpgradeInv /\ TrustInv
  BY DEF DeploymentInv
<1>1. ASSUME UNCHANGED upgradeVars PROVE UpgradeInv'
  BY <1>0, <1>1 DEF upgradeVars, UpgradeInv, UpgradeTypeOK, CommandInv, LogInv, NamesInv,
                    CopyInv, Unlogged, StagedCopy, AloneInv, GapInv, NewerInv, NewerOK, Old, BeforeInstall
<1>2. CASE MakeCertificates
  <2>1. CertInv' /\ DiskGrows
    BY <1>0, <1>2, CertStepInv, CertGrows DEF MakeCertificates
  <2>2. WholeCA => WholeCA' /\ disk'[CACert] = disk[CACert]
    BY <1>0, <2>1, GrowsKeeps
  <2>3. UNCHANGED upgradeVars
    BY <1>2 DEF MakeCertificates
  <2>4. TrustInv'
    BY <1>0, <2>2, <2>3 DEF TrustInv, Anchored, upgradeVars
  <2> QED BY <1>1, <2>1, <2>3, <2>4 DEF DeploymentInv
<1>3. CASE Build
  <2>1. WholeCA /\ UNCHANGED certVars
    BY <1>3 DEF Build
  <2>2. CertInv'
    BY <1>0, <2>1, CertStepInv
  <2>3. PICK v \in Releases \cup {Dev} : Install([version |-> v, ca |-> disk[CACert]])
    BY <1>3 DEF Build
  <2>4. disk[CACert] \in CertFiles
    BY <2>1, Contents DEF WholeCA
  <2>5. PICK client \in Client(CAs) : Install(client) /\ client.ca = disk[CACert]
    BY <2>3, <2>4, Clients DEF CAs
  <2>6. UpgradeInv'
    BY <1>0, <2>5, InstallInv
  <2>7. TrustInv'
    <3>1. \A u \in Upgrades : upgrade[u].pc = "idle"
      BY <2>5 DEF Install
    <3>2. WholeCA' /\ UNCHANGED <<disk, backup, caFile, upgrade>> /\ target'.ca = disk[CACert]
      BY <2>1, <2>5 DEF Install, certVars, WholeCA
    <3>3. /\ caFile \in {NoFile, Torn, disk[CACert], EarlierCA}
          /\ Whole(backup) => Anchored(backup)
      BY <1>0, Clients DEF TrustInv, UpgradeInv, BeforeInstall
    <3> QED BY <3>1, <3>2, <3>3 DEF TrustInv, Anchored, Preparing, Script
  <2> QED BY <2>2, <2>6, <2>7 DEF DeploymentInv
<1>4. CASE UpgradeClient
  <2>1. installed /\ UpgradeStep /\ UNCHANGED certVars
    BY <1>4 DEF UpgradeClient
  <2>2. CertInv'
    BY <1>0, <2>1, CertStepInv
  <2>3. UpgradeInv' /\ TrustInv'
    BY <1>0, <2>1, UpgradeStepInv, TrustStep DEF certVars
  <2> QED BY <2>2, <2>3 DEF DeploymentInv
<1>5. CASE UNCHANGED vars
  <2>1. UNCHANGED certVars /\ UNCHANGED upgradeVars
    BY <1>5 DEF vars
  <2>2. CertInv' /\ UpgradeInv'
    BY <1>0, <1>1, <2>1, CertStepInv
  <2>3. TrustInv'
    BY <1>0, <2>1 DEF certVars, upgradeVars, TrustInv, Anchored, WholeCA
  <2> QED BY <2>2, <2>3 DEF DeploymentInv
<1> QED BY <1>2, <1>3, <1>4, <1>5 DEF Next

LEMMA DeploymentInvariant == Spec => []DeploymentInv
<1> QED BY DeploymentInit, DeploymentStep, PTL DEF Spec

\* The states of agenttls.Generate and of the upgrade have their types.
THEOREM TypeCorrect == Spec => []TypeOK
<1>1. DeploymentInv => TypeOK
  BY DEF DeploymentInv, CertInv, UpgradeInv, TypeOK
<1> QED BY <1>1, DeploymentInvariant, PTL

\* agenttls.Generate: however calls overlap and wherever they end, a whole server
\* certificate belongs to the key beside it and is issued by the CA in caDir.
THEOREM AlwaysVerifiable == Spec => []Verifiable
<1>1. DeploymentInv => Verifiable
  BY DEF DeploymentInv, CertInv
<1> QED BY <1>1, DeploymentInvariant, PTL

\* replacementScript: whatever fails, is killed or overlaps, a whole client is left, unless
\* the script could not log its success and another failure or command met its next attempts.
THEOREM CopyRemains == Spec => []SomeCopy
<1>1. DeploymentInv => SomeCopy
  BY DEF DeploymentInv, UpgradeInv, CopyInv, StagedCopy, Staged, SomeCopy
<1> QED BY <1>1, DeploymentInvariant, PTL

\* extractClient and replacementScript: the executable is never half a file, and it is
\* missing only between two moves, or when the moves were disturbed.
THEOREM ExecutableKept == Spec => []TargetKept
<1>1. DeploymentInv => TargetKept
  BY DEF DeploymentInv, UpgradeInv, NamesInv, GapInv, TargetKept
<1> QED BY <1>1, DeploymentInvariant, PTL

\* preserveEmbeddedCA: the releases have no CA, and the upgraded client still accepts every
\* identity that was generated for its deployment, whatever was beside it when it was copied
\* there. Only where that is the CA of an earlier deployment can a release be without trust.
THEOREM TrustSurvives == Spec => []StillTrusted
<1>1. DeploymentInv => StillTrusted
  <2> SUFFICES ASSUME CertInv, UpgradeInv, TrustInv, installed, Whole(target), caFile # Torn,
                      ~(target.ca = NoEmbedded /\ caFile = EarlierCA),
                      NEW d \in OutDirs, disk[ServerCert(d)] \in CertFiles
               PROVE  Trusts(disk[ServerCert(d)])
    BY DEF DeploymentInv, StillTrusted, Accepts
  <2>1. WholeCA /\ disk[ServerCert(d)].issuer = disk[CAKey].key
    BY DEF CertInv, Verifiable
  <2>2. PICK ca \in CertFiles : ca = disk[CACert] /\ ca.key = disk[CAKey].key
    BY <2>1, Contents DEF WholeCA
  <2>3. ca \in {target.ca, caFile}
    BY <2>2 DEF TrustInv, Anchored
  <2>4. ca \notin {NoEmbedded, NoFile}
    BY <2>2, Contents, ClientAssumption DEF CAs
  <2> QED BY <2>1, <2>2, <2>3, <2>4 DEF Trusts
<1> QED BY <1>1, DeploymentInvariant, PTL

\* newerReleaseAvailable decides before the download, the script moves the file much later:
\* the executable is replaced only by itself or a later version, also when the release that
\* the API names changes meanwhile, unless two commands overlapped.
THEOREM NoDowngrade == Spec => NeverDowngraded
<1> DEFINE Kept ==
             \/ upgrade' = upgrade
             \/ target' = target \/ ~Whole(target') \/ "overlap" \in history'
             \/ LET old == IF Whole(target) THEN target ELSE backup IN
                \/ ~Whole(old) \/ old.version = Dev \/ old.version = target'.version
                \/ target'.version # Dev /\ Later(target'.version, old.version)
<1>1. DeploymentInv /\ [Next]_vars => [Kept]_upgradeVars
  <2> SUFFICES ASSUME UpgradeInv, Next, target' # target, Whole(target'),
                      "overlap" \notin history'
               PROVE  Kept
    BY DEF DeploymentInv, vars, upgradeVars
  <2>1. CASE Build
    BY <2>1 DEF Build, Install
  <2>2. ASSUME NEW u \in Upgrades, Replace(u) PROVE Kept
    <3>1. /\ upgrade[u].pc = "replace" /\ upgrade[u].staged # NoFile
          /\ target' = upgrade[u].staged /\ UNCHANGED history
      BY <2>2 DEF Replace
    <3>2. ~Whole(Old) \/ Old.version = Dev \/ Later(upgrade[u].staged.version, Old.version)
      BY <3>1, CommandFacts DEF NewerOK, Moving
    <3>3. upgrade[u].staged.version # Dev
      BY <3>1, MovingFacts, Clients DEF Moving
    <3> QED BY <3>1, <3>2, <3>3 DEF Old
  <2>3. ASSUME NEW u \in Upgrades, Restore(u) PROVE Kept
    BY <2>3, Clients DEF Restore
  <2>4. ASSUME NEW u \in Upgrades, BackUp(u) PROVE Kept
    BY <2>4, Clients DEF BackUp
  <2>5. CASE \E u \in Upgrades : Replace(u) \/ Restore(u) \/ BackUp(u)
    BY <2>2, <2>3, <2>4, <2>5
  <2>6. MakeCertificates \/ UpgradeClient =>
            \/ UNCHANGED target
            \/ \E u \in Upgrades : Replace(u) \/ Restore(u) \/ BackUp(u)
    BY DEF MakeCertificates, upgradeVars, UpgradeClient, UpgradeStep, Start, Advance, Kill, Publish,
           ReadMetadata, ReadArchive, CreateStaged, Extract, PreserveEmbeddedCA, CreateCA, WriteCA,
           Schedule, Fails, RemoveOld, CleanUp, SameFiles
  <2> QED BY <2>1, <2>5, <2>6 DEF Next
<1> QED BY <1>1, DeploymentInvariant, PTL DEF Spec, NeverDowngraded
=============================================================================
