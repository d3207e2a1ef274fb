---------------------------- MODULE StoreProofs ----------------------------
(***************************************************************************)
(* Proofs about the hub's files.  What memory holds is not enough: a crash *)
(* replaces memory by the files, so the invariant says the same of both,   *)
(* and that a file whose last write succeeded is a copy of memory.         *)
(***************************************************************************)
EXTENDS Store, TLAPS

\* What the hub would serve from: memory, or the file it is going to read.
Table == IF up THEN secrets ELSE secretsFile
Registry == IF up THEN channels ELSE channelsFile

\* A secret belongs to one name.
OneName(t) == \A n, m \in Name : n # m => t[n] \cap t[m] = {}

\* Each secret drawn is either revoked or in t, and not both.
Accounts(t) ==
    /\ \A s \in issued \ revoked : \E n \in Name : s \in t[n]
    /\ \A s \in revoked, n \in Name : s \notin t[n]

FilesFollow ==
    /\ up /\ "secrets" \notin behind => secretsFile = secrets
    /\ up /\ "channels" \notin behind => channelsFile = channels
    /\ ~up => secrets = NoSecrets /\ channels = NoChannels
    /\ ~up => behind \subseteq lost

\* A connection whose hello was accepted carries a name.
Named == \A c \in Conn : conn[c].agent # None => conn[c].name # None

\* A registered agent is shown under the name its connection's hello gave, and
\* that name is the secret's.
Spoken ==
    \A a \in Agent : clients[a] # None =>
        /\ entry[a] = conn[clients[a]].name
        /\ conn[clients[a]].kind = "agent" => conn[clients[a]].name = conn[clients[a]].bound

StoreInv ==
    /\ TypeOK /\ Named /\ Spoken
    /\ FilesFollow
    /\ OneName(secrets) /\ OneName(secretsFile)
    /\ "secrets" \notin lost => Accounts(Table)
    /\ "channels" \notin lost => Registry = wanted

\* The hub starts with empty tables and files that agree.
LEMMA InitStoreInv == Init => StoreInv
<1> SUFFICES ASSUME Init PROVE StoreInv
  OBVIOUS
<1> USE StoreConstants DEF Init, NoConns, NoSecrets, NoChannels
<1>1. TypeOK /\ Named /\ Spoken
  BY DEF TypeOK, Named, Spoken, Record, Closed
<1>2. FilesFollow /\ OneName(secrets) /\ OneName(secretsFile)
  BY DEF FilesFollow, OneName
<1>3. Accounts(Table) /\ Registry = wanted
  BY DEF Accounts, Table, Registry
<1>4. QED
  BY <1>1, <1>2, <1>3 DEF StoreInv

\* A hello fills in its connection's record and leaves the others alone.
LEMMA HelloRecord ==
    ASSUME conn \in [Conn -> Record], NEW c \in Conn, NEW a \in Agent, NEW n \in Name,
           conn' = [conn EXCEPT ![c].agent = a, ![c].name = n]
    PROVE  /\ conn' \in [Conn -> Record]
           /\ conn'[c].agent = a /\ conn'[c].name = n
           /\ conn'[c].kind = conn[c].kind /\ conn'[c].bound = conn[c].bound
           /\ \A d \in Conn \ {c} : conn'[d] = conn[d]
<1> DEFINE p == [conn[c] EXCEPT !.agent = a]
           q == [p EXCEPT !.name = n]
<1>1. conn' = [conn EXCEPT ![c] = q]
  OBVIOUS
<1>2. p \in Record /\ p.agent = a /\ p.kind = conn[c].kind /\ p.bound = conn[c].bound
  BY DEF Record
<1>3. q \in Record /\ q.agent = a /\ q.name = n /\ q.kind = conn[c].kind /\ q.bound = conn[c].bound
  <2> HIDE DEF p
  <2>1. QED
    BY <1>2 DEF Record
<1>4. QED
  <2> HIDE DEF q
  <2>1. QED
    BY <1>1, <1>3

\* The part of TypeOK about connections and the registry.
ConnsOK ==
    /\ conn \in [Conn -> Record]
    /\ clients \in [Agent -> Conn \cup {None}]
    /\ \A a \in Agent : clients[a] # None => conn[clients[a]].agent = a

\* Connections and registry keep their shape.
LEMMA StepConnsOK == TypeOK /\ [Next]_vars => ConnsOK'
<1> SUFFICES ASSUME TypeOK, [Next]_vars PROVE ConnsOK'
  OBVIOUS
<1> USE StoreConstants DEF TypeOK, ConnsOK
<1>1. ASSUME NEW c \in Conn, Dial(c) PROVE ConnsOK'
  <2>1. conn[c] = Closed /\ conn[c] \in Record
    BY <1>1 DEF Dial
  <2>2. \A a \in Agent : clients[a] # c
    BY <2>1 DEF Closed
  <2>3. conn' \in [Conn -> Record] /\ \A d \in Conn \ {c} : conn'[d] = conn[d]
    <3>1. CASE conn' = [conn EXCEPT ![c].kind = "master"]
      BY <3>1 DEF Record
    <3>2. CASE \E n \in Name : conn' = [conn EXCEPT ![c].kind = "agent", ![c].bound = n]
      <4>1. PICK n \in Name : conn' = [conn EXCEPT ![c].kind = "agent", ![c].bound = n]
        BY <3>2
      <4>2. [[conn[c] EXCEPT !.kind = "agent"] EXCEPT !.bound = n] \in Record
        BY <2>1 DEF Record
      <4>3. conn' = [conn EXCEPT ![c] = [[conn[c] EXCEPT !.kind = "agent"] EXCEPT !.bound = n]]
        BY <4>1
      <4>4. QED
        BY <4>2, <4>3
    <3>3. QED
      BY <1>1, <3>1, <3>2 DEF Dial
  <2>4. QED
    BY <1>1, <2>2, <2>3 DEF Dial
<1>2. ASSUME NEW c \in Conn, Close(c) PROVE ConnsOK'
  <2>1. Closed \in Record
    BY DEF Closed, Record
  <2>2. clients' \in [Agent -> Conn \cup {None}]
    BY <1>2 DEF Close
  <2>3. \A a \in Agent : clients'[a] # None => clients'[a] = clients[a] /\ clients[a] # c
    BY <1>2 DEF Close, Owns
  <2>4. QED
    BY <1>2, <2>1, <2>2, <2>3 DEF Close
<1>3. ASSUME NEW c \in Conn, NEW a \in Agent, NEW n \in Name, Hello(c, a, n) PROVE ConnsOK'
  <2>1. \A b \in Agent : clients[b] # c
    BY <1>3 DEF Hello
  <2>2. CASE NameFits(c, n)
    <3>1. conn' \in [Conn -> Record] /\ conn'[c].agent = a
      <4>1. conn' = [conn EXCEPT ![c].agent = a, ![c].name = n]
        BY <1>3, <2>2 DEF Hello
      <4>2. conn \in [Conn -> Record]
        OBVIOUS
      <4>3. QED
        BY <4>1, <4>2, HelloRecord, Zenon
    <3>2. clients' = [clients EXCEPT ![a] = c] /\ \A d \in Conn \ {c} : conn'[d] = conn[d]
      BY <1>3, <2>2 DEF Hello
    <3>3. QED
      BY <2>1, <3>1, <3>2
  <2>3. CASE ~NameFits(c, n)
    <3>1. conn' = [conn EXCEPT ![c] = Closed] /\ UNCHANGED clients
      BY <1>3, <2>3 DEF Hello
    <3>2. QED
      BY <2>1, <3>1 DEF Closed, Record
  <2>4. QED
    BY <2>2, <2>3
<1>4. CASE Crash
  BY <1>4 DEF Crash, NoConns, Closed, Record
<1>5. CASE UNCHANGED <<conn, clients>>
  BY <1>5
<1>6. QED
  BY <1>1, <1>2, <1>3, <1>4, <1>5 DEF Next, Deliver, Enroll, EnrollCreate, Issue,
     JoinCreates, SetAcl, AdminEvict, Start, vars, memory

\* What a write of the secrets leaves: an old or a new file, and the accounts
\* of failed writes.
LEMMA SecretsWrite ==
    ASSUME TypeOK, PersistSecrets
    PROVE  /\ secretsFile' \in {secretsFile, secrets'}
           /\ channelsFile' = channelsFile
           /\ behind' \subseteq {"secrets", "channels"} /\ faults' \in 0..MaxFaults
           /\ "secrets" \notin behind' => secretsFile' = secrets'
           /\ "channels" \in behind <=> "channels" \in behind'
BY StoreConstants DEF TypeOK, PersistSecrets, Persist, Written

\* The same of a write of the channels.
LEMMA ChannelsWrite ==
    ASSUME TypeOK, PersistChannels
    PROVE  /\ channelsFile' \in {channelsFile, channels'}
           /\ secretsFile' = secretsFile
           /\ behind' \subseteq {"secrets", "channels"} /\ faults' \in 0..MaxFaults
           /\ "channels" \notin behind' => channelsFile' = channels'
           /\ "secrets" \in behind <=> "secrets" \in behind'
BY StoreConstants DEF TypeOK, PersistChannels, Persist, Written

\* The rest of TypeOK.
BooksOK ==
    /\ up \in BOOLEAN
    /\ entry \in [Agent -> Name \cup {None}]
    /\ {secrets, secretsFile} \subseteq [Name -> SUBSET issued]
    /\ {channels, channelsFile, wanted} \subseteq [Chan -> Acl \cup {None}]
    /\ reply \in [Conn -> SUBSET issued]
    /\ {held, revoked} \subseteq SUBSET issued /\ issued \subseteq Secret
    /\ {behind, lost} \subseteq SUBSET {"secrets", "channels"}
    /\ crashes \in 0..MaxCrashes /\ faults \in 0..MaxFaults

\* Tables, files and histories keep their types.
LEMMA StepBooksOK == TypeOK /\ Named /\ [Next]_vars => BooksOK'
<1> SUFFICES ASSUME TypeOK, Named, [Next]_vars PROVE BooksOK'
  OBVIOUS
<1> USE StoreConstants DEF TypeOK, BooksOK
<1>1. ASSUME NEW c \in Conn, Dial(c) PROVE BooksOK'
  BY <1>1 DEF Dial, files, history
<1>2. ASSUME NEW c \in Conn, Close(c) PROVE BooksOK'
  BY <1>2 DEF Close, files, history
<1>3. ASSUME NEW c \in Conn, Deliver(c) PROVE BooksOK'
  BY <1>3 DEF Deliver, files
<1>4. ASSUME NEW c \in Conn, NEW a \in Agent, NEW n \in Name, Hello(c, a, n) PROVE BooksOK'
  BY <1>4 DEF Hello, files, history
<1>5. ASSUME NEW c \in Conn, NEW s \in Secret, NEW kept, Issue(c, s, kept),
             kept \subseteq issued \cup {s}, revoked' \subseteq issued
      PROVE  BooksOK'
  <2>1. issued' = issued \cup {s} /\ held' = held
    BY <1>5 DEF Issue
  <2>2. secrets' \in [Name -> SUBSET issued']
    BY <1>5, <2>1 DEF Issue
  <2>3. secretsFile' \in [Name -> SUBSET issued'] /\ reply' \in [Conn -> SUBSET issued']
    BY <1>5, <2>1, <2>2, SecretsWrite DEF Issue
  <2>4. QED
    BY <1>5, <2>1, <2>2, <2>3, SecretsWrite DEF Issue
<1>6. ASSUME NEW c \in Conn, MasterHello(c) PROVE conn[c].name \in Name
  <2>1. conn[c].name \in Name \cup {None}
    BY DEF Record
  <2>2. QED
    BY <1>6, <2>1 DEF MasterHello, Named
<1>7. ASSUME NEW c \in Conn, NEW s \in Secret, Enroll(c, s) PROVE BooksOK'
  <2>1. secrets[conn[c].name] \subseteq issued
    BY <1>6, <1>7 DEF Enroll, Issue
  <2>2. revoked' \subseteq issued /\ Rotate(conn[c].name, s) \subseteq issued \cup {s}
    BY <1>7, <2>1 DEF Enroll, Rotate
  <2>3. Issue(c, s, Rotate(conn[c].name, s))
    BY <1>7 DEF Enroll
  <2>4. QED
    BY <1>5, <2>2, <2>3
<1>8. ASSUME NEW c \in Conn, NEW s \in Secret, EnrollCreate(c, s) PROVE BooksOK'
  <2>1. secrets[conn[c].name] \subseteq issued
    BY <1>6, <1>8 DEF EnrollCreate, Issue
  <2>2. revoked' \subseteq issued /\ Add(conn[c].name, s) \subseteq issued \cup {s}
    BY <1>8, <2>1 DEF EnrollCreate, Add
  <2>3. Issue(c, s, Add(conn[c].name, s))
    BY <1>8 DEF EnrollCreate
  <2>4. QED
    BY <1>5, <2>2, <2>3
<1>9. ASSUME NEW k \in Chan, NEW l \in Acl, PersistChannels,
             channels' = [channels EXCEPT ![k] = l], wanted' = [wanted EXCEPT ![k] = l],
             UNCHANGED <<up, entry, secrets, reply, issued, held, revoked, lost, crashes>>
      PROVE  BooksOK'
  BY <1>9, ChannelsWrite
<1>10. ASSUME NEW a \in Agent, AdminEvict(a) PROVE BooksOK'
  <2>1. CASE secrets[entry[a]] # {} /\ ~Shared(a, entry[a])
    <3>1. secrets' \in [Name -> SUBSET issued] /\ revoked' \subseteq issued
      BY <1>10, <2>1 DEF AdminEvict
    <3>2. entry' \in [Agent -> Name \cup {None}]
      BY <1>10 DEF AdminEvict
    <3>3. PersistSecrets
      BY <1>10, <2>1 DEF AdminEvict
    <3>4. /\ secretsFile' \in [Name -> SUBSET issued] /\ channelsFile' = channelsFile
          /\ behind' \in SUBSET {"secrets", "channels"} /\ faults' \in 0..MaxFaults
      BY <3>1, <3>3, SecretsWrite
    <3>5. QED
      BY <1>10, <3>1, <3>2, <3>4 DEF AdminEvict
  <2>2. CASE ~(secrets[entry[a]] # {} /\ ~Shared(a, entry[a]))
    BY <1>10, <2>2 DEF AdminEvict, files
  <2>3. QED
    BY <2>1, <2>2
<1>11. CASE Crash
  <2>1. crashes' \in 0..MaxCrashes /\ lost' \in SUBSET {"secrets", "channels"}
    BY <1>11 DEF Crash
  <2>2. secrets' \in [Name -> SUBSET issued] /\ channels' \in [Chan -> Acl \cup {None}]
    BY <1>11 DEF Crash, NoSecrets, NoChannels
  <2>3. entry' \in [Agent -> Name \cup {None}] /\ reply' \in [Conn -> SUBSET issued]
    BY <1>11 DEF Crash
  <2>4. QED
    BY <1>11, <2>1, <2>2, <2>3 DEF Crash, files, history
<1>12. CASE Start
  BY <1>12 DEF Start, files, history, Loaded, LoadedChannels
<1>13. CASE UNCHANGED vars
  BY <1>13 DEF vars, memory, files, history
<1>14. QED
  BY <1>1, <1>2, <1>3, <1>4, <1>7, <1>8, <1>9, <1>10, <1>11, <1>12, <1>13
     DEF Next, JoinCreates, SetAcl

\* A step keeps names where their secrets put them.
LEMMA StepSpoken == TypeOK /\ Named /\ Spoken /\ [Next]_vars => Named' /\ Spoken'
<1> SUFFICES ASSUME TypeOK, Named, Spoken, [Next]_vars PROVE Named' /\ Spoken'
  OBVIOUS
<1> USE StoreConstants
<1>0. /\ conn \in [Conn -> Record] /\ clients \in [Agent -> Conn \cup {None}]
      /\ entry \in [Agent -> Name \cup {None}]
      /\ \A a \in Agent : clients[a] # None => conn[clients[a]].agent = a
  BY DEF TypeOK
<1>1. ASSUME NEW c \in Conn, Dial(c) PROVE Named' /\ Spoken'
  <2>1. conn[c] = Closed
    BY <1>1 DEF Dial
  <2>2. \A a \in Agent : clients[a] # c
    BY <1>0, <2>1 DEF Closed
  <2>3. conn'[c].agent = None /\ \A d \in Conn \ {c} : conn'[d] = conn[d]
    <3>1. CASE conn' = [conn EXCEPT ![c].kind = "master"]
      BY <1>0, <2>1, <3>1 DEF Closed
    <3>2. CASE \E n \in Name : conn' = [conn EXCEPT ![c].kind = "agent", ![c].bound = n]
      <4>1. PICK n \in Name : conn' = [conn EXCEPT ![c].kind = "agent", ![c].bound = n]
        BY <3>2
      <4>2. conn' = [conn EXCEPT ![c] = [[conn[c] EXCEPT !.kind = "agent"] EXCEPT !.bound = n]]
        BY <4>1
      <4>3. QED
        BY <1>0, <2>1, <4>2 DEF Closed
    <3>3. QED
      BY <1>1, <3>1, <3>2 DEF Dial
  <2>4. QED
    BY <1>0, <1>1, <2>2, <2>3 DEF Dial, Named, Spoken
<1>2. ASSUME NEW c \in Conn, Close(c) PROVE Named' /\ Spoken'
  <2>1. \A a \in Agent : clients'[a] # None => clients'[a] = clients[a] /\ clients[a] # c
    BY <1>0, <1>2 DEF Close, Owns
  <2>2. QED
    BY <1>0, <1>2, <2>1 DEF Close, Named, Spoken, Closed
<1>3. ASSUME NEW c \in Conn, NEW a \in Agent, NEW n \in Name, Hello(c, a, n)
      PROVE  Named' /\ Spoken'
  <2>1. \A b \in Agent : clients[b] # c
    BY <1>0, <1>3 DEF Hello
  <2>2. CASE NameFits(c, n)
    <3>1. conn' = [conn EXCEPT ![c].agent = a, ![c].name = n]
      BY <1>3, <2>2 DEF Hello
    <3>2. /\ conn'[c].agent = a /\ conn'[c].name = n
          /\ conn'[c].kind = conn[c].kind /\ conn'[c].bound = conn[c].bound
          /\ \A d \in Conn \ {c} : conn'[d] = conn[d]
      <4>1. conn \in [Conn -> Record]
        BY <1>0
      <4>2. \A d \in Conn \ {c} : conn'[d] = conn[d]
        BY <3>1, <4>1
      <4>3. conn'[c].agent = a
        BY <3>1, <4>1, HelloRecord, Zenon
      <4>4. conn'[c].name = n
        <5> DEFINE p == [conn[c] EXCEPT !.agent = a]
        <5>1. conn' = [conn EXCEPT ![c] = [p EXCEPT !.name = n]]
          BY <3>1
        <5>2. p \in Record
          BY <4>1 DEF Record
        <5>3. [p EXCEPT !.name = n].name = n
          <6> HIDE DEF p
          <6>1. QED
            BY <5>2 DEF Record
        <5>4. QED
          BY <4>1, <5>1, <5>3
      <4>5. conn'[c].kind = conn[c].kind /\ conn'[c].bound = conn[c].bound
        BY <3>1, <4>1, HelloRecord, Zenon
      <4>6. QED
        BY <4>2, <4>3, <4>4, <4>5
    <3>3. clients' = [clients EXCEPT ![a] = c] /\ entry' = [entry EXCEPT ![a] = n]
      BY <1>3, <2>2 DEF Hello
    <3>4. Named'
      BY <3>2 DEF Named
    <3>5. ASSUME NEW b \in Agent, clients'[b] # None
          PROVE  /\ entry'[b] = conn'[clients'[b]].name
                 /\ conn'[clients'[b]].kind = "agent" =>
                        conn'[clients'[b]].name = conn'[clients'[b]].bound
      <4>1. CASE b = a
        BY <1>0, <2>2, <3>2, <3>3, <4>1 DEF NameFits
      <4>2. CASE b # a
        BY <1>0, <2>1, <3>2, <3>3, <3>5, <4>2 DEF Spoken
      <4>3. QED
        BY <4>1, <4>2
    <3>6. QED
      BY <3>4, <3>5 DEF Spoken
  <2>3. CASE ~NameFits(c, n)
    <3>1. conn' = [conn EXCEPT ![c] = Closed] /\ UNCHANGED <<clients, entry>>
      BY <1>3, <2>3 DEF Hello
    <3>2. QED
      BY <1>0, <2>1, <3>1 DEF Closed, Named, Spoken
  <2>4. QED
    BY <2>2, <2>3
<1>4. ASSUME NEW a \in Agent, AdminEvict(a) PROVE Named' /\ Spoken'
  BY <1>0, <1>4 DEF AdminEvict, Named, Spoken
<1>5. CASE Crash
  BY <1>5 DEF Crash, NoConns, Closed, Named, Spoken
<1>6. CASE UNCHANGED <<conn, clients, entry>>
  BY <1>6 DEF Named, Spoken
<1>7. QED
  BY <1>1, <1>2, <1>3, <1>4, <1>5, <1>6 DEF Next, Deliver, Enroll, EnrollCreate, Issue,
     JoinCreates, SetAcl, Start, vars, memory

\* Only these steps touch the tables, their files and what is said of them.
TablesUnchanged ==
    UNCHANGED <<up, secrets, channels, secretsFile, channelsFile, behind, lost,
                issued, revoked, wanted>>

SecretsChange ==
    /\ up /\ up' /\ PersistSecrets
    /\ UNCHANGED <<channels, wanted, lost>>

ChannelsChange ==
    /\ up /\ up' /\ PersistChannels
    /\ UNCHANGED <<secrets, issued, revoked, lost>>

\* Which steps touch the tables and the files, and how.
LEMMA StepKinds ==
    ASSUME [Next]_vars
    PROVE  \/ TablesUnchanged
           \/ SecretsChange /\ \E c \in Conn, s \in Secret : Enroll(c, s) \/ EnrollCreate(c, s)
           \/ SecretsChange /\ \E a \in Agent :
                  AdminEvict(a) /\ secrets[entry[a]] # {} /\ ~Shared(a, entry[a])
           \/ ChannelsChange /\ \E k \in Chan, l \in Acl \cup {OpenAcl} :
                  /\ channels' = [channels EXCEPT ![k] = l]
                  /\ wanted' = [wanted EXCEPT ![k] = l]
           \/ Crash
           \/ Start
<1>1. ASSUME NEW c \in Conn, Dial(c) \/ Close(c) \/ Deliver(c) PROVE TablesUnchanged
  BY <1>1 DEF Dial, Close, Deliver, TablesUnchanged, files, history
<1>2. ASSUME NEW c \in Conn, NEW a \in Agent, NEW n \in Name, Hello(c, a, n) PROVE TablesUnchanged
  BY <1>2 DEF Hello, TablesUnchanged, files, history
<1>3. ASSUME NEW c \in Conn, NEW s \in Secret, Enroll(c, s) \/ EnrollCreate(c, s) PROVE SecretsChange
  BY <1>3 DEF Enroll, EnrollCreate, Issue, MasterHello, SecretsChange
<1>4. ASSUME NEW a \in Agent, AdminEvict(a)
      PROVE  \/ TablesUnchanged
             \/ SecretsChange /\ secrets[entry[a]] # {} /\ ~Shared(a, entry[a])
  BY <1>4 DEF AdminEvict, TablesUnchanged, SecretsChange, files
<1>5. ASSUME NEW c \in Conn, NEW k \in Chan, JoinCreates(c, k)
      PROVE  /\ ChannelsChange /\ channels' = [channels EXCEPT ![k] = OpenAcl]
             /\ wanted' = [wanted EXCEPT ![k] = OpenAcl]
  BY <1>5 DEF JoinCreates, MasterHello, ChannelsChange
<1>6. ASSUME NEW k \in Chan, NEW l \in Acl, SetAcl(k, l)
      PROVE  /\ ChannelsChange /\ channels' = [channels EXCEPT ![k] = l]
             /\ wanted' = [wanted EXCEPT ![k] = l]
  BY <1>6 DEF SetAcl, ChannelsChange
<1>7. ASSUME UNCHANGED vars PROVE TablesUnchanged
  BY <1>7 DEF vars, memory, files, history, TablesUnchanged
<1>8. QED
  BY <1>1, <1>2, <1>3, <1>4, <1>5, <1>6, <1>7 DEF Next

\* A file whose last write succeeded stays a copy of memory.
LEMMA StepFiles == TypeOK /\ FilesFollow /\ [Next]_vars => FilesFollow'
<1> SUFFICES ASSUME TypeOK, FilesFollow, [Next]_vars PROVE FilesFollow'
  OBVIOUS
<1>1. CASE TablesUnchanged
  BY <1>1 DEF TablesUnchanged, FilesFollow, NoSecrets, NoChannels
<1>2. CASE SecretsChange
  BY <1>2, SecretsWrite DEF SecretsChange, FilesFollow
<1>3. CASE ChannelsChange
  BY <1>3, ChannelsWrite DEF ChannelsChange, FilesFollow
<1>4. CASE Crash
  BY <1>4 DEF Crash, FilesFollow, files, NoSecrets, NoChannels
<1>5. CASE Start
  BY <1>5 DEF Start, FilesFollow, files, Loaded, LoadedChannels
<1>6. QED
  BY <1>1, <1>2, <1>3, <1>4, <1>5, StepKinds

\* The ACLs in memory, or on disk while the hub is down, are the last ones given.
LEMMA StepRegistry ==
    TypeOK /\ FilesFollow /\ ("channels" \notin lost => Registry = wanted) /\ [Next]_vars
        => ("channels" \notin lost => Registry = wanted)'
<1> SUFFICES ASSUME TypeOK, FilesFollow, "channels" \notin lost => Registry = wanted,
                    [Next]_vars, "channels" \notin lost'
             PROVE  Registry' = wanted'
  OBVIOUS
<1>1. CASE TablesUnchanged
  BY <1>1 DEF TablesUnchanged, Registry
<1>2. CASE SecretsChange
  BY <1>2 DEF SecretsChange, Registry
<1>3. ASSUME NEW k \in Chan, NEW l, ChannelsChange,
             channels' = [channels EXCEPT ![k] = l], wanted' = [wanted EXCEPT ![k] = l]
      PROVE  Registry' = wanted'
  BY <1>3 DEF ChannelsChange, Registry
<1>4. CASE Crash
  <2>1. up /\ ~up' /\ "channels" \notin behind /\ "channels" \notin lost
    BY <1>4 DEF Crash
  <2>2. QED
    BY <1>4, <2>1 DEF Crash, FilesFollow, Registry, files, history
<1>5. CASE Start
  BY <1>5 DEF Start, Registry, LoadedChannels, files, history
<1>6. QED
  BY <1>1, <1>2, <1>3, <1>4, <1>5, StepKinds

\* What is said of the secrets alone.
SecretsOK ==
    /\ OneName(secrets) /\ OneName(secretsFile)
    /\ "secrets" \notin lost => Accounts(Table)

\* The secrets in memory, or on disk while the hub is down, stay accounted for.
LEMMA StepSecrets == TypeOK /\ Named /\ FilesFollow /\ SecretsOK /\ [Next]_vars => SecretsOK'
<1> SUFFICES ASSUME TypeOK, Named, FilesFollow, SecretsOK, [Next]_vars PROVE SecretsOK'
  OBVIOUS
<1> USE StoreConstants
<1>0. /\ secrets \in [Name -> SUBSET issued] /\ secretsFile \in [Name -> SUBSET issued]
      /\ revoked \subseteq issued
  BY DEF TypeOK
<1>1. CASE TablesUnchanged
  BY <1>1 DEF TablesUnchanged, SecretsOK, OneName, Accounts, Table
<1>2. ASSUME NEW c \in Conn, NEW s \in Secret, SecretsChange, Enroll(c, s) PROVE SecretsOK'
  <2> DEFINE n == conn[c].name
  <2>1. n \in Name
    BY <1>2 DEF TypeOK, Record, Named, Enroll, Issue, MasterHello
  <2>2. /\ s \notin issued /\ issued' = issued \cup {s} /\ lost' = lost /\ up /\ up'
        /\ secrets' = [secrets EXCEPT ![n] = {s}] /\ revoked' = revoked \cup secrets[n]
    BY <1>2 DEF Enroll, Issue, Rotate, SecretsChange
  <2>3. OneName(secrets')
    BY <1>0, <2>1, <2>2 DEF SecretsOK, OneName
  <2>4. OneName(secretsFile')
    BY <1>2, <2>3, SecretsWrite DEF SecretsChange, SecretsOK, OneName
  <2>5. Accounts(secrets) => Accounts(secrets)'
    BY <1>0, <2>1, <2>2 DEF Accounts, SecretsOK, OneName
  <2>6. QED
    BY <2>2, <2>3, <2>4, <2>5 DEF SecretsOK, Table, OneName, Accounts
<1>3. ASSUME NEW c \in Conn, NEW s \in Secret, SecretsChange, EnrollCreate(c, s) PROVE SecretsOK'
  <2> DEFINE n == conn[c].name
  <2>1. n \in Name
    BY <1>3 DEF TypeOK, Record, Named, EnrollCreate, Issue, MasterHello
  <2>2. /\ s \notin issued /\ issued' = issued \cup {s} /\ lost' = lost /\ up /\ up'
        /\ secrets' = [secrets EXCEPT ![n] = secrets[n] \cup {s}] /\ revoked' = revoked
    BY <1>3 DEF EnrollCreate, Issue, Add, SecretsChange
  <2>3. OneName(secrets')
    BY <1>0, <2>1, <2>2 DEF SecretsOK, OneName
  <2>4. OneName(secretsFile')
    BY <1>3, <2>3, SecretsWrite DEF SecretsChange, SecretsOK, OneName
  <2>5. Accounts(secrets) => Accounts(secrets)'
    BY <1>0, <2>1, <2>2 DEF Accounts
  <2>6. QED
    BY <2>2, <2>3, <2>4, <2>5 DEF SecretsOK, Table, OneName, Accounts
<1>4. ASSUME NEW a \in Agent, SecretsChange, AdminEvict(a),
             secrets[entry[a]] # {}, ~Shared(a, entry[a])
      PROVE  SecretsOK'
  <2> DEFINE n == entry[a]
  <2>1. n \in Name
    BY <1>4 DEF TypeOK, AdminEvict
  <2>2. /\ issued' = issued /\ lost' = lost /\ up /\ up'
        /\ secrets' = [secrets EXCEPT ![n] = {}] /\ revoked' = revoked \cup secrets[n]
    BY <1>4 DEF AdminEvict, SecretsChange
  <2>3. OneName(secrets')
    BY <1>0, <2>1, <2>2 DEF SecretsOK, OneName
  <2>4. OneName(secretsFile')
    BY <1>4, <2>3, SecretsWrite DEF SecretsChange, SecretsOK, OneName
  <2>5. Accounts(secrets) => Accounts(secrets)'
    BY <1>0, <2>1, <2>2 DEF Accounts, SecretsOK, OneName
  <2>6. QED
    BY <2>2, <2>3, <2>4, <2>5 DEF SecretsOK, Table, OneName, Accounts
<1>5. CASE ChannelsChange
  BY <1>5, ChannelsWrite DEF ChannelsChange, SecretsOK, OneName, Accounts, Table
<1>6. CASE Crash
  <2>1. OneName(secrets)' /\ OneName(secretsFile)'
    BY <1>6 DEF Crash, files, SecretsOK, OneName, NoSecrets
  <2>2. ASSUME "secrets" \notin lost' PROVE Accounts(Table)'
    <3>1. up /\ ~up' /\ "secrets" \notin behind /\ "secrets" \notin lost
      BY <1>6, <2>2 DEF Crash
    <3>2. Table' = Table /\ UNCHANGED <<issued, revoked>>
      BY <1>6, <3>1 DEF Crash, FilesFollow, Table, files, history
    <3>3. QED
      BY <3>1, <3>2 DEF SecretsOK, Accounts
  <2>3. QED
    BY <2>1, <2>2 DEF SecretsOK
<1>7. CASE Start
  BY <1>7 DEF Start, SecretsOK, OneName, Accounts, Table, Loaded, files, history
<1>8. QED
  BY <1>1, <1>2, <1>3, <1>4, <1>5, <1>6, <1>7, StepKinds

\* The invariant holds whatever crashes and failed writes a run meets.
THEOREM StoreInvariant == Spec => []StoreInv
<1>1. StoreInv /\ [Next]_vars => StoreInv'
  <2> SUFFICES ASSUME StoreInv, [Next]_vars PROVE StoreInv'
    OBVIOUS
  <2>1. TypeOK'
    BY StepConnsOK, StepBooksOK DEF StoreInv, TypeOK, ConnsOK, BooksOK
  <2>2. Named' /\ Spoken' /\ FilesFollow'
    BY StepSpoken, StepFiles DEF StoreInv
  <2>3. SecretsOK'
    BY StepSecrets DEF StoreInv, SecretsOK
  <2>4. ("channels" \notin lost => Registry = wanted)'
    BY StepRegistry DEF StoreInv
  <2>5. QED
    BY <2>1, <2>2, <2>3, <2>4 DEF StoreInv, SecretsOK
<1>2. QED
  BY <1>1, InitStoreInv, PTL DEF Spec

\* TypeOK is invariant.
THEOREM StoreTyped == Spec => []TypeOK
<1>1. StoreInv => TypeOK
  BY DEF StoreInv
<1>2. QED
  BY <1>1, StoreInvariant, PTL

\* A delivered secret that nobody revoked keeps opening connections, across any
\* number of restarts: persistSecrets after every change, loadSecrets at start.
THEOREM DeliveredSecretsWork == Spec => []HeldSecretOpens
<1>1. StoreInv => HeldSecretOpens
  BY DEF StoreInv, TypeOK, HeldSecretOpens, Accounts, Table
<1>2. QED
  BY <1>1, StoreInvariant, PTL

\* A rotated or purged secret never opens a connection again.
THEOREM RevocationIsFinal == Spec => []RevokedStaysRevoked
<1>1. StoreInv => RevokedStaysRevoked
  <2> SUFFICES ASSUME StoreInv PROVE RevokedStaysRevoked
    OBVIOUS
  <2>1. CASE up
    BY <2>1 DEF StoreInv, RevokedStaysRevoked, Accounts, Table
  <2>2. CASE ~up
    BY <2>2 DEF StoreInv, FilesFollow, RevokedStaysRevoked, NoSecrets
  <2>3. QED
    BY <2>1, <2>2
<1>2. QED
  BY <1>1, StoreInvariant, PTL

\* The ACL in force is the last one given, across restarts.
THEOREM AclsSurvive == Spec => []LastAclHolds
<1>1. StoreInv => LastAclHolds
  BY DEF StoreInv, LastAclHolds, Registry
<1>2. QED
  BY <1>1, StoreInvariant, PTL

\* Whoever is online on a client secret is shown under that secret's name.
THEOREM SecretsSpeakForTheirName == Spec => []EnrolledNameOnly
<1>1. StoreInv => EnrolledNameOnly
  BY DEF StoreInv, Spoken, EnrolledNameOnly
<1>2. QED
  BY <1>1, StoreInvariant, PTL

\* adminEvict purges a name's secrets only with the name's last agent.
THEOREM PurgeNeedsLastHolder == Spec => PurgeIsLast
<1> DEFINE Step == \A n \in Name : up /\ up' /\ secrets[n] # {} /\ secrets'[n] = {} =>
                       \A a \in Agent : entry'[a] # n
<1>1. StoreInv /\ [Next]_vars => [Step]_vars
  <2> SUFFICES ASSUME StoreInv, [Next]_vars, NEW n \in Name, up, up',
                      secrets[n] # {}, secrets'[n] = {}
               PROVE  \A a \in Agent : entry'[a] # n
    OBVIOUS
  <2> USE StoreConstants
  <2>0. secrets \in [Name -> SUBSET issued] /\ entry \in [Agent -> Name \cup {None}]
    BY DEF StoreInv, TypeOK
  <2>1. ASSUME NEW a \in Agent, AdminEvict(a), secrets[entry[a]] # {}, ~Shared(a, entry[a])
        PROVE  \A b \in Agent : entry'[b] # n
    <3>1. n = entry[a]
      BY <2>0, <2>1 DEF AdminEvict
    <3>2. QED
      BY <2>0, <2>1, <3>1 DEF AdminEvict, Shared
  <2>2. ASSUME NEW c \in Conn, NEW s \in Secret, Enroll(c, s) \/ EnrollCreate(c, s) PROVE FALSE
    BY <2>0, <2>2 DEF Enroll, EnrollCreate, Issue, Rotate, Add
  <2>3. QED
    BY <2>1, <2>2, StepKinds DEF TablesUnchanged, ChannelsChange, Crash, Start
<1>2. QED
  BY <1>1, StoreInvariant, PTL DEF Spec, PurgeIsLast
=============================================================================
