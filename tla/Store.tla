------------------------------- MODULE Store -------------------------------
(***************************************************************************)
(* What the hub keeps on disk (src/hub/store.go, src/hub/enroll.go): the   *)
(* hashes of the client secrets it issued and the channel registry, both   *)
(* rewritten as a whole, under h.mu, after every change, and read back     *)
(* once when the hub starts.  Around them: the upgrade that checks a       *)
(* bearer token, the hello that binds a secret to a name, enroll and       *)
(* enroll_create, and the owner's ACL and eviction calls.                  *)
(*                                                                         *)
(* A write may fail: the error is logged, memory keeps the change and the  *)
(* file its old content (writeAtomic renames a finished file).  A crash    *)
(* loses all memory: connections, registry, undelivered replies.           *)
(***************************************************************************)
EXTENDS FiniteSets, Integers

CONSTANTS
    Conn,        \* connections
    Agent,       \* agent ids
    Name,        \* hello names
    Secret,      \* client secrets that crypto/rand may draw, never twice
    Chan,        \* channels
    Acl,         \* allowed lists the owner may set
    OpenAcl,     \* the empty list a channel is created with
    None,
    MaxCrashes,  \* bound: crashes of the hub
    MaxFaults    \* bound: writes that fail

ASSUME StoreConstants ==
    /\ OpenAcl \in Acl /\ None \notin Acl
    /\ None \notin Conn /\ None \notin Agent /\ None \notin Name
    /\ MaxCrashes \in Nat /\ MaxFaults \in Nat

VARIABLES
    up,            \* the process runs
    conn,          \* [Conn -> [kind, bound, agent, name]]   client
    clients,       \* [Agent -> Conn or None]                hub.clients
    entry,         \* [Agent -> Name or None]                hub.agents, the Name field
    secrets,       \* [Name -> SUBSET Secret]                hub.secrets
    secretsFile,   \* the same, as secrets.json has it
    channels,      \* [Chan -> Acl or None]                  hub.channels, the Allowed field
    channelsFile,  \* the same, as channels.json has it
    reply,         \* [Conn -> SUBSET Secret]  enrolled replies not yet written
    issued,        \* history: secrets drawn
    held,          \* history: secrets that reached a client
    revoked,       \* history: secrets rotated away or purged
    wanted,        \* history: [Chan -> Acl or None]  the last ACL given to each channel
    behind,        \* history: files whose last write failed
    lost,          \* history: files that were behind when the hub crashed
    crashes, faults

memory == <<conn, clients, entry, secrets, channels, reply>>
files == <<secretsFile, channelsFile, behind, faults>>
history == <<issued, held, revoked, wanted>>
vars == <<up, memory, files, history, lost, crashes>>

Closed == [kind |-> "closed", bound |-> None, agent |-> None, name |-> None]
NoConns == [c \in Conn |-> Closed]
NoSecrets == [n \in Name |-> {}]
NoChannels == [k \in Chan |-> None]

Init ==
    /\ up = TRUE
    /\ conn = NoConns
    /\ clients = [a \in Agent |-> None]
    /\ entry = [a \in Agent |-> None]
    /\ secrets = NoSecrets /\ secretsFile = NoSecrets
    /\ channels = NoChannels /\ channelsFile = NoChannels
    /\ reply = [c \in Conn |-> {}]
    /\ issued = {} /\ held = {} /\ revoked = {}
    /\ wanted = NoChannels
    /\ behind = {} /\ lost = {}
    /\ crashes = 0 /\ faults = 0

----------------------------------------------------------------------------
(* The files. *)

\* A mutation: the file is written before memory changes.
WriteOld(f, old, new) == old
Written(f, old, new) == new

\* writeAtomic of file f, whose content in memory goes from old to new: what
\* the file holds afterwards.
Persist(f, file, old, new) ==
    \/ /\ file' = Written(f, old, new)
       /\ behind' = behind \ {f}
       /\ UNCHANGED faults
    \/ /\ faults < MaxFaults
       /\ faults' = faults + 1
       /\ behind' = behind \cup {f}
       /\ UNCHANGED file

PersistSecrets ==
    /\ Persist("secrets", secretsFile, secrets, secrets')
    /\ UNCHANGED channelsFile

PersistChannels ==
    /\ Persist("channels", channelsFile, channels, channels')
    /\ UNCHANGED secretsFile

----------------------------------------------------------------------------
(* Connections. *)

\* A dial that presents the master secret, or a client secret: unknown ones
\* get a 401 and no connection.
Dial(c) ==
    /\ up /\ conn[c] = Closed
    /\ \/ conn' = [conn EXCEPT ![c].kind = "master"]
       \/ \E n \in Name : \E s \in secrets[n] \cap held :
            conn' = [conn EXCEPT ![c].kind = "agent", ![c].bound = n]
    /\ UNCHANGED <<up, clients, entry, secrets, channels, reply, files, history, lost, crashes>>

\* A mutation: any name is welcome.
NameUnchecked(c, n) == TRUE
NameFits(c, n) == conn[c].kind = "agent" => n = conn[c].bound

\* hello: register takes the identity over; a name the secret was not issued
\* to closes the connection.
Hello(c, a, n) ==
    /\ up /\ conn[c].kind # "closed" /\ conn[c].agent = None
    /\ IF NameFits(c, n)
         THEN /\ conn' = [conn EXCEPT ![c].agent = a, ![c].name = n]
              /\ clients' = [clients EXCEPT ![a] = c]
              /\ entry' = [entry EXCEPT ![a] = n]
         ELSE /\ conn' = [conn EXCEPT ![c] = Closed]
              /\ UNCHANGED <<clients, entry>>
    /\ UNCHANGED <<up, secrets, channels, reply, files, history, lost, crashes>>

Owns(a, c) == clients[a] = c

\* readLoop returns and deregister runs; a superseded connection leaves the
\* registry alone.  Replies that were not written are gone.
Close(c) ==
    /\ up /\ conn[c] # Closed
    /\ conn' = [conn EXCEPT ![c] = Closed]
    /\ clients' = [a \in Agent |-> IF Owns(a, c) THEN None ELSE clients[a]]
    /\ reply' = [reply EXCEPT ![c] = {}]
    /\ UNCHANGED <<up, entry, secrets, channels, files, history, lost, crashes>>

\* The write pump writes an enrolled reply and the client gets it.
Deliver(c) ==
    /\ up
    /\ \E s \in reply[c] :
         /\ reply' = [reply EXCEPT ![c] = @ \ {s}]
         /\ held' = held \cup {s}
    /\ UNCHANGED <<up, conn, clients, entry, secrets, channels, files,
                   issued, revoked, wanted, lost, crashes>>

----------------------------------------------------------------------------
(* Enrollment. *)

MasterHello(c) == up /\ conn[c].kind = "master" /\ conn[c].agent # None

\* A mutation: enroll_create replaces as enroll does.
AddReplaces(n, s) == {s}
Add(n, s) == secrets[n] \cup {s}

\* A mutation: enroll keeps the earlier secrets.
RotateAdds(n, s) == secrets[n] \cup {s}
Rotate(n, s) == {s}

Issue(c, s, kept) ==
    /\ MasterHello(c)
    /\ s \notin issued
    /\ issued' = issued \cup {s}
    /\ secrets' = [secrets EXCEPT ![conn[c].name] = kept]
    /\ PersistSecrets
    /\ reply' = [reply EXCEPT ![c] = @ \cup {s}]
    /\ UNCHANGED <<up, conn, clients, entry, channels, held, wanted, lost, crashes>>

\* enroll: every earlier secret of the name stops working.
Enroll(c, s) ==
    /\ Issue(c, s, Rotate(conn[c].name, s))
    /\ revoked' = revoked \cup secrets[conn[c].name]

\* enroll_create: an independent secret for the name.
EnrollCreate(c, s) ==
    /\ Issue(c, s, Add(conn[c].name, s))
    /\ UNCHANGED revoked

----------------------------------------------------------------------------
(* Channels. *)

\* A master connection's first join of a channel creates it, open to all.
JoinCreates(c, k) ==
    /\ MasterHello(c) /\ channels[k] = None
    /\ channels' = [channels EXCEPT ![k] = OpenAcl]
    /\ wanted' = [wanted EXCEPT ![k] = OpenAcl]
    /\ PersistChannels
    /\ UNCHANGED <<up, conn, clients, entry, secrets, reply, issued, held, revoked, lost, crashes>>

\* PUT /api/channels/{name}/acl.
SetAcl(k, l) ==
    /\ up /\ channels[k] # l
    /\ channels' = [channels EXCEPT ![k] = l]
    /\ wanted' = [wanted EXCEPT ![k] = l]
    /\ PersistChannels
    /\ UNCHANGED <<up, conn, clients, entry, secrets, reply, issued, held, revoked, lost, crashes>>

----------------------------------------------------------------------------
(* Eviction by the owner. *)

\* A mutation: only agents that are online count as holders of the name.
SharedOnline(a, n) == \E b \in Agent \ {a} : entry[b] = n /\ clients[b] # None
Shared(a, n) == \E b \in Agent \ {a} : entry[b] = n

\* DELETE /api/agents/{agentId} of an agent that is offline; the last holder
\* of the name takes the name's secrets along.
AdminEvict(a) ==
    /\ up /\ entry[a] # None /\ clients[a] = None
    /\ entry' = [entry EXCEPT ![a] = None]
    /\ LET n == entry[a] IN
         IF secrets[n] # {} /\ ~Shared(a, n)
           THEN /\ secrets' = [secrets EXCEPT ![n] = {}]
                /\ revoked' = revoked \cup secrets[n]
                /\ PersistSecrets
           ELSE UNCHANGED <<secrets, revoked, files>>
    /\ UNCHANGED <<up, conn, clients, channels, reply, issued, held, wanted, lost, crashes>>

----------------------------------------------------------------------------
(* Crash and start. *)

Crash ==
    /\ up /\ crashes < MaxCrashes
    /\ up' = FALSE
    /\ crashes' = crashes + 1
    /\ conn' = NoConns
    /\ clients' = [a \in Agent |-> None]
    /\ entry' = [a \in Agent |-> None]
    /\ secrets' = NoSecrets /\ channels' = NoChannels
    /\ reply' = [c \in Conn |-> {}]
    /\ lost' = lost \cup behind
    /\ UNCHANGED <<files, history>>

\* A mutation: one record per name survives, as in a map from name to hash.
OneEach(file) == [n \in Name |-> IF file[n] = {} THEN {} ELSE {CHOOSE s \in file[n] : TRUE}]
Loaded(file) == file

\* A mutation: the allowed list is not read back.
AclsDropped(file) == [k \in Chan |-> IF file[k] = None THEN None ELSE OpenAcl]
LoadedChannels(file) == file

\* run: loadChannels and loadSecrets, then listen.
Start ==
    /\ ~up
    /\ up' = TRUE
    /\ secrets' = Loaded(secretsFile)
    /\ channels' = LoadedChannels(channelsFile)
    /\ UNCHANGED <<conn, clients, entry, reply, files, history, lost, crashes>>

Next ==
    \/ \E c \in Conn : Dial(c) \/ Close(c) \/ Deliver(c)
    \/ \E c \in Conn, a \in Agent, n \in Name : Hello(c, a, n)
    \/ \E c \in Conn, s \in Secret : Enroll(c, s) \/ EnrollCreate(c, s)
    \/ \E c \in Conn, k \in Chan : JoinCreates(c, k)
    \/ \E k \in Chan, l \in Acl : SetAcl(k, l)
    \/ \E a \in Agent : AdminEvict(a)
    \/ Crash
    \/ Start

Spec == Init /\ [][Next]_vars

----------------------------------------------------------------------------
(* Properties. *)

Record == [kind : {"closed", "master", "agent"}, bound : Name \cup {None},
           agent : Agent \cup {None}, name : Name \cup {None}]

\* The state is well formed: in particular a client-secret connection is bound
\* to a name, and a live one is the one its own hello named.
TypeOK ==
    /\ up \in BOOLEAN
    /\ conn \in [Conn -> Record]
    /\ clients \in [Agent -> Conn \cup {None}]
    /\ \A a \in Agent : clients[a] # None => conn[clients[a]].agent = a
    /\ entry \in [Agent -> Name \cup {None}]
    /\ {secrets, secretsFile} \subseteq [Name -> SUBSET issued]
    /\ {channels, channelsFile, wanted} \subseteq [Chan -> Acl \cup {None}]
    /\ reply \in [Conn -> SUBSET issued]
    /\ {held, revoked} \subseteq SUBSET issued /\ issued \subseteq Secret
    /\ {behind, lost} \subseteq SUBSET {"secrets", "channels"}
    /\ crashes \in 0..MaxCrashes /\ faults \in 0..MaxFaults

\* A secret that a client was given and that nobody revoked opens a connection,
\* before and after any restart, unless the hub crashed with a failed write of
\* secrets.json behind it.
HeldSecretOpens ==
    up /\ "secrets" \notin lost =>
        \A s \in held \ revoked : \E n \in Name : s \in secrets[n]

\* A secret that enroll rotated away or an eviction purged opens no connection
\* ever again, under the same proviso: no restart brings it back.
RevokedStaysRevoked ==
    "secrets" \notin lost => \A s \in revoked, n \in Name : s \notin secrets[n]

\* The ACL in force is the last one the channel was given, across restarts: no
\* join can re-create a restricted channel as an open one.
LastAclHolds ==
    up /\ "channels" \notin lost => channels = wanted

\* A name that loses all its secrets in a running hub has no entry left in the
\* registry: agents that share a display name do not evict each other.
PurgeIsLast ==
    [][\A n \in Name : up /\ up' /\ secrets[n] # {} /\ secrets'[n] = {} =>
           \A a \in Agent : entry'[a] # n]_vars

\* A connection that carries a client secret speaks under that secret's name
\* alone, whatever its key, so the registry shows no name nobody enrolled or
\* that no master connection introduced.
EnrolledNameOnly ==
    \A a \in Agent :
        clients[a] # None /\ conn[clients[a]].kind = "agent" => entry[a] = conn[clients[a]].bound
=============================================================================
