----------------------------- MODULE Deployment -----------------------------
(***************************************************************************)
(* The command line program as it is deployed: a server process that loads *)
(* or generates its certificate, listens, launches its ingresses, waits    *)
(* for a signal and stops; and a client process, configured with the hash  *)
(* that the server logged, that launches its egresses and stops them.      *)
(*                                                                         *)
(* The server may crash at any step (a kill, a panic of an unwrap() on an  *)
(* I/O error) and be launched again in the same directory: the two files   *)
(* of its certificate are all that stays.  One server runs at a time.  The *)
(* egresses are those of module Egress, reduced to running or not; slot n  *)
(* of Connections belongs to the n-th egress.                              *)
(***************************************************************************)
EXTENDS Server, Config

CONSTANTS
    ServerCommands,  \* the command lines of the server
    ClientCommands,  \* the command lines of the client
    Directories,     \* what may be in the directory before the first launch
    MaxLaunches,     \* bound: launches of the server
    MaxLosses        \* bound: connections lost while both processes run

ASSUME MaxLaunchesAssumption == MaxLaunches \in Nat
ASSUME MaxLossesAssumption == MaxLosses \in Nat

VARIABLES
    serverCommand,  \* the command line of the server
    server,         \* where main() of the server is
    launches,       \* how often the server was launched
    config,         \* the configuration of this launch
    file,           \* the files of the directory
    generated,      \* the last certificate generated; 1 was not generated
    pair,           \* certificate and private key in memory
    announced,      \* the certificate whose hash was logged last, or 0
    clientCommand,  \* the command line of the client
    client,         \* where main() of the client is
    pin,            \* the hash that the user has copied
    entries,        \* the configured egresses
    egress,         \* each egress: off, on, panicked
    egressById,     \* Client.egress_by_id, by index
    draining,       \* the egresses that Client::stop() has still to stop
    losses          \* connections lost so far

processVars == <<serverCommand, server, launches, config>>
fileVars == <<file, generated, pair, announced>>
clientVars == <<clientCommand, client, pin, entries, egress, egressById, draining>>
vars == <<serverVars, processVars, fileVars, clientVars, losses>>

Absent == [what |-> "absent", gen |-> 0]
Torn == [what |-> "torn", gen |-> 0]
Pem(what, gen) == [what |-> what, gen |-> gen]
NoPair == [cert |-> 0, key |-> 0]

Init ==
    /\ ServerInit
    /\ serverCommand \in ServerCommands
    /\ clientCommand \in ClientCommands
    /\ file \in Directories
    /\ server = "down"
    /\ launches = 0
    /\ config = None
    /\ generated = 1
    /\ pair = NoPair
    /\ announced = 0
    /\ client = "down"
    /\ pin = 0
    /\ entries = <<>>
    /\ egress = [n \in Connections |-> "off"]
    /\ egressById = {}
    /\ draining = {}
    /\ losses = 0

----------------------------------------------------------------------------
(* main() of the server *)

GoesTo(here, there) == server = here /\ server' = there

(* Without a file or an ingress in its command line a process has nothing  *)
(* to do, and a file that does not parse is a panic.                       *)
ServerRuns(command) ==
    IF command.config = None THEN command.ingress # None
    ELSE ServerParses(command.config[1])

ServerLaunch ==
    /\ server = "down"
    /\ launches < MaxLaunches
    /\ launches' = launches + 1
    /\ IF ServerRuns(serverCommand)
       THEN /\ server' = "load"
            /\ config' = Some(ServerCommand(launches', serverCommand))
       ELSE UNCHANGED <<server, config>>
    /\ UNCHANGED <<serverVars, serverCommand, fileVars, clientVars, losses>>

CertFile == config[1].tls.cert_pem_path
KeyFile == config[1].tls.key_pem_path

(* Both files parse. *)
LoadCertificate ==
    /\ GoesTo("load", "announce")
    /\ file[CertFile].what = "cert"
    /\ file[KeyFile].what = "key"
    /\ pair' = [cert |-> file[CertFile].gen, key |-> file[KeyFile].gen]
    /\ UNCHANGED <<serverVars, serverCommand, launches, config, file, generated,
                   announced, clientVars, losses>>

(* One of them does not: both are generated anew. *)
GenerateCertificate ==
    /\ GoesTo("load", "write cert")
    /\ file[CertFile].what # "cert" \/ file[KeyFile].what # "key"
    /\ generated' = generated + 1
    /\ pair' = [cert |-> generated', key |-> generated']
    /\ UNCHANGED <<serverVars, serverCommand, launches, config, file, announced,
                   clientVars, losses>>

(* tokio::fs::write() truncates the file, then fills it. *)
Truncate(path, here, there) ==
    /\ GoesTo(here, there)
    /\ file' = [file EXCEPT ![path] = Torn]
    /\ UNCHANGED <<serverVars, serverCommand, launches, config, generated, pair,
                   announced, clientVars, losses>>

Fill(path, content, here, there) ==
    /\ GoesTo(here, there)
    /\ file' = [file EXCEPT ![path] = content]
    /\ UNCHANGED <<serverVars, serverCommand, launches, config, generated, pair,
                   announced, clientVars, losses>>

\* The hash is logged when the certificate is written, before the key is.
WriteAnnouncesEarly ==
    \/ Truncate(CertFile, "write cert", "fill cert")
    \/ /\ GoesTo("fill cert", "write key")
       /\ file' = [file EXCEPT ![CertFile] = Pem("cert", pair.cert)]
       /\ announced' = pair.cert
       /\ UNCHANGED <<serverVars, serverCommand, launches, config, generated,
                      pair, clientVars, losses>>
    \/ Truncate(KeyFile, "write key", "fill key")
    \/ Fill(KeyFile, Pem("key", pair.key), "fill key", "announce")

\* The key is written first.
WriteKeyFirst ==
    \/ Truncate(KeyFile, "write cert", "fill cert")
    \/ Fill(KeyFile, Pem("key", pair.key), "fill cert", "write key")
    \/ Truncate(CertFile, "write key", "fill key")
    \/ Fill(CertFile, Pem("cert", pair.cert), "fill key", "announce")

WriteCertificate ==
    \/ Truncate(CertFile, "write cert", "fill cert")
    \/ Fill(CertFile, Pem("cert", pair.cert), "fill cert", "write key")
    \/ Truncate(KeyFile, "write key", "fill key")
    \/ Fill(KeyFile, Pem("key", pair.key), "fill key", "announce")

(* The hash is logged. *)
Announce ==
    /\ GoesTo("announce", "listen")
    /\ announced' = pair.cert
    /\ UNCHANGED <<serverVars, serverCommand, launches, config, file, generated,
                   pair, clientVars, losses>>

(* Server::new_with_certificate() accepts a pair that belongs together. *)
ServerListens ==
    /\ GoesTo("listen", "launch")
    /\ pair.cert = pair.key
    /\ Listen
    /\ UNCHANGED <<serverCommand, launches, config, fileVars, clientVars, losses>>

(* The next ingress is created and started, and registered after that. *)
Launched == Len(ingresses)
AllLaunched == Launched = Len(config[1].ingresses)

LaunchIngress ==
    /\ GoesTo("launch", "assign")
    /\ ~AllLaunched
    /\ StartIngress(config[1].ingresses[Launched + 1])
    /\ UNCHANGED <<serverCommand, launches, config, fileVars, clientVars, losses>>

AssignLaunched ==
    /\ GoesTo("assign", "launch")
    /\ AssignIngress(Launched)
    /\ UNCHANGED <<serverCommand, launches, config, fileVars, clientVars, losses>>

ServerReady ==
    /\ GoesTo("launch", "serve")
    /\ AllLaunched
    /\ UNCHANGED <<serverVars, serverCommand, launches, config, fileVars,
                   clientVars, losses>>

(* SIGINT or SIGTERM, and the rest of main(). *)
ServerSignal ==
    /\ GoesTo("serve", "stop")
    /\ StopTake
    /\ UNCHANGED <<serverCommand, launches, config, fileVars, clientVars, losses>>

ServerStops ==
    /\ server = "stop"
    /\ Stopping
    /\ UNCHANGED <<processVars, fileVars, clientVars, losses>>

(* The process is gone, and all it had in memory. *)
ServerGone ==
    /\ server' = "down"
    /\ pair' = NoPair
    /\ endpoint' = FALSE
    /\ open' = FALSE
    /\ ingresses' = <<>>
    /\ registry' = {}
    /\ stopping' = "no"
    /\ conn' = [k \in Connections |-> NoConnection]
    /\ UNCHANGED <<serverCommand, launches, config, file, generated, announced,
                   clientVars, losses>>

ServerExits ==
    /\ server = "stop"
    /\ stopping = "no"
    /\ ServerGone

(* A certificate that does not belong to the key, an address in use, an    *)
(* ingress id that is taken.                                               *)
ServerPanics ==
    /\ \/ server = "listen" /\ pair.cert # pair.key
       \/ server = "launch" /\ ~AllLaunched /\ ~CanBind(config[1].ingresses[Launched + 1])
       \/ server = "assign" /\ IdTaken(Launched)
    /\ ServerGone

ServerCrashes ==
    /\ server # "down"
    /\ ServerGone

----------------------------------------------------------------------------
(* main() of the client *)

EgressOf(command) ==
    IF command.config # None THEN ClientToml(command.config[1])
    ELSE <<EgressArgs(command.egress[1])>>

ClientRuns(command) ==
    IF command.config = None THEN command.egress # None
    ELSE ClientParses(command.config[1]) /\ ~ClientTomlFails(command.config[1])

(* The user starts the client with the hash from the log of the server. *)
ClientLaunch ==
    /\ client = "down"
    /\ announced # 0
    /\ pin' = announced
    /\ IF ClientRuns(clientCommand)
       THEN client' = "launch" /\ entries' = EgressOf(clientCommand)
       ELSE client' = "ended" /\ UNCHANGED entries
    /\ UNCHANGED <<serverVars, processVars, fileVars, clientCommand, egress,
                   egressById, draining, losses>>

(* How many egresses were started; the last one may not be assigned yet. *)
Started == Cardinality({n \in Connections : egress[n] # "off"})
AllStarted == Started = Len(entries)

(* The lookup of the target and of the server, and the decoding of the     *)
(* hash.                                                                   *)
Resolves(entry) ==
    /\ entry.target # "unknown"
    /\ entry.server.address # None
    /\ entry.server.cert_hash # "garbled"

EgressIdTaken(n) == \E m \in egressById : entries[m].id = entries[n].id

(* start() of the egress comes first, assign_egress() after it. *)
LaunchEgress ==
    /\ client = "launch"
    /\ ~AllStarted
    /\ Resolves(entries[Started + 1])
    /\ egress' = [egress EXCEPT ![Started + 1] = "on"]
    /\ client' = "assign"
    /\ UNCHANGED <<serverVars, processVars, fileVars, clientCommand, pin, entries,
                   egressById, draining, losses>>

AssignEgress ==
    /\ client = "assign"
    /\ ~EgressIdTaken(Started)
    /\ egressById' = egressById \cup {Started}
    /\ client' = "launch"
    /\ UNCHANGED <<serverVars, processVars, fileVars, clientCommand, pin, entries,
                   egress, draining, losses>>

ClientReady ==
    /\ client = "launch"
    /\ AllStarted
    /\ client' = "wait"
    /\ UNCHANGED <<serverVars, processVars, fileVars, clientCommand, pin, entries,
                   egress, egressById, draining, losses>>

(* A signal: Client::stop() drains the map and lets go of its lock. *)
ClientSignal ==
    /\ client = "wait"
    /\ client' = "stop"
    /\ draining' = egressById
    /\ egressById' = {}
    /\ UNCHANGED <<serverVars, processVars, fileVars, clientCommand, pin, entries,
                   egress, losses>>

(* The connection of an egress that ends, seen from the server. *)
Disconnect(ns) ==
    conn' = [k \in Connections |-> IF k \in ns THEN [conn[k] EXCEPT !.up = FALSE]
                                   ELSE conn[k]]

\* The first error ends stop().
StopEgressOrReturn(n) ==
    /\ client = "stop"
    /\ n \in draining
    /\ draining' = IF egress[n] = "panicked" THEN {} ELSE draining \ {n}
    /\ egress' = [egress EXCEPT ![n] = "off"]
    /\ Disconnect({n})
    /\ UNCHANGED <<endpoint, open, ingresses, registry, stopping, processVars,
                   fileVars, clientCommand, client, pin, entries, egressById, losses>>

(* One egress after the other; an error, that of an egress whose task has  *)
(* panicked, is logged.                                                    *)
StopEgress(n) ==
    /\ client = "stop"
    /\ n \in draining
    /\ draining' = draining \ {n}
    /\ egress' = [egress EXCEPT ![n] = "off"]
    /\ Disconnect({n})
    /\ UNCHANGED <<endpoint, open, ingresses, registry, stopping, processVars,
                   fileVars, clientCommand, client, pin, entries, egressById, losses>>

ClientExits ==
    /\ client = "stop"
    /\ draining = {}
    /\ client' = "exited"
    /\ UNCHANGED <<serverVars, processVars, fileVars, clientCommand, pin, entries,
                   egress, egressById, draining, losses>>

(* A name that does not resolve, a hash that does not decode, an egress id *)
(* that is taken: main() panics, and its egresses end with the process.    *)
ClientPanics ==
    /\ \/ client = "launch" /\ ~AllStarted /\ ~Resolves(entries[Started + 1])
       \/ client = "assign" /\ EgressIdTaken(Started)
    /\ client' = "ended"
    /\ egress' = [n \in Connections |-> "off"]
    /\ egressById' = {}
    /\ Disconnect(Connections)
    /\ UNCHANGED <<endpoint, open, ingresses, registry, stopping, processVars,
                   fileVars, clientCommand, pin, entries, draining, losses>>

----------------------------------------------------------------------------
(* The egresses *)

(* The hash of a [server] table: the one that was copied, or another. *)
Expected(entry) == IF entry.server.cert_hash = "logged" THEN pin ELSE 0

(* connect() reaches the server and CertificateHashVerifier accepts. *)
Connect(n) ==
    /\ egress[n] = "on"
    /\ entries[n].server.address = Some(config[1].client_addr)
    /\ Expected(entries[n]) = pair.cert
    /\ Accept(n, entries[n].ingress_id, entries[n].auth_key)
    /\ UNCHANGED <<processVars, fileVars, clientVars, losses>>

(* The tunnel task panics after too many failures (module Egress). *)
EgressPanics(n) ==
    /\ egress[n] = "on"
    /\ conn[n] = NoConnection
    /\ egress' = [egress EXCEPT ![n] = "panicked"]
    /\ UNCHANGED <<serverVars, processVars, fileVars, clientCommand, client, pin,
                   entries, egressById, draining, losses>>

Lose(k) ==
    /\ losses < MaxLosses
    /\ losses' = losses + 1
    /\ LinkLost(k)
    /\ UNCHANGED <<processVars, fileVars, clientVars>>

Serve(k) ==
    /\ ConnectionTask(k)
    /\ UNCHANGED <<processVars, fileVars, clientVars, losses>>

----------------------------------------------------------------------------
(* What is in the directory before the first launch was not generated, and *)
(* the directory has a place for the files of every command line.          *)
ASSUME DirectoriesAssumption ==
    \A directory \in Directories :
        /\ \A path \in DOMAIN directory :
              directory[path] \in {Absent, Torn, Pem("cert", 1), Pem("key", 1)}
        /\ \A command \in ServerCommands : ServerRuns(command) =>
              LET tls == ServerCommand(1, command).tls IN
              {tls.cert_pem_path, tls.key_pem_path} \subseteq DOMAIN directory

(* The egresses of a command line are a sequence, and each has its slot. *)
ASSUME SlotsAssumption ==
    \A command \in ClientCommands : ClientRuns(command) =>
        /\ Len(EgressOf(command)) \in Nat
        /\ DOMAIN EgressOf(command) = 1..Len(EgressOf(command))
        /\ DOMAIN EgressOf(command) \subseteq Connections

ServerMain == \/ LoadCertificate \/ GenerateCertificate \/ WriteCertificate
              \/ Announce \/ ServerListens \/ LaunchIngress \/ AssignLaunched
              \/ ServerReady \/ ServerStops \/ ServerExits \/ ServerPanics

ClientMain == \/ LaunchEgress \/ AssignEgress \/ ClientReady \/ ClientExits
              \/ ClientPanics \/ \E n \in draining : StopEgress(n)

Next ==
    \/ ServerLaunch \/ ServerMain \/ ServerSignal \/ ServerCrashes
    \/ ClientLaunch \/ ClientMain \/ ClientSignal
    \/ \E n \in Connections : Connect(n) \/ EgressPanics(n) \/ Lose(n) \/ Serve(n)

Spec == Init /\ [][Next]_vars

(* Threads run: the main threads, the tasks of connections when a worker is *)
(* free, and the egresses, which try again and again.  Nobody has to launch *)
(* or to signal.                                                            *)
Fairness ==
    /\ WF_vars(ServerMain)
    /\ WF_vars(ClientMain)
    /\ \A n \in Connections : WF_vars(Connect(n)) /\ WF_vars(Serve(n))

FairSpec == Spec /\ Fairness
----------------------------------------------------------------------------
(* Certificate and private key in the directory belong together however    *)
(* often the server crashed while it wrote them, unless the key was there, *)
(* without a certificate, before the first launch (utils.rs:26-49).        *)
PairMatches ==
    config # None /\ file[CertFile].what = "cert" /\ file[KeyFile].what = "key" =>
        file[CertFile].gen = file[KeyFile].gen \/ file[KeyFile].gen = 1

(* readme.md: the server generates the certificate on first launch and     *)
(* logs its hash.  Once a hash was logged every later launch logs the same *)
(* one, so that clients can stay as they are (utils.rs:26-56).             *)
AnnouncedHashStays == [][announced # 0 => announced' = announced]_announced

(* stop() returns although the tasks of connections block every worker on  *)
(* the lock it holds (server.rs:144-168).                                  *)
StopReturns == server = "stop" ~> server = "down"

(* When stop() has returned no connection is left, not even one that had   *)
(* found its ingress before stop() drained them; and only such a one is    *)
(* ever refused by its ingress, with its client Ready, because an ingress  *)
(* is registered after it has started (server.rs:157-161, 202 of the       *)
(* library, server.rs:31-37, 66 of the program).                           *)
StopClosesTunnels ==
    /\ ~endpoint /\ stopping = "no" => ~open /\ \A k \in Connections : ~conn[k].up
    /\ \A k \in Connections : conn[k].pc = "refused" /\ conn[k].up => stopping # "no"

(* A client that waits for its signal has every egress of its command line *)
(* in its map, and none twice; one that has exited has left none running   *)
(* (client.rs of the program, client.rs of the library).                   *)
NoEgressIsForgotten ==
    /\ client = "wait" => \A n \in DOMAIN entries :
                            n \in egressById /\ egress[n] # "off"
    /\ client = "exited" => \A n \in Connections : egress[n] = "off"

(* readme.md: the server of an egress overrides the shared one; ids that   *)
(* are configured can be referred to across restarts.                      *)
ConfiguredServer(toml, entry) ==
    IF entry.server = None THEN toml.server ELSE entry.server

ConfiguredEntries(toml) == toml.tcp_egress \o toml.udp_egress

IsServed(n) ==
    /\ clientCommand.config # None
    /\ serverCommand.config # None
    /\ LET client_toml == clientCommand.config[1]
           server_toml == serverCommand.config[1] IN
        /\ n \in DOMAIN ConfiguredEntries(client_toml)
        /\ LET entry == ConfiguredEntries(client_toml)[n] IN
            /\ ConfiguredServer(client_toml, entry) =
                    Some([address |-> Some(UnwrapOr(server_toml.port, 8765)),
                          cert_hash |-> "logged"])
            /\ \E ingress_toml \in {server_toml.tcp_ingress[i] : i \in DOMAIN server_toml.tcp_ingress}
                                 \cup {server_toml.udp_ingress[i] : i \in DOMAIN server_toml.udp_ingress} :
                 /\ ingress_toml.id = Some(entry.ingress_id)
                 /\ ingress_toml.auth_key = entry.auth_key

(* readme.md: an egress whose server, ingress and key are those of the     *)
(* configuration of the server has a tunnel in the end, also after the     *)
(* server was launched again or the connection was lost, while the server  *)
(* serves and the egress runs (toml_config.rs:181-247, server.rs, utils.rs *)
(* of the program).                                                        *)
ConfiguredEgressIsServed ==
    \A n \in Connections :
        server = "serve" /\ egress[n] = "on" /\ IsServed(n)
        ~> conn[n].pc = "tunnel" \/ server # "serve" \/ egress[n] # "on"
============================================================================
